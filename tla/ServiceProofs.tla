---------------------------- MODULE ServiceProofs ----------------------------
(* Proofs about the rApp's own services, each for any number of threads,   *)
(* tasks, processes and failure modes.  Every part has a conjunction of    *)
(* named facts that its steps keep, and its property follows from them.    *)
(* The parts that compute along sequences, the federation among them, come *)
(* after the lemmas about folds they rest on.                              *)
EXTENDS Lifecycle, Degradation, ArtefactVault, LoopState, Liveness, Nis2Reporter,
        Registries, Anchoring, KafkaFeed, Connectors, KpmBridge, ShadowExecutor,
        ShieldedEnv, Federated, FiniteSetTheorems, SequenceTheorems, FunctionTheorems,
        NaturalsInduction, WellFoundedInduction, TLAPS

-----------------------------------------------------------------------------
(* The degradation controller and its alarm.                               *)

DegTyped ==
  /\ degraded \in {"normal"} \cup {FailureToState[m] : m \in Modes}
  /\ mode \in Modes \cup {NoMode}
  /\ noticed \in [Modes -> BOOLEAN]
  /\ pending \in [Modes -> {NoMode, "degraded", "recovered"}]
  /\ down \in [Modes -> BOOLEAN]
  /\ overlapped \in BOOLEAN
  /\ alarms \in [Causes -> {Cleared, "major"}]

\* Without an overlap one alarm at most is pending, and it tells the state.
AlarmOnItsWay ==
  ~overlapped =>
    /\ \A m, n \in Modes : pending[m] # NoMode /\ pending[n] # NoMode => m = n
    /\ \A m \in Modes : /\ pending[m] = "degraded" => degraded # "normal"
                        /\ pending[m] = "recovered" => degraded = "normal"

DegInd == DegTyped /\ AlarmOnItsWay /\ AlarmMatchesMode

\* What the two events do to the bus.
LEMMA DegAlarms ==
  ASSUME NEW active \in [Causes -> {Cleared, "major"}]
  PROVE  /\ "qosAlarm" \in Causes
         /\ EmitEvent(active, "degraded") = [active EXCEPT !["qosAlarm"] = "major"]
         /\ EmitEvent(active, "recovered") = [active EXCEPT !["qosAlarm"] = Cleared]
<1>1. /\ FailureMap["degraded"] = [cause |-> "qosAlarm", severity |-> "major"]
      /\ FailureMap["recovered"] = [cause |-> "qosAlarm", severity |-> "cleared"]
      /\ "degraded" \in DOMAIN FailureMap
  BY DEF FailureMap
<1>2. FailureMap["degraded"].cause = "qosAlarm"
  BY <1>1
<1>3. "qosAlarm" \in Causes
  BY <1>1, <1>2, Zenon DEF Causes
<1>4. /\ EmitEvent(active, "degraded") = [active EXCEPT !["qosAlarm"] = "major"]
      /\ EmitEvent(active, "recovered") = [active EXCEPT !["qosAlarm"] = Cleared]
  BY <1>1 DEF EmitEvent
<1> QED BY <1>3, <1>4

\* No mode maps to the normal state.
LEMMA ModesDegrade == \A m \in Modes : FailureToState[m] # "normal"
BY ModesAssumption DEF FailureToState

\* The facts hold of a new controller.
LEMMA DegIndInit == DegInit => DegInd
<1> SUFFICES ASSUME DegInit PROVE DegInd
  OBVIOUS
<1>1. alarms \in [Causes -> {Cleared, "major"}] /\ alarms["qosAlarm"] = Cleared
  BY DegAlarms DEF DegInit, Silent
<1>2. DegTyped
  BY <1>1 DEF DegInit, DegTyped, NoMode
<1>3. AlarmOnItsWay /\ AlarmMatchesMode
  BY <1>1 DEF DegInit, AlarmOnItsWay, AlarmMatchesMode, NoMode
<1> QED BY <1>2, <1>3 DEF DegInd

\* Transitions, alarms and helpers keep them.
LEMMA DegIndStep == DegInd /\ [DegNext]_degVars => DegInd'
<1> SUFFICES ASSUME DegInd, [DegNext]_degVars PROVE DegInd'
  OBVIOUS
<1>0. DegTyped /\ AlarmOnItsWay /\ AlarmMatchesMode
  BY DEF DegInd
<1>a. ASSUME UNCHANGED transitionVars PROVE DegInd'
  BY <1>0, <1>a DEF transitionVars, DegInd, DegTyped, AlarmOnItsWay,
                    AlarmMatchesMode, AlarmsOut
<1>1. CASE UNCHANGED degVars
  BY <1>1, <1>a DEF degVars, transitionVars
<1>2. ASSUME NEW m \in Modes, Enter(m) PROVE DegInd'
  <2>1. CASE UNCHANGED <<degraded, mode, pending, overlapped>>
    BY <1>0, <1>2, <2>1 DEF Enter, DegInd, DegTyped, AlarmOnItsWay,
                            AlarmMatchesMode, AlarmsOut
  <2>2. CASE /\ degraded' = FailureToState[m] /\ mode' = m
             /\ pending' = [pending EXCEPT ![m] = "degraded"]
             /\ overlapped' = (overlapped \/ ~AlarmsOut)
    <3>1. /\ noticed' = [noticed EXCEPT ![m] = TRUE]
          /\ UNCHANGED <<down, alarms>> /\ pending'[m] = "degraded"
      BY <1>0, <1>2, <2>2 DEF Enter, DegTyped
    <3>2. overlapped' \in BOOLEAN /\ (~overlapped' => AlarmsOut)
      BY <1>0, <2>2, Zenon DEF DegTyped
    <3>3. DegTyped'
      BY <1>0, <2>2, <3>1, <3>2 DEF DegTyped
    <3>4. AlarmOnItsWay'
      BY <1>0, <2>2, <3>2, ModesDegrade DEF AlarmOnItsWay, AlarmsOut, DegTyped, NoMode
    <3>5. AlarmMatchesMode'
      BY <3>1 DEF AlarmMatchesMode, AlarmsOut, NoMode
    <3> QED BY <3>3, <3>4, <3>5 DEF DegInd
  <2> QED BY <1>2, <2>1, <2>2 DEF Enter
<1>3. ASSUME NEW m \in Modes, Recover(m) PROVE DegInd'
  <2>1. CASE UNCHANGED <<degraded, mode, pending, overlapped>>
    BY <1>0, <1>3, <2>1 DEF Recover, DegInd, DegTyped, AlarmOnItsWay,
                            AlarmMatchesMode, AlarmsOut
  <2>2. CASE /\ degraded' = "normal" /\ mode' = NoMode
             /\ pending' = [pending EXCEPT ![m] = "recovered"]
             /\ overlapped' = (overlapped \/ ~AlarmsOut)
    <3>1. /\ noticed' = [noticed EXCEPT ![m] = FALSE]
          /\ UNCHANGED <<down, alarms>> /\ pending'[m] = "recovered"
      BY <1>0, <1>3, <2>2 DEF Recover, DegTyped
    <3>2. overlapped' \in BOOLEAN /\ (~overlapped' => AlarmsOut)
      BY <1>0, <2>2, Zenon DEF DegTyped
    <3>3. DegTyped'
      BY <1>0, <2>2, <3>1, <3>2 DEF DegTyped
    <3>4. AlarmOnItsWay'
      BY <1>0, <2>2, <3>2 DEF AlarmOnItsWay, AlarmsOut, DegTyped, NoMode
    <3>5. AlarmMatchesMode'
      BY <3>1 DEF AlarmMatchesMode, AlarmsOut, NoMode
    <3> QED BY <3>3, <3>4, <3>5 DEF DegInd
  <2> QED BY <1>3, <2>1, <2>2 DEF Recover
<1>4. ASSUME NEW m \in Modes, RaiseAlarm(m) PROVE DegInd'
  <2>1. /\ pending[m] \in {"degraded", "recovered"}
        /\ alarms' = EmitEvent(alarms, pending[m])
        /\ pending' = [pending EXCEPT ![m] = NoMode]
        /\ UNCHANGED <<degraded, mode, noticed, down, overlapped>>
    BY <1>0, <1>4 DEF RaiseAlarm, DegTyped
  <2>2. /\ pending[m] = "degraded" => alarms' = [alarms EXCEPT !["qosAlarm"] = "major"]
        /\ pending[m] = "recovered" => alarms' = [alarms EXCEPT !["qosAlarm"] = Cleared]
        /\ "qosAlarm" \in Causes
    BY <1>0, <2>1, DegAlarms DEF DegTyped
  <2>3. DegTyped'
    BY <1>0, <2>1, <2>2 DEF DegTyped
  <2>4. AlarmOnItsWay'
    BY <1>0, <2>1 DEF AlarmOnItsWay, DegTyped, NoMode
  <2>5. /\ pending[m] = "degraded" => alarms'["qosAlarm"] = "major"
        /\ pending[m] = "recovered" => alarms'["qosAlarm"] = Cleared
    BY <1>0, <2>2 DEF DegTyped
  <2>6. AlarmMatchesMode'
    BY <1>0, <2>1, <2>5 DEF AlarmMatchesMode, AlarmOnItsWay, Cleared
  <2> QED BY <2>3, <2>4, <2>6 DEF DegInd
<1>5. ASSUME NEW m \in Modes, Toggle(m) PROVE DegInd'
  BY <1>0, <1>5 DEF Toggle, DegInd, DegTyped, AlarmOnItsWay, AlarmMatchesMode, AlarmsOut
<1>6. CASE Helpers
  BY <1>6, <1>a DEF Helpers, RecordLastGoodPolicy, BufferEvidence, HoldDecision,
                    DrainBufferedEvidence, DrainHeldDecisions
<1> QED BY <1>1, <1>2, <1>3, <1>4, <1>5, <1>6 DEF DegNext

\* They give the types.
LEMMA DegIndTypes == DegInd => DegTypeOK
BY DEF DegInd, DegTyped, DegTypeOK

\* For any failure modes: unless transitions overlap, the qosAlarm the SMO sees
\* once the alarms are out is active exactly while the controller is degraded.
THEOREM AlarmAlwaysMatchesMode == DegSpec => []AlarmMatchesMode
<1>1. DegInd => AlarmMatchesMode
  BY DEF DegInd
<1> QED BY <1>1, DegIndInit, DegIndStep, PTL DEF DegSpec

-----------------------------------------------------------------------------
(* The rApp's lifecycle.                                                   *)

LcPlaces == {Down, "register", "types", "bootFailed", "booted", "serving",
             "cancelling", "shutdown", "draining", "deregister", "close"}

LcTyped ==
  /\ main \in LcPlaces
  /\ entry \in {"forever", "once"}
  /\ rapp \in RAppStates
  /\ planner \in [Planners -> {"idle", "running", "cancelling"}]
  /\ waitFor \subseteq Planners
  /\ servers \subseteq {"health", "api"}
  /\ told \in {"none", "READY", "STOPPING"}
  /\ stopSet \in BOOLEAN /\ drainSet \in BOOLEAN /\ registered \in BOOLEAN
  /\ smo \in BOOLEAN /\ a1Types \in BOOLEAN /\ a1Open \in BOOLEAN
  /\ watchdogOn \in BOOLEAN /\ serving \in BOOLEAN

\* The checkpoint and both counters stay behind what was emitted.
LcCounts ==
  /\ emittedEver \in 0..MaxEmits
  /\ restored \in 0..emittedEver /\ emittedHere \in 0..emittedEver
  /\ disk \in [reads : {"loaded", "missing", "corrupt"}, count : 0..emittedEver]

\* How far boot has come, by where the main coroutine is.
LcBooted ==
  /\ main \in {"register", "types"} => a1Open /\ ~drainSet
  /\ main = "types" => registered /\ smo
  /\ main \in {"booted", "serving", "cancelling"} => rapp = "running"

\* The rApp says it runs only between its boot and its shutdown.
LcRunning ==
  /\ rapp = "running" =>
       /\ main \in {"booted", "serving", "cancelling", "shutdown"}
       /\ registered /\ smo /\ a1Types /\ a1Open /\ ~drainSet
  /\ told = "READY" => main \in {"serving", "cancelling"}

\* run_forever() shuts down only after its tasks were stopped.
LcStopped ==
  /\ entry = "forever"
  /\ \/ main \in {"shutdown", "draining", "deregister", "close"}
     \/ rapp \in {"deregistering", "stopped"}
  => told = "STOPPING"

\* From the drain signal on no task begins, and the ones left are waited for.
LcDrains ==
  /\ main \in {"draining", "deregister", "close"} => drainSet
  /\ main = "draining" => \A t \in Planners : planner[t] # "idle" => t \in waitFor
  /\ NoEmitAfterClose

LcInd == LcTyped /\ LcCounts /\ LcBooted /\ LcRunning /\ LcStopped /\ LcDrains

\* The facts hold before the first start.
LEMMA LcIndInit == LcInit => LcInd
<1> SUFFICES ASSUME LcInit PROVE LcInd
  OBVIOUS
<1>1. LcTyped
  BY DEF LcInit, LcTyped, LcPlaces, RAppStates, Down
<1>2. LcCounts
  BY LifecycleAssumption DEF LcInit, LcCounts
<1>3. LcBooted /\ LcRunning /\ LcStopped
  BY DEF LcInit, LcBooted, LcRunning, LcStopped, Down
<1>4. LcDrains
  BY DEF LcInit, LcDrains, NoEmitAfterClose, Down
<1> QED BY <1>1, <1>2, <1>3, <1>4 DEF LcInd

\* A save writes a count that is not ahead.
LEMMA SaveStateKeeps ==
  ASSUME LcCounts, SaveState, UNCHANGED <<emittedEver, restored, emittedHere>>
  PROVE  LcCounts'
<1>1. Snapshot \in 0..emittedEver
  BY DEF LcCounts, Snapshot
<1>2. [reads |-> "loaded", count |-> Snapshot] \in
        [reads : {"loaded", "missing", "corrupt"}, count : 0..emittedEver]
  BY <1>1
<1> QED BY <1>2 DEF SaveState, LcCounts

\* Start, main coroutine, tasks, signals and crashes keep the facts.
LEMMA LcIndStep == LcInd /\ [LcNext]_lcVars => LcInd'
<1> SUFFICES ASSUME LcInd, [LcNext]_lcVars PROVE LcInd'
  OBVIOUS
<1>0. LcTyped /\ LcCounts /\ LcBooted /\ LcRunning /\ LcStopped /\ LcDrains
  BY DEF LcInd
\* Most steps leave the counts alone.
<1>a. ASSUME UNCHANGED <<emittedEver, restored, emittedHere, disk>> PROVE LcCounts'
  BY <1>0, <1>a DEF LcCounts
<1> USE DEF Down, mainOnly, shutdownRest, plannerOnly
<1>1. CASE UNCHANGED lcVars
  BY <1>0, <1>1 DEF lcVars, LcInd, LcTyped, LcCounts, LcBooted, LcRunning,
                    LcStopped, LcDrains, NoEmitAfterClose
<1>2. ASSUME NEW kind \in {"forever", "once"}, Launch(kind) PROVE LcInd'
  <2>1. LcTyped'
    BY <1>0, <1>2 DEF Launch, LcTyped, LcPlaces, RAppStates
  <2>2. LcCounts'
    <3>1. RestoredCount \in 0..emittedEver
      BY <1>0 DEF LcCounts, RestoredCount
    <3> QED BY <1>0, <1>2, <3>1 DEF Launch, LcCounts
  <2>3. LcBooted' /\ LcRunning' /\ LcStopped' /\ LcDrains'
    BY <1>2 DEF Launch, LcBooted, LcRunning, LcStopped, LcDrains, NoEmitAfterClose
  <2> QED BY <2>1, <2>2, <2>3 DEF LcInd
<1>3. CASE RegisterRApp
  <2>0. UNCHANGED <<entry, stopSet, drainSet, planner, waitFor, a1Open, restored, emittedHere,
                    emittedEver, serving, starts, a1Types, servers, told, watchdogOn, disk>>
    BY <1>3 DEF RegisterRApp
  <2>5. smo \in BOOLEAN /\ registered \in BOOLEAN
    BY <1>0 DEF LcTyped
  <2>6. \/ main' = "types" /\ rapp' = rapp /\ smo' = TRUE /\ registered' = TRUE
        \/ /\ main' = "bootFailed" /\ rapp' = "degraded"
           /\ smo' \in BOOLEAN /\ registered' \in BOOLEAN
    BY <1>3, <2>5, Zenon DEF RegisterRApp
  <2>7. main = "register"
    BY <1>3 DEF RegisterRApp
  <2>8. smo' \in BOOLEAN /\ registered' \in BOOLEAN
    BY <2>6
  <2>9. main' \in LcPlaces /\ rapp' \in RAppStates
    BY <1>0, <2>6 DEF LcTyped, LcPlaces, RAppStates
  <2>1. LcTyped'
    BY <1>0, <2>0, <2>8, <2>9 DEF LcTyped
  <2>2. LcCounts'
    BY <2>0, <1>a
  <2>3. LcBooted' /\ LcRunning'
    BY <1>0, <2>0, <2>6, <2>7 DEF LcBooted, LcRunning
  <2>4. LcStopped' /\ LcDrains'
    BY <1>0, <2>0, <2>6, <2>7 DEF LcStopped, LcDrains, NoEmitAfterClose
  <2> QED BY <2>1, <2>2, <2>3, <2>4 DEF LcInd
<1>4. CASE OfferTypes
  BY <1>0, <1>4, <1>a DEF OfferTypes, LcInd, LcTyped, LcPlaces, RAppStates, LcBooted,
       LcRunning, LcStopped, LcDrains, NoEmitAfterClose
<1>5. CASE BootFailed
  BY <1>0, <1>5, <1>a DEF BootFailed, LcInd, LcTyped, LcPlaces, RAppStates, LcBooted,
       LcRunning, LcStopped, LcDrains, NoEmitAfterClose
<1>6. CASE Serve
  BY <1>0, <1>6, <1>a DEF Serve, LcInd, LcTyped, LcPlaces, RAppStates, LcBooted,
       LcRunning, LcStopped, LcDrains, NoEmitAfterClose
<1>7. CASE WatchdogBegins
  BY <1>0, <1>7, <1>a DEF WatchdogBegins, LcInd, LcTyped, LcBooted, LcRunning,
       LcStopped, LcDrains, NoEmitAfterClose
<1>8. CASE Checkpoint
  <2>1. LcCounts'
    BY <1>0, <1>8, SaveStateKeeps DEF Checkpoint
  <2> QED BY <1>0, <1>8, <2>1 DEF Checkpoint, LcInd, LcTyped, LcBooted, LcRunning,
            LcStopped, LcDrains, NoEmitAfterClose
<1>9. CASE LastCheckpoint
  <2>1. LcCounts'
    BY <1>0, <1>9, SaveStateKeeps DEF LastCheckpoint
  <2> QED BY <1>0, <1>9, <2>1 DEF LastCheckpoint, LcInd, LcTyped, LcPlaces, LcBooted,
            LcRunning, LcStopped, LcDrains, NoEmitAfterClose
<1>10. CASE StopTasks
  BY <1>0, <1>10, <1>a DEF StopTasks, LcInd, LcTyped, LcPlaces, LcBooted, LcRunning,
       LcStopped, LcDrains, NoEmitAfterClose
<1>11. CASE Shutdown
  BY <1>0, <1>11, <1>a DEF Shutdown, LcInd, LcTyped, LcPlaces, RAppStates, LcBooted,
       LcRunning, LcStopped, LcDrains, NoEmitAfterClose
<1>12. CASE Drained
  BY <1>0, <1>12, <1>a DEF Drained, LcInd, LcTyped, LcPlaces, LcBooted, LcRunning,
       LcStopped, LcDrains, NoEmitAfterClose
<1>13. CASE DrainTimesOut
  BY <1>0, <1>13, <1>a DEF DrainTimesOut, LcInd, LcTyped, LcBooted, LcRunning,
       LcStopped, LcDrains, NoEmitAfterClose
<1>14. CASE Deregister
  BY <1>0, <1>14, <1>a DEF Deregister, LcInd, LcTyped, LcPlaces, LcBooted, LcRunning,
       LcStopped, LcDrains, NoEmitAfterClose
<1>15. CASE Close
  BY <1>0, <1>15, <1>a DEF Close, LcInd, LcTyped, LcPlaces, RAppStates, LcBooted,
       LcRunning, LcStopped, LcDrains, NoEmitAfterClose
<1>16. ASSUME NEW t \in Planners, Track(t) PROVE LcInd'
  BY <1>0, <1>16, <1>a DEF Track, AtAwait, LcInd, LcTyped, LcBooted, LcRunning,
       LcStopped, LcDrains, NoEmitAfterClose
<1>17. ASSUME NEW t \in Planners, Emit(t) PROVE LcInd'
  <2>1. LcCounts'
    BY <1>0, <1>17, LifecycleAssumption DEF Emit, LcCounts
  <2> QED BY <1>0, <1>17, <2>1 DEF Emit, LcInd, LcTyped, LcBooted, LcRunning,
            LcStopped, LcDrains, NoEmitAfterClose
<1>18. ASSUME NEW t \in Planners, EndTask(t) PROVE LcInd'
  BY <1>0, <1>18, <1>a DEF EndTask, LcInd, LcTyped, LcBooted, LcRunning,
       LcStopped, LcDrains, NoEmitAfterClose
<1>19. CASE Signal
  BY <1>0, <1>19, <1>a DEF Signal, LcInd, LcTyped, LcBooted, LcRunning,
       LcStopped, LcDrains, NoEmitAfterClose
<1>20. CASE Crash
  BY <1>0, <1>20, <1>a DEF Crash, LcInd, LcTyped, LcPlaces, RAppStates, LcBooted,
       LcRunning, LcStopped, LcDrains, NoEmitAfterClose
<1>21. CASE LoseFile
  <2>1. LcCounts'
    BY <1>0, <1>21 DEF LoseFile, LcCounts
  <2> QED BY <1>0, <1>21, <2>1 DEF LoseFile, LcInd, LcTyped, LcBooted, LcRunning,
            LcStopped, LcDrains, NoEmitAfterClose
<1>22. CASE ServingChanges
  BY <1>0, <1>22, <1>a DEF ServingChanges, LcInd, LcTyped, LcBooted, LcRunning,
       LcStopped, LcDrains, NoEmitAfterClose
<1> QED
  BY <1>1, <1>2, <1>3, <1>4, <1>5, <1>6, <1>7, <1>8, <1>9, <1>10, <1>11, <1>12,
     <1>13, <1>14, <1>15, <1>16, <1>17, <1>18, <1>19, <1>20, <1>21, <1>22
     DEF LcNext, MainStep

\* They give the types.
LEMMA LcIndTypes == LcInd => LcTypeOK
<1> SUFFICES ASSUME LcInd PROVE LcTypeOK
  OBVIOUS
<1>1. disk \in Files
  BY LifecycleAssumption DEF LcInd, LcCounts, Files
<1> QED BY <1>1 DEF LcInd, LcTyped, LcPlaces, LcTypeOK

\* They give the truth of what the outside is told.
LEMMA LcIndTruth == LcInd => OutsideToldTruth /\ CountNeverAhead /\ NoEmitAfterClose
<1> SUFFICES ASSUME LcInd PROVE OutsideToldTruth /\ CountNeverAhead /\ NoEmitAfterClose
  OBVIOUS
<1>1. OutsideToldTruth
  BY DEF LcInd, LcRunning, LcBooted, LcStopped, OutsideToldTruth, Readyz
<1>2. CountNeverAhead
  BY LifecycleAssumption DEF LcInd, LcCounts, CountNeverAhead
<1>3. NoEmitAfterClose
  BY DEF LcInd, LcDrains
<1> QED BY <1>1, <1>2, <1>3

\* Over any number of tasks, policies and starts: what the rApp tells systemd, the
\* SMO and the probes is true, its checkpoint never claims a policy that was not
\* emitted, and it is silent before it closes its clients.
THEOREM LifecycleAlwaysTruthful ==
  LcSpec => [](OutsideToldTruth /\ CountNeverAhead /\ NoEmitAfterClose)
BY LcIndInit, LcIndStep, LcIndTruth, PTL DEF LcSpec

-----------------------------------------------------------------------------
(* The artefact vault.                                                     *)

Stages == {"idle", "open", "write", "rename", "meta", "metaWrite"}

VaultTyped ==
  /\ vBin \in [Shas -> Contents] /\ vTmp \in [Shas -> Contents]
  /\ vMeta \in [Shas -> Contents]
  /\ vAt \in [Vaults -> [at : Stages, sha : Shas]]
  /\ vDone \subseteq Shas /\ vMeddled \subseteq Shas
  /\ vShared \in BOOLEAN
  /\ vStores \in 0..MaxStores

\* The file of h is what was stored, or somebody else altered it.
FileKept(h) == vBin[h] = "whole" \/ h \in vMeddled

\* No two processes are busy with the same content.
OneStorer ==
  \A p, q \in Vaults :
    vAt[p].at # "idle" /\ vAt[q].at # "idle" /\ vAt[p].sha = vAt[q].sha => p = q

\* How far each store() is tells what its files hold.
StoresInOrder ==
  \A p \in Vaults :
    /\ vAt[p].at = "write" => vTmp[vAt[p].sha] # "absent"
    /\ vAt[p].at = "rename" => vTmp[vAt[p].sha] = "whole"
    /\ vAt[p].at \in {"meta", "metaWrite"} => FileKept(vAt[p].sha)

\* A file is absent or kept, and kept once it is listed or returned.
FilesKept ==
  \A h \in Shas : /\ vBin[h] = "absent" \/ FileKept(h)
                  /\ h \in vDone \/ vMeta[h] = "whole" => FileKept(h)

VaultInd == VaultTyped /\ (~vShared => OneStorer /\ StoresInOrder /\ FilesKept)

\* The facts hold of an empty vault.
LEMMA VaultIndInit == VaultInit => VaultInd
<1> SUFFICES ASSUME VaultInit PROVE VaultInd
  OBVIOUS
<1>1. NoStore \in [at : Stages, sha : Shas] /\ NoStore.at = "idle"
  BY VaultAssumption DEF NoStore, Stages
<1>2. VaultTyped
  <2>1. vAt \in [Vaults -> [at : Stages, sha : Shas]]
    BY <1>1 DEF VaultInit
  <2>2. vStores \in 0..MaxStores
    BY VaultAssumption DEF VaultInit
  <2>3. vShared \in BOOLEAN
    BY DEF VaultInit
  <2> QED BY <2>1, <2>2, <2>3 DEF VaultInit, VaultTyped, Contents
<1>3. \A p \in Vaults : vAt[p].at = "idle"
  BY <1>1 DEF VaultInit
<1>4. OneStorer /\ StoresInOrder
  BY <1>3 DEF OneStorer, StoresInOrder
<1>5. FilesKept
  BY DEF VaultInit, FilesKept, FileKept
<1> QED BY <1>2, <1>4, <1>5 DEF VaultInd

\* Going moves p alone.
LEMMA GoingMoves ==
  ASSUME VaultTyped, NEW p \in Vaults, NEW next \in Stages, Going(p, next)
  PROVE  /\ vAt' \in [Vaults -> [at : Stages, sha : Shas]]
         /\ vAt'[p].at = next
         /\ \A q \in Vaults : vAt'[q].sha = vAt[q].sha
         /\ \A q \in Vaults : q # p => vAt'[q].at = vAt[q].at
BY DEF VaultTyped, Going

\* Every step of a store(), its end and other hands keep the facts.
LEMMA VaultIndStep == VaultInd /\ [VaultNext]_vaultVars => VaultInd'
<1> SUFFICES ASSUME VaultInd, [VaultNext]_vaultVars PROVE VaultInd'
  OBVIOUS
<1> USE DEF Stages, Contents
<1>0. VaultTyped
  BY DEF VaultInd
<1>1. CASE UNCHANGED vaultVars
  BY <1>1 DEF vaultVars, VaultInd, VaultTyped, OneStorer, StoresInOrder, FilesKept, FileKept
<1>2. ASSUME NEW p \in Vaults, NEW h \in Shas, StoreArtefact(p, h) PROVE VaultInd'
  <2> DEFINE stage == IF vBin[h] = "absent" THEN "open" ELSE "meta"
  <2> DEFINE entry1 == [at |-> stage, sha |-> h]
  <2>1. entry1 \in [at : Stages, sha : Shas] /\ entry1.at = stage /\ entry1.sha = h
    OBVIOUS
  <2>2. vAt' = [vAt EXCEPT ![p] = entry1]
    BY <1>2 DEF StoreArtefact
  <2> HIDE DEF entry1
  <2>3. /\ vAt' \in [Vaults -> [at : Stages, sha : Shas]]
        /\ vAt'[p].at = stage /\ vAt'[p].sha = h
        /\ \A q \in Vaults : q # p => vAt'[q] = vAt[q]
    BY <1>0, <2>1, <2>2 DEF VaultTyped
  <2>4. VaultTyped'
    BY <1>0, <1>2, <2>3, VaultAssumption DEF StoreArtefact, VaultTyped
  <2>5. ASSUME ~vShared' PROVE OneStorer' /\ StoresInOrder' /\ FilesKept'
    <3>1. /\ ~vShared
          /\ \A q \in Vaults : vAt[q].at = "idle" \/ vAt[q].sha # h
      BY <1>0, <1>2, <2>5 DEF StoreArtefact, VaultTyped
    <3>2. OneStorer /\ StoresInOrder /\ FilesKept
      BY <3>1 DEF VaultInd
    <3>3. UNCHANGED <<vBin, vTmp, vMeta, vDone, vMeddled>>
      BY <1>2 DEF StoreArtefact
    <3>4. OneStorer'
      BY <2>3, <3>1, <3>2 DEF OneStorer
    <3>5. StoresInOrder'
      BY <1>2, <2>3, <3>2, <3>3 DEF StoresInOrder, FilesKept, FileKept
    <3>6. FilesKept'
      BY <3>2, <3>3 DEF FilesKept, FileKept
    <3> QED BY <3>4, <3>5, <3>6
  <2> QED BY <2>4, <2>5 DEF VaultInd
<1>3. ASSUME NEW p \in Vaults, OpenTmp(p) PROVE VaultInd'
  <2>1. /\ vAt[p].at = "open" /\ Going(p, "write")
        /\ vTmp' = [vTmp EXCEPT ![vAt[p].sha] = "torn"]
        /\ UNCHANGED <<vBin, vMeta, vDone, vShared, vMeddled, vStores>>
    BY <1>3 DEF OpenTmp
  <2>2. VaultTyped'
    BY <1>0, <2>1, GoingMoves DEF VaultTyped
  <2>3. ASSUME ~vShared PROVE OneStorer' /\ StoresInOrder' /\ FilesKept'
    BY <1>0, <2>1, <2>3, GoingMoves DEF VaultInd, VaultTyped, OneStorer, StoresInOrder,
                                        FilesKept, FileKept
  <2> QED BY <2>1, <2>2, <2>3 DEF VaultInd
<1>4. ASSUME NEW p \in Vaults, WriteTmp(p) PROVE VaultInd'
  <2> DEFINE h == vAt[p].sha
  <2>0. h \in Shas
    BY <1>0 DEF VaultTyped
  <2>1. /\ vAt[p].at = "write" /\ Going(p, "rename")
        /\ UNCHANGED <<vMeta, vDone, vShared, vMeddled, vStores>>
        /\ \/ vTmp[h] # "absent" /\ vTmp' = [vTmp EXCEPT ![h] = "whole"] /\ vBin' = vBin
           \/ vTmp[h] = "absent" /\ vBin' = [vBin EXCEPT ![h] = "whole"] /\ vTmp' = vTmp
    BY <1>4 DEF WriteTmp
  <2>2. VaultTyped'
    BY <1>0, <2>0, <2>1, GoingMoves DEF VaultTyped
  <2>3. ASSUME ~vShared PROVE OneStorer' /\ StoresInOrder' /\ FilesKept'
    <3>1. vTmp' = [vTmp EXCEPT ![h] = "whole"] /\ vBin' = vBin
      BY <2>1, <2>3 DEF VaultInd, StoresInOrder
    <3>2. OneStorer /\ StoresInOrder /\ FilesKept
      BY <2>3 DEF VaultInd
    <3>3. OneStorer'
      BY <1>0, <2>1, <3>2, GoingMoves DEF OneStorer
    <3>4. StoresInOrder'
      BY <1>0, <2>0, <2>1, <3>1, <3>2, GoingMoves DEF VaultTyped, StoresInOrder, FileKept
    <3>5. FilesKept'
      BY <2>1, <3>1, <3>2 DEF FilesKept, FileKept
    <3> QED BY <3>3, <3>4, <3>5
  <2> QED BY <2>1, <2>2, <2>3 DEF VaultInd
<1>5. ASSUME NEW p \in Vaults, Rename(p) PROVE VaultInd'
  <2> DEFINE h == vAt[p].sha
  <2>0. h \in Shas
    BY <1>0 DEF VaultTyped
  <2>1. /\ vAt[p].at = "rename"
        /\ UNCHANGED <<vMeta, vDone, vShared, vMeddled, vStores>>
    BY <1>5 DEF Rename
  <2>2. CASE /\ vTmp[h] # "absent" /\ Going(p, "meta")
             /\ vBin' = [vBin EXCEPT ![h] = vTmp[h]]
             /\ vTmp' = [vTmp EXCEPT ![h] = "absent"]
    <3>1. VaultTyped'
      BY <1>0, <2>0, <2>1, <2>2, GoingMoves DEF VaultTyped
    <3>2. ASSUME ~vShared PROVE OneStorer' /\ StoresInOrder' /\ FilesKept'
      <4>1. vTmp[h] = "whole"
        BY <2>1, <3>2 DEF VaultInd, StoresInOrder
      <4> QED BY <1>0, <2>0, <2>1, <2>2, <3>2, <4>1, GoingMoves
                 DEF VaultInd, VaultTyped, OneStorer, StoresInOrder, FilesKept, FileKept
    <3> QED BY <2>1, <3>1, <3>2 DEF VaultInd
  <2>3. CASE vTmp[h] = "absent" /\ Going(p, "idle") /\ UNCHANGED <<vBin, vTmp>>
    <3>1. VaultTyped'
      BY <1>0, <2>1, <2>3, GoingMoves DEF VaultTyped
    <3>2. ASSUME ~vShared PROVE OneStorer' /\ StoresInOrder' /\ FilesKept'
      BY <1>0, <2>1, <2>3, <3>2, GoingMoves DEF VaultInd, VaultTyped, OneStorer,
                                              StoresInOrder, FilesKept, FileKept
    <3> QED BY <2>1, <3>1, <3>2 DEF VaultInd
  <2> QED BY <1>5, <2>2, <2>3 DEF Rename
<1>6. ASSUME NEW p \in Vaults, OpenMeta(p) PROVE VaultInd'
  <2>1. /\ vAt[p].at = "meta" /\ Going(p, "metaWrite")
        /\ vMeta' = [vMeta EXCEPT ![vAt[p].sha] = "torn"]
        /\ UNCHANGED <<vBin, vTmp, vDone, vShared, vMeddled, vStores>>
    BY <1>6 DEF OpenMeta
  <2>2. VaultTyped'
    BY <1>0, <2>1, GoingMoves DEF VaultTyped
  <2>3. ASSUME ~vShared PROVE OneStorer' /\ StoresInOrder' /\ FilesKept'
    BY <1>0, <2>1, <2>3, GoingMoves DEF VaultInd, VaultTyped, OneStorer, StoresInOrder,
                                        FilesKept, FileKept
  <2> QED BY <2>1, <2>2, <2>3 DEF VaultInd
<1>7. ASSUME NEW p \in Vaults, WriteMeta(p) PROVE VaultInd'
  <2>1. /\ vAt[p].at = "metaWrite" /\ Going(p, "idle")
        /\ vMeta' = [vMeta EXCEPT ![vAt[p].sha] = "whole"]
        /\ vDone' = vDone \cup {vAt[p].sha}
        /\ UNCHANGED <<vBin, vTmp, vShared, vMeddled, vStores>>
    BY <1>7 DEF WriteMeta
  <2>2. VaultTyped'
    BY <1>0, <2>1, GoingMoves DEF VaultTyped
  <2>3. ASSUME ~vShared PROVE OneStorer' /\ StoresInOrder' /\ FilesKept'
    <3>1. OneStorer /\ StoresInOrder /\ FilesKept
      BY <2>3 DEF VaultInd
    <3>2. OneStorer' /\ StoresInOrder'
      BY <1>0, <2>1, <3>1, GoingMoves DEF OneStorer, StoresInOrder, FileKept
    <3>3. FileKept(vAt[p].sha)
      BY <2>1, <3>1 DEF StoresInOrder
    <3>4. FilesKept'
      BY <1>0, <2>1, <3>1, <3>3 DEF VaultTyped, FilesKept, FileKept
    <3> QED BY <3>2, <3>4
  <2> QED BY <2>1, <2>2, <2>3 DEF VaultInd
<1>8. ASSUME NEW p \in Vaults, StoreDies(p) PROVE VaultInd'
  <2>1. Going(p, "idle") /\ UNCHANGED <<vBin, vTmp, vMeta, vDone, vShared, vMeddled, vStores>>
    BY <1>8 DEF StoreDies
  <2>2. VaultTyped'
    BY <1>0, <2>1, GoingMoves DEF VaultTyped
  <2>3. ASSUME ~vShared PROVE OneStorer' /\ StoresInOrder' /\ FilesKept'
    BY <1>0, <2>1, <2>3, GoingMoves DEF VaultInd, VaultTyped, OneStorer, StoresInOrder,
                                        FilesKept, FileKept
  <2> QED BY <2>1, <2>2, <2>3 DEF VaultInd
<1>9. ASSUME NEW h \in Shas, Meddle(h) PROVE VaultInd'
  BY <1>0, <1>9 DEF Meddle, VaultInd, VaultTyped, OneStorer, StoresInOrder, FilesKept, FileKept
<1> QED BY <1>1, <1>2, <1>3, <1>4, <1>5, <1>6, <1>7, <1>8, <1>9 DEF VaultNext

\* They give the types.
LEMMA VaultIndTypes == VaultInd => VaultTypeOK
BY DEF VaultInd, VaultTyped, VaultTypeOK

\* They give the property.
LEMMA VaultIndWhole == VaultInd => ArtefactsWhole
BY DEF VaultInd, FilesKept, FileKept, ArtefactsWhole, Retrieve, ListArtefacts

\* For any contents and any number of processes and calls: whatever store() dies in
\* the middle of, an artefact is absent or whole, and whole once it is returned or
\* listed, unless two processes stored the same content at once.
THEOREM ArtefactsAlwaysWhole == VaultSpec => []ArtefactsWhole
BY VaultIndInit, VaultIndStep, VaultIndWhole, PTL DEF VaultSpec

-----------------------------------------------------------------------------
(* The liveness registry.                                                  *)

LiveTyped ==
  /\ watchdogAge \in 0..AgeCap /\ plannerAge \in 0..AgeCap /\ probeAge \in 0..AgeCap
  /\ loopLag \in 0..AgeCap /\ stall \in 0..AgeCap /\ calm \in 0..AgeCap
  /\ plannerSeen \in BOOLEAN /\ blocked \in BOOLEAN
  /\ providers \in [Providers -> ProviderAnswers]

\* While the loop is stuck, watchdog and probe wait at least as long.
StuckAges ==
  blocked => calm = 0 /\ stall <= watchdogAge /\ stall <= probeAge

\* After a stall the probe has still to run, or has just run and told of it.
StallTold ==
  ~blocked /\ calm = 0 =>
    stall <= probeAge \/ (probeAge = 0 /\ stall <= loopLag + ProbePeriod)

\* A free loop runs its probe in time, so that a lag is not older than its probe.
LagForgotten ==
  /\ ~blocked /\ calm > 0 => probeAge <= ProbePeriod
  /\ loopLag > LagMax => calm <= probeAge

LiveInd == LiveTyped /\ StuckAges /\ StallTold /\ LagForgotten

\* The bound of the ages is above every threshold, and ageing keeps it.
LEMMA AgeCapBounds ==
  /\ AgeCap \in Nat /\ AgeCap > WatchdogMaxAge /\ AgeCap > ProbePeriod + LagMax
  /\ AgeCap > ProbePeriod /\ ProbePeriod \in Nat \ {0} /\ WatchdogInterval \in Nat \ {0}
  /\ LagMax \in Nat /\ WatchdogMaxAge \in Nat /\ PlannerSilence \in Nat
  /\ WatchdogInterval <= WatchdogMaxAge
  /\ \A a \in 0..AgeCap : Older(a) \in 0..AgeCap
  /\ \A a, b \in 0..AgeCap : a <= b => Older(a) <= Older(b)
  /\ \A a \in 0..AgeCap : a < AgeCap => Older(a) = a + 1
  /\ Older(0) = 1
BY LivenessAssumption DEF AgeCap, Older

\* The facts hold at the start.
LEMMA LiveIndInit == LiveInit => LiveInd
<1> SUFFICES ASSUME LiveInit PROVE LiveInd
  OBVIOUS
<1>1. LiveTyped
  <2>1. 0 \in 0..AgeCap
    BY AgeCapBounds
  <2>2. blocked \in BOOLEAN /\ plannerSeen \in BOOLEAN
    BY DEF LiveInit
  <2>3. providers \in [Providers -> ProviderAnswers]
    BY DEF LiveInit, ProviderAnswers
  <2> QED BY <2>1, <2>2, <2>3 DEF LiveInit, LiveTyped
<1>2. StuckAges /\ StallTold /\ LagForgotten
  BY AgeCapBounds DEF LiveInit, StuckAges, StallTold, LagForgotten
<1> QED BY <1>1, <1>2 DEF LiveInd

\* Ticks, turns, stalls and heartbeats keep them.
LEMMA LiveIndStep == LiveInd /\ [LiveNext]_liveVars => LiveInd'
<1> SUFFICES ASSUME LiveInd, [LiveNext]_liveVars PROVE LiveInd'
  OBVIOUS
<1>0. LiveTyped /\ StuckAges /\ StallTold /\ LagForgotten
  BY DEF LiveInd
<1>1. CASE UNCHANGED liveVars
  BY <1>0, <1>1 DEF liveVars, LiveInd, LiveTyped, StuckAges, StallTold, LagForgotten
<1>2. CASE Pass
  <2>1. /\ watchdogAge' = Older(watchdogAge) /\ plannerAge' = Older(plannerAge)
        /\ probeAge' = Older(probeAge)
        /\ UNCHANGED <<plannerSeen, loopLag, blocked, providers>>
    BY <1>2 DEF Pass
  <2>2. CASE blocked
    <3>1. stall' = Older(stall) /\ calm' = calm
      BY <1>2, <2>2 DEF Pass
    <3>2. LiveTyped'
      BY <1>0, <2>1, <3>1, AgeCapBounds DEF LiveTyped
    <3>3. StuckAges' /\ StallTold'
      BY <1>0, <2>1, <2>2, <3>1, AgeCapBounds DEF LiveTyped, StuckAges, StallTold
    <3>4. LagForgotten'
      <4>1. calm = 0 /\ probeAge' \in 0..AgeCap
        BY <1>0, <2>2, <3>2 DEF StuckAges, LiveTyped
      <4> QED BY <2>1, <2>2, <3>1, <4>1, AgeCapBounds DEF LagForgotten
    <3> QED BY <3>2, <3>3, <3>4 DEF LiveInd
  <2>3. CASE ~blocked
    <3>1. /\ calm' = Older(calm) /\ stall' = stall
          /\ watchdogAge < WatchdogInterval /\ probeAge < ProbePeriod
      BY <1>0, <1>2, <2>3, AgeCapBounds DEF Pass, WatchdogDue, ProbeDue, LiveTyped
    <3>2. LiveTyped'
      BY <1>0, <2>1, <3>1, AgeCapBounds DEF LiveTyped
    <3>3. calm' > 0
      BY <1>0, <3>1, AgeCapBounds DEF LiveTyped, Older
    <3>4. StuckAges' /\ StallTold'
      BY <2>1, <2>3, <3>3 DEF StuckAges, StallTold
    <3>5. probeAge' <= ProbePeriod
      BY <1>0, <2>1, <3>1, AgeCapBounds DEF LiveTyped, Older
    <3>6. LagForgotten'
      BY <1>0, <2>1, <3>1, <3>5, AgeCapBounds DEF LiveTyped, LagForgotten
    <3> QED BY <3>2, <3>4, <3>6 DEF LiveInd
  <2> QED BY <1>0, <2>2, <2>3
<1>3. CASE WatchdogTurn
  BY <1>0, <1>3, AgeCapBounds DEF WatchdogTurn, LiveInd, LiveTyped, StuckAges, StallTold,
                                  LagForgotten
<1>4. CASE ProbeTurn
  <2>1. /\ ~blocked /\ probeAge >= ProbePeriod
        /\ loopLag' = probeAge - ProbePeriod /\ probeAge' = 0
        /\ UNCHANGED <<watchdogAge, plannerAge, plannerSeen, blocked, stall, calm, providers>>
    BY <1>4 DEF ProbeTurn, ProbeDue
  <2>2. LiveTyped'
    BY <1>0, <2>1, AgeCapBounds DEF LiveTyped
  <2>3. StuckAges' /\ StallTold'
    BY <1>0, <2>1, AgeCapBounds DEF LiveTyped, StuckAges, StallTold
  <2>4. LagForgotten'
    BY <1>0, <2>1, AgeCapBounds DEF LiveTyped, LagForgotten
  <2> QED BY <2>2, <2>3, <2>4 DEF LiveInd
<1>5. CASE PlannerHeartbeat
  <2>1. plannerSeen' \in BOOLEAN
    BY <1>5 DEF PlannerHeartbeat
  <2> QED BY <1>0, <1>5, <2>1, AgeCapBounds DEF PlannerHeartbeat, LiveInd, LiveTyped,
                                  StuckAges, StallTold, LagForgotten
<1>6. CASE Block
  <2>1. blocked' \in BOOLEAN
    BY <1>6 DEF Block
  <2> QED BY <1>0, <1>6, <2>1, AgeCapBounds DEF Block, LiveInd, LiveTyped, StuckAges,
                                  StallTold, LagForgotten
<1>7. CASE Unblock
  <2>1. blocked' \in BOOLEAN
    BY <1>7 DEF Unblock
  <2> QED BY <1>0, <1>7, <2>1, AgeCapBounds DEF Unblock, LiveInd, LiveTyped, StuckAges,
                                  StallTold, LagForgotten
<1>8. ASSUME NEW p \in Providers, NEW a \in ProviderAnswers, SetProvider(p, a)
      PROVE  LiveInd'
  BY <1>0, <1>8 DEF SetProvider, LiveInd, LiveTyped, StuckAges, StallTold, LagForgotten
<1> QED BY <1>1, <1>2, <1>3, <1>4, <1>5, <1>6, <1>7, <1>8 DEF LiveNext

\* They give the types.
LEMMA LiveIndTypes == LiveInd => LiveTypeOK
<1> SUFFICES ASSUME LiveInd PROVE LiveTypeOK
  OBVIOUS
<1>1. {plannerSeen, blocked} \subseteq BOOLEAN
  BY DEF LiveInd, LiveTyped
<1> QED BY <1>1 DEF LiveInd, LiveTyped, LiveTypeOK

\* They give the truth of /healthz.
LEMMA LiveIndTruth == LiveInd => HealthzTruthful
<1> SUFFICES ASSUME LiveInd PROVE HealthzTruthful
  OBVIOUS
<1>0. LiveTyped /\ StuckAges /\ StallTold /\ LagForgotten
  BY DEF LiveInd
<1>1. ASSUME ~blocked, calm > ProbePeriod, ~WatchdogDue, ~ProbeDue
      PROVE  LivenessFailures \subseteq {"planner_stalled"}
  <2>1. ~(watchdogAge > WatchdogMaxAge)
    BY <1>0, <1>1, AgeCapBounds DEF LiveTyped, WatchdogDue
  <2>2. ~(loopLag > LagMax)
    BY <1>0, <1>1, AgeCapBounds DEF LiveTyped, LagForgotten, ProbeDue
  <2> QED BY <2>1, <2>2 DEF LivenessFailures
<1>2. ASSUME ~blocked, calm = 0, stall > ProbePeriod + LagMax, ~ProbeDue
      PROVE  "loop_lag_high" \in LivenessFailures
  <2>1. loopLag > LagMax
    BY <1>0, <1>2, AgeCapBounds DEF LiveTyped, StallTold, ProbeDue
  <2> QED BY <2>1 DEF LivenessFailures
<1>3. ASSUME blocked, stall > WatchdogMaxAge
      PROVE  "watchdog_stale" \in ReadinessFailures
  <2>1. watchdogAge > WatchdogMaxAge
    BY <1>0, <1>3, AgeCapBounds DEF LiveTyped, StuckAges
  <2> QED BY <2>1 DEF LivenessFailures, ReadinessFailures
<1> QED BY <1>1, <1>2, <1>3 DEF HealthzTruthful

\* For any interval, period and threshold with the watchdog's age limit at least its
\* interval: /healthz forgets a stall after one probe period and no sooner, and a
\* loop that is still stuck turns stale.
THEOREM HealthzAlwaysTruthful == LiveSpec => []HealthzTruthful
BY LiveIndInit, LiveIndStep, LiveIndTruth, PTL DEF LiveSpec

-----------------------------------------------------------------------------
(* The closed-loop state machine.                                          *)

Frames == [edge : AllowedEdges, told : BOOLEAN]

LoopTyped ==
  /\ loopState \in LoopStates
  /\ loopPast \in Seq(AllowedEdges) /\ sunk \in Seq(AllowedEdges)
  /\ frames \in Seq(Frames)
  /\ owner \in LoopThreads \cup {NoThread}
  /\ calls \in 0..MaxTransitions
  /\ reentered \in BOOLEAN

\* What is in the history, or about to be, was given to the sink.
SinkKnows ==
  /\ \A i \in 1..Len(loopPast) : \E j \in 1..Len(sunk) : sunk[j] = loopPast[i]
  /\ \A i \in 1..Len(frames) :
       frames[i].told => \E j \in 1..Len(sunk) : sunk[j] = frames[i].edge

\* Without a re-entrant sink at most one call is under way, from the current
\* state, and the history is a walk.
OneCall ==
  ~reentered =>
    /\ Len(frames) <= 1
    /\ frames # <<>> => frames[1].edge[1] = loopState
    /\ \A i \in 1..Len(loopPast) : <<Reached(i - 1), Reached(i)>> \in AllowedEdges

LoopInd == LoopTyped /\ loopState = Reached(Len(loopPast)) /\ SinkKnows /\ OneCall

\* An edge is a pair of states.
LEMMA EdgeEnds ==
  ASSUME NEW e \in AllowedEdges
  PROVE  e[1] \in LoopStates /\ e[2] \in LoopStates /\ e = <<e[1], e[2]>>
BY DEF AllowedEdges, LoopStates

\* The facts hold at the start.
LEMMA LoopIndInit == LoopInit => LoopInd
<1> SUFFICES ASSUME LoopInit PROVE LoopInd
  OBVIOUS
<1>1. LoopTyped
  <2>1. reentered \in BOOLEAN
    BY DEF LoopInit
  <2> QED BY <2>1, LoopAssumption DEF LoopInit, LoopTyped, LoopStates
<1>2. loopState = Reached(Len(loopPast)) /\ SinkKnows /\ OneCall
  BY DEF LoopInit, Reached, SinkKnows, OneCall
<1> QED BY <1>1, <1>2 DEF LoopInd

\* The innermost call, and what is left when it ends.
LEMMA InnermostCall ==
  ASSUME LoopTyped, frames # <<>>
  PROVE  /\ Len(frames) \in Nat \ {0} /\ Last(frames) = frames[Len(frames)]
         /\ Last(frames) \in Frames
         /\ Front(frames) \in Seq(Frames) /\ Len(Front(frames)) = Len(frames) - 1
         /\ \A i \in 1..Len(Front(frames)) : Front(frames)[i] = frames[i]
<1>1. Len(frames) \in Nat \ {0} /\ frames \in Seq(Frames)
  BY DEF LoopTyped
<1>2. Last(frames) = frames[Len(frames)]
  BY DEF Last
<1>3. Front(frames) = SubSeq(frames, 1, Len(frames) - 1)
  BY DEF Front
<1>4. /\ Front(frames) \in Seq(Frames) /\ Len(Front(frames)) = Len(frames) - 1
      /\ \A i \in 1..Len(Front(frames)) : Front(frames)[i] = frames[i]
  <2> DEFINE m == Len(frames) - 1
  <2> DEFINE rest == SubSeq(frames, 1, m)
  <2>1. \A i \in 1..m : i \in 1..Len(frames)
    BY <1>1
  <2>2. /\ rest \in Seq(Frames) /\ Len(rest) = IF 1 <= m THEN m - 1 + 1 ELSE 0
        /\ \A i \in 1..(m - 1 + 1) : rest[i] = frames[1 + i - 1]
    BY <1>1, <2>1, SubSeqProperties
  <2>3. Front(frames) = rest
    BY <1>3
  <2>4. m \in Nat
    BY <1>1
  <2> HIDE DEF rest, m
  <2>5. Len(rest) = m
    BY <2>2, <2>4
  <2>6. \A i \in 1..m : rest[i] = frames[i]
    BY <2>2, <2>4
  <2> QED BY <2>2, <2>3, <2>5, <2>6 DEF m
<1> QED BY <1>1, <1>2, <1>4

\* When the innermost call ends without a word the facts about the rest stay.
LEMMA LeaveKeeps ==
  ASSUME LoopTyped, SinkKnows, frames # <<>>, Leave
  PROVE  /\ frames' \in Seq(Frames) /\ Len(frames') = Len(frames) - 1
         /\ owner' \in LoopThreads \cup {NoThread}
         /\ UNCHANGED <<calls, reentered, sunk>>
         /\ \A i \in 1..Len(frames') : frames'[i] = frames[i] /\ i \in 1..Len(frames)
         /\ \A i \in 1..Len(frames') :
              frames'[i].told => \E j \in 1..Len(sunk') : sunk'[j] = frames'[i].edge
<1>1. /\ frames' = Front(frames) /\ UNCHANGED <<calls, reentered, sunk>>
      /\ owner' = owner \/ owner' = NoThread
  BY DEF Leave
<1>2. \A i \in 1..Len(frames') : frames'[i] = frames[i] /\ i \in 1..Len(frames)
  BY <1>1, InnermostCall
<1> QED BY <1>1, <1>2, InnermostCall DEF LoopTyped, SinkKnows

\* Calls, nested ones too, and sinks that record, raise or return keep the facts.
LEMMA LoopIndStep == LoopInd /\ [LoopNext]_loopVars => LoopInd'
<1> SUFFICES ASSUME LoopInd, [LoopNext]_loopVars PROVE LoopInd'
  OBVIOUS
<1>0. LoopTyped /\ loopState = Reached(Len(loopPast)) /\ SinkKnows /\ OneCall
  BY DEF LoopInd
<1>1. CASE UNCHANGED loopVars
  BY <1>0, <1>1 DEF loopVars, LoopInd, LoopTyped, SinkKnows, OneCall, Reached
<1>2. ASSUME NEW th \in LoopThreads, NEW to \in LoopStates, Transition(th, to)
      PROVE  LoopInd'
  <2> DEFINE e == <<loopState, to>>
  <2> DEFINE f == [edge |-> e, told |-> FALSE]
  <2>1. f \in Frames /\ f.edge = e /\ ~f.told
    BY <1>2 DEF Transition, Frames
  <2>2. frames' = Append(frames, f)
    BY <1>2 DEF Transition
  <2>3. e[1] = loopState
    OBVIOUS
  <2> HIDE DEF f, e
  <2>4. /\ frames' \in Seq(Frames) /\ Len(frames') = Len(frames) + 1
        /\ frames'[Len(frames')] = f
        /\ \A i \in 1..Len(frames) : frames'[i] = frames[i]
    BY <1>0, <2>1, <2>2 DEF LoopTyped
  <2>5. /\ owner' = th /\ calls' = calls + 1 /\ calls < MaxTransitions
        /\ UNCHANGED <<loopState, loopPast, sunk>>
    BY <1>2 DEF Transition
  <2>6. reentered' \in BOOLEAN /\ (~reentered' => ~reentered /\ frames = <<>>)
    BY <1>2 DEF Transition
  <2>7. LoopTyped'
    BY <1>0, <2>4, <2>5, <2>6, LoopAssumption DEF LoopTyped
  <2>8. SinkKnows'
    <3>1. ASSUME NEW i \in 1..Len(frames'), frames'[i].told
          PROVE  i \in 1..Len(frames) /\ frames'[i] = frames[i]
      <4>1. Len(frames) \in Nat
        BY <1>0 DEF LoopTyped
      <4>2. i # Len(frames')
        BY <2>1, <2>4, <3>1
      <4> QED BY <2>4, <4>1, <4>2
    <3> QED BY <1>0, <2>5, <3>1 DEF SinkKnows
  <2>9. OneCall'
    BY <1>0, <2>1, <2>3, <2>4, <2>5, <2>6 DEF OneCall, Reached
  <2> QED BY <1>0, <2>5, <2>7, <2>8, <2>9 DEF LoopInd, Reached
<1>3. CASE SinkRecords
  <2> DEFINE n == Len(frames)
  <2>1. /\ frames # <<>>
        /\ sunk' = Append(sunk, frames[n].edge)
        /\ frames' = [frames EXCEPT ![n].told = TRUE]
        /\ UNCHANGED <<loopState, loopPast, owner, calls, reentered>>
    BY <1>0, <1>3, InnermostCall DEF SinkRecords
  <2>2. n \in Nat \ {0} /\ frames[n] \in Frames /\ frames[n].edge \in AllowedEdges
    BY <1>0, <2>1, InnermostCall DEF Frames
  <2> DEFINE g == [frames[n] EXCEPT !.told = TRUE]
  <2>3. g \in Frames /\ g.edge = frames[n].edge
    BY <2>2 DEF Frames
  <2>4. frames' = [frames EXCEPT ![n] = g]
    BY <2>1
  <2> HIDE DEF g
  <2>5. /\ frames' \in Seq(Frames) /\ Len(frames') = n /\ frames'[n] = g
        /\ \A i \in 1..n : i # n => frames'[i] = frames[i]
    BY <1>0, <2>2, <2>3, <2>4 DEF LoopTyped
  <2>6. /\ sunk' \in Seq(AllowedEdges) /\ Len(sunk') = Len(sunk) + 1
        /\ sunk'[Len(sunk')] = frames[n].edge
        /\ \A j \in 1..Len(sunk) : sunk'[j] = sunk[j] /\ j \in 1..Len(sunk')
        /\ Len(sunk') \in 1..Len(sunk')
    BY <1>0, <2>1, <2>2 DEF LoopTyped
  <2>7. LoopTyped'
    BY <1>0, <2>1, <2>5, <2>6 DEF LoopTyped
  <2>8. SinkKnows'
    <3>1. \A i \in 1..Len(loopPast') : \E j \in 1..Len(sunk') : sunk'[j] = loopPast'[i]
      BY <1>0, <2>1, <2>6 DEF SinkKnows
    <3>2. ASSUME NEW i \in 1..Len(frames'), frames'[i].told
          PROVE  \E j \in 1..Len(sunk') : sunk'[j] = frames'[i].edge
      <4>1. CASE i = n
        BY <2>3, <2>5, <2>6, <4>1
      <4>2. CASE i # n
        BY <1>0, <2>5, <2>6, <3>2, <4>2 DEF SinkKnows
      <4> QED BY <4>1, <4>2
    <3> QED BY <3>1, <3>2 DEF SinkKnows
  <2>9. OneCall'
    BY <1>0, <2>1, <2>2, <2>3, <2>5 DEF OneCall, Reached
  <2> QED BY <1>0, <2>1, <2>7, <2>8, <2>9 DEF LoopInd, Reached
<1>4. CASE SinkRaises
  <2>1. frames # <<>> /\ Leave /\ UNCHANGED <<loopState, loopPast>>
    BY <1>4 DEF SinkRaises
  <2>2. LoopTyped' /\ SinkKnows'
    BY <1>0, <2>1, LeaveKeeps DEF LoopTyped, SinkKnows
  <2>3. OneCall'
    <3>1. Len(frames) \in Nat
      BY <1>0 DEF LoopTyped
    <3>2. ASSUME ~reentered' PROVE frames' = <<>>
      BY <1>0, <2>1, <3>1, <3>2, LeaveKeeps DEF OneCall
    <3> QED BY <1>0, <2>1, <3>2, LeaveKeeps DEF OneCall, Reached
  <2> QED BY <1>0, <2>1, <2>2, <2>3 DEF LoopInd, Reached
<1>5. CASE SinkReturns
  <2> DEFINE n == Len(frames)
  <2> DEFINE e == frames[n].edge
  <2>1. /\ frames # <<>> /\ Leave /\ frames[n].told
        /\ loopPast' = Append(loopPast, e) /\ loopState' = e[2]
    BY <1>0, <1>5, InnermostCall DEF SinkReturns
  <2>2. n \in Nat \ {0} /\ e \in AllowedEdges
    BY <1>0, <2>1, InnermostCall DEF Frames
  <2>3. \E j \in 1..Len(sunk) : sunk[j] = e
    BY <1>0, <2>1, <2>2 DEF SinkKnows
  <2> HIDE DEF e
  <2>4. /\ loopPast' \in Seq(AllowedEdges) /\ Len(loopPast') = Len(loopPast) + 1
        /\ loopPast'[Len(loopPast')] = e
        /\ \A i \in 1..Len(loopPast) : loopPast'[i] = loopPast[i]
        /\ Len(loopPast) \in Nat
    BY <1>0, <2>1, <2>2 DEF LoopTyped
  <2>5. LoopTyped'
    BY <1>0, <2>1, <2>2, <2>4, LeaveKeeps, EdgeEnds DEF LoopTyped
  <2>6. SinkKnows'
    <3>1. ASSUME NEW i \in 1..Len(loopPast')
          PROVE  \E j \in 1..Len(sunk') : sunk'[j] = loopPast'[i]
      <4>1. sunk' = sunk
        BY <1>0, <2>1, LeaveKeeps
      <4>2. CASE i = Len(loopPast')
        BY <2>3, <2>4, <4>1, <4>2
      <4>3. CASE i # Len(loopPast')
        <5>1. i \in 1..Len(loopPast)
          BY <2>4, <4>3
        <5> QED BY <1>0, <2>4, <4>1, <5>1 DEF SinkKnows
      <4> QED BY <4>2, <4>3
    <3> QED BY <1>0, <2>1, <3>1, LeaveKeeps DEF SinkKnows
  <2>7. loopState' = Reached(Len(loopPast))'
    BY <2>1, <2>4 DEF Reached
  <2>8. OneCall'
    <3> SUFFICES ASSUME ~reentered' PROVE OneCall'
      BY DEF OneCall
    <3>1. ~reentered /\ n = 1 /\ e[1] = loopState /\ frames' \in Seq(Frames)
          /\ Len(frames') = 0
      BY <1>0, <2>1, <2>2, LeaveKeeps DEF OneCall, e
    <3>2. e = <<Reached(Len(loopPast)), e[2]>>
      BY <1>0, <2>2, <3>1, EdgeEnds
    <3>3. \A i \in 0..Len(loopPast) : Reached(i)' = Reached(i)
      BY <2>4 DEF Reached
    <3>4. ASSUME NEW i \in 1..Len(loopPast')
          PROVE  <<Reached(i - 1)', Reached(i)'>> \in AllowedEdges
      <4>1. CASE i = Len(loopPast')
        <5>1. Reached(i - 1)' = Reached(Len(loopPast))
          BY <2>4, <3>3, <4>1
        <5>2. Reached(i)' = e[2]
          BY <2>4, <4>1 DEF Reached
        <5> QED BY <2>2, <3>2, <5>1, <5>2
      <4>2. CASE i # Len(loopPast')
        <5>1. i \in 1..Len(loopPast) /\ i - 1 \in 0..Len(loopPast) /\ i \in 0..Len(loopPast)
          BY <2>4, <4>2
        <5>2. <<Reached(i - 1), Reached(i)>> \in AllowedEdges
          BY <1>0, <3>1, <5>1 DEF OneCall
        <5> QED BY <3>3, <5>1, <5>2
      <4> QED BY <4>1, <4>2
    <3> QED BY <3>1, <3>4 DEF OneCall
  <2> QED BY <2>5, <2>6, <2>7, <2>8 DEF LoopInd
<1> QED BY <1>1, <1>2, <1>3, <1>4, <1>5 DEF LoopNext

\* They give the types.
LEMMA LoopIndTypes == LoopInd => LoopTypeOK
BY DEF LoopInd, LoopTyped, LoopTypeOK

\* They give the property.
LEMMA LoopIndHistory == LoopInd => HistoryTellsState
<1> SUFFICES ASSUME LoopInd PROVE HistoryTellsState
  OBVIOUS
<1>1. loopPast \in Seq(AllowedEdges) /\ sunk \in Seq(AllowedEdges)
  BY DEF LoopInd, LoopTyped
<1>2. ToSet(loopPast) \subseteq ToSet(sunk)
  BY <1>1 DEF LoopInd, SinkKnows, ToSet
<1>3. ~reentered => Replay = loopState
  BY DEF LoopInd, OneCall, Replay
<1> QED BY <1>2, <1>3 DEF LoopInd, HistoryTellsState

\* For any threads and any number of calls, with sinks that raise and sinks that
\* call transition() themselves: the state is where the history leads, the sink
\* was given each edge of it first, and without a re-entrant sink it replays.
THEOREM HistoryAlwaysTellsState == LoopSpec => []HistoryTellsState
BY LoopIndInit, LoopIndStep, LoopIndHistory, PTL DEF LoopSpec

-----------------------------------------------------------------------------
(* The NIS2 reporter.                                                      *)

IncidentIds == [at : Nat, scope : {"chain", "sla", "auth"}]
AuthEvents == [at : Nat, ok : BOOLEAN]
Reporting ==
  [at : {"operator", "csirt", "persist"}, id : IncidentIds,
   due : [early : Nat, notification : Nat, final : Nat]]

NisTyped ==
  /\ nsNow \in Nat
  /\ nsBusy = NoTrigger \/ nsBusy \in Reporting
  /\ nsEvents \in Seq(AuthEvents) /\ nsEver \in Seq(AuthEvents)
  /\ \A e \in nsEvidence \cup nsLost : e.kind \in {"incident", "delivery_failure"}

\* The endpoint has the incident, or its failure was handed to the sink.
Told(to, id) ==
  \/ [to |-> to, id |-> id] \in nsPosted
  \/ [kind |-> "delivery_failure", to |-> to, id |-> id] \in nsEvidence \cup nsLost

HandedOver(id) == [kind |-> "incident", to |-> "chain", id |-> id] \in nsEvidence \cup nsLost

\* A trigger has told the endpoints before the one it is at.
ToldSoFar ==
  nsBusy \in Reporting =>
    /\ nsBusy.at \in {"csirt", "persist"} => Told("operator", nsBusy.id)
    /\ nsBusy.at = "persist" => Told("csirt", nsBusy.id)

\* A trigger that returned has told both and has handed over the incident.
DoneTold ==
  \A i \in nsDone : Told("operator", i.id) /\ Told("csirt", i.id) /\ HandedOver(i.id)

\* The deque holds all events as long as they fit.
DequeWhole ==
  /\ Len(nsEvents) <= MaxEvents
  /\ Len(nsEver) <= MaxEvents => nsEvents = nsEver

NisInd == NisTyped /\ ToldSoFar /\ DoneTold /\ DequeWhole /\ RateJudgedExactly

\* The facts hold at the start.
LEMMA NisIndInit == NisInit => NisInd
<1> SUFFICES ASSUME NisInit PROVE NisInd
  OBVIOUS
<1>1. NisTyped
  BY DEF NisInit, NisTyped
<1>2. ToldSoFar
  BY DEF NisInit, ToldSoFar, NoTrigger, Reporting
<1>3. DoneTold /\ DequeWhole
  BY Nis2Assumption DEF NisInit, DoneTold, DequeWhole
<1>4. RateJudgedExactly
  BY DEF NisInit, RateJudgedExactly
<1> QED BY <1>1, <1>2, <1>3, <1>4 DEF NisInd

\* A trigger starts at the operator, with nobody told.
LEMMA TriggerStarts ==
  ASSUME NEW scope \in {"chain", "sla", "auth"}, Trigger(scope), nsNow \in Nat
  PROVE  nsBusy' \in Reporting /\ nsBusy'.at = "operator"
<1>1. [at |-> nsNow, scope |-> scope] \in IncidentIds
  BY DEF IncidentIds
<1>2. Milestones(nsNow) \in [early : Nat, notification : Nat, final : Nat]
  BY DEF Milestones
<1> QED BY <1>1, <1>2 DEF Trigger, Reporting

\* What was told stays told.
LEMMA ToldStays ==
  ASSUME nsPosted \subseteq nsPosted', nsEvidence \cup nsLost \subseteq nsEvidence' \cup nsLost'
  PROVE  /\ \A to, id : Told(to, id) => Told(to, id)'
         /\ \A id : HandedOver(id) => HandedOver(id)'
BY DEF Told, HandedOver

\* A payload that is persisted is taken by the sink or lost by it.
LEMMA PersistHands ==
  ASSUME NEW payload, Persist(payload)
  PROVE  nsEvidence' \cup nsLost' = nsEvidence \cup nsLost \cup {payload}
BY DEF Persist

\* Checks, posts that arrive and posts that fail, the sink, the clock and crashes
\* keep the facts.
LEMMA NisIndStep == NisInd /\ [NisNext]_nsVars => NisInd'
<1> SUFFICES ASSUME NisInd, [NisNext]_nsVars PROVE NisInd'
  OBVIOUS
<1>0. NisTyped /\ ToldSoFar /\ DoneTold /\ DequeWhole /\ RateJudgedExactly
  BY DEF NisInd
\* The window is as it was.
<1>w. ASSUME UNCHANGED <<nsEvents, nsEver, nsJudged>> PROVE DequeWhole' /\ RateJudgedExactly'
  BY <1>0, <1>w DEF DequeWhole, RateJudgedExactly
\* A trigger starts, and nothing was told since.
<1>t. ASSUME NEW scope \in {"chain", "sla", "auth"}, Trigger(scope),
             UNCHANGED <<nsNow, nsEvents, nsEver, nsPosted, nsEvidence, nsLost, nsDone>>
      PROVE  NisTyped' /\ ToldSoFar' /\ DoneTold'
  <2>1. nsBusy' \in Reporting /\ nsBusy'.at = "operator"
    BY <1>0, <1>t, TriggerStarts DEF NisTyped
  <2> QED BY <1>0, <1>t, <2>1 DEF NisTyped, ToldSoFar, DoneTold, Told, HandedOver
\* Nothing was told since and no trigger moves.
<1>n. ASSUME nsBusy' \in {nsBusy, NoTrigger}, nsNow' \in Nat,
             nsEvents' \in Seq(AuthEvents), nsEver' \in Seq(AuthEvents),
             UNCHANGED <<nsPosted, nsEvidence, nsLost, nsDone>>
      PROVE  NisTyped' /\ ToldSoFar' /\ DoneTold'
  <2>1. NoTrigger \notin Reporting
    BY DEF NoTrigger, Reporting
  <2> QED BY <1>0, <1>n, <2>1 DEF NisTyped, ToldSoFar, DoneTold, Told, HandedOver
<1>1. CASE UNCHANGED nsVars
  BY <1>0, <1>1, <1>w, <1>n DEF nsVars, NisInd, NisTyped
<1>2. CASE AutoCheckChain(0)
  BY <1>2, <1>t, <1>w DEF AutoCheckChain, NisInd
<1>3. ASSUME NEW p \in SlaProbabilities, AutoCheckSla(p) PROVE NisInd'
  BY <1>3, <1>t, <1>w DEF AutoCheckSla, NisInd
<1>4. ASSUME NEW when \in 0..nsNow, NEW ok \in BOOLEAN, RecordAuth(when, ok) PROVE NisInd'
  <2> DEFINE e == [at |-> when, ok |-> ok]
  <2> DEFINE all == Append(nsEvents, e)
  <2>1. e \in AuthEvents
    BY <1>0 DEF NisTyped, AuthEvents
  <2>2. /\ nsEvents' = IF Len(all) > MaxEvents THEN Tail(all) ELSE all
        /\ nsEver' = Append(nsEver, e)
        /\ UNCHANGED <<nsNow, nsBusy, nsPosted, nsEvidence, nsLost, nsDone, nsJudged>>
    BY <1>4 DEF RecordAuth
  <2> HIDE DEF e
  <2>3. /\ all \in Seq(AuthEvents) /\ Len(all) = Len(nsEvents) + 1 /\ Len(nsEvents) \in Nat
        /\ nsEver' \in Seq(AuthEvents) /\ Len(nsEver') = Len(nsEver) + 1
        /\ Len(nsEver) \in Nat
    BY <1>0, <2>1, <2>2 DEF NisTyped
  <2>4. MaxEvents \in Nat
    BY Nis2Assumption
  <2>5. DequeWhole'
    <3>1. ASSUME Len(nsEver') <= MaxEvents PROVE nsEvents' = nsEver'
      <4>1. nsEvents = nsEver
        BY <1>0, <2>3, <2>4, <3>1 DEF DequeWhole
      <4> QED BY <2>2, <2>3, <2>4, <3>1, <4>1
    <3>2. Len(nsEvents') <= MaxEvents
      <4> HIDE DEF all
      <4>1. all # <<>> => Len(Tail(all)) = Len(all) - 1
        BY <2>3
      <4> QED BY <1>0, <2>2, <2>3, <2>4, <4>1 DEF DequeWhole
    <3> QED BY <3>1, <3>2 DEF DequeWhole
  <2>6. nsEvents' \in Seq(AuthEvents)
    <3> HIDE DEF all
    <3>1. all # <<>>
      BY <2>3
    <3> QED BY <2>2, <2>3, <3>1
  <2>7. RateJudgedExactly'
    BY <1>0, <2>2, <2>3, <2>4 DEF RateJudgedExactly
  <2> QED BY <1>0, <1>n, <2>2, <2>3, <2>5, <2>6, <2>7 DEF NisInd, NisTyped
<1>5. CASE AutoCheckRate
  <2>1. /\ nsJudged' = [fired |-> RateExceeded(nsEvents), due |-> RateExceeded(nsEver)]
        /\ UNCHANGED <<nsNow, nsEvents, nsEver, nsPosted, nsEvidence, nsLost, nsDone>>
        /\ Trigger("auth") \/ nsBusy' = nsBusy
    BY <1>5 DEF AutoCheckRate
  <2>2. DequeWhole'
    BY <1>0, <2>1 DEF DequeWhole
  <2>3. RateJudgedExactly'
    <3>1. ASSUME Len(nsEver) <= MaxEvents PROVE RateExceeded(nsEvents) = RateExceeded(nsEver)
      BY <1>0, <3>1 DEF DequeWhole
    <3>2. nsJudged'.fired = RateExceeded(nsEvents) /\ nsJudged'.due = RateExceeded(nsEver)
      BY <2>1
    <3> QED BY <2>1, <3>1, <3>2 DEF RateJudgedExactly
  <2>4. CASE Trigger("auth")
    BY <1>t, <2>1, <2>2, <2>3, <2>4 DEF NisInd
  <2>5. CASE nsBusy' = nsBusy
    BY <1>0, <1>n, <2>1, <2>2, <2>3, <2>5 DEF NisInd, NisTyped
  <2> QED BY <2>1, <2>4, <2>5
<1>6. ASSUME NEW to \in {"operator", "csirt"}, PostArrives(to) \/ PostFails(to) PROVE NisInd'
  <2>1. /\ nsBusy.at = to /\ nsBusy' = [nsBusy EXCEPT !.at = Following(to)]
        /\ UNCHANGED <<nsNow, nsEvents, nsEver, nsDone, nsJudged>>
    BY <1>6 DEF PostArrives, PostFails
  <2>2. nsBusy \in Reporting
    BY <1>0, <2>1 DEF NisTyped, NoTrigger
  <2>3. /\ nsBusy' \in Reporting /\ nsBusy'.id = nsBusy.id
        /\ nsBusy'.at = (IF to = "operator" THEN "csirt" ELSE "persist")
    BY <2>1, <2>2 DEF Reporting, Following
  <2>4. /\ nsPosted \subseteq nsPosted' /\ nsEvidence \cup nsLost \subseteq nsEvidence' \cup nsLost'
        /\ Told(to, nsBusy.id)'
        /\ \A e \in nsEvidence' \cup nsLost' : e.kind \in {"incident", "delivery_failure"}
    <3>1. CASE PostArrives(to)
      <4>1. /\ nsPosted' = nsPosted \cup {[to |-> to, id |-> nsBusy.id]}
            /\ UNCHANGED <<nsEvidence, nsLost>>
        BY <3>1 DEF PostArrives
      <4> QED BY <1>0, <2>3, <4>1 DEF Told, NisTyped
    <3>2. CASE PostFails(to)
      <4> DEFINE fail == [kind |-> "delivery_failure", to |-> to, id |-> nsBusy.id]
      <4>1. nsPosted' = nsPosted /\ Persist(fail)
        BY <3>2 DEF PostFails, DeliveryFailure
      <4>2. nsEvidence' \cup nsLost' = nsEvidence \cup nsLost \cup {fail}
        BY <4>1, PersistHands
      <4>3. fail.kind = "delivery_failure"
        OBVIOUS
      <4>4. Told(to, nsBusy.id)'
        BY <2>3, <4>2 DEF Told
      <4> HIDE DEF fail
      <4> QED BY <1>0, <4>1, <4>2, <4>3, <4>4 DEF NisTyped
    <3> QED BY <1>6, <3>1, <3>2
  <2>5. NisTyped'
    BY <1>0, <2>1, <2>3, <2>4 DEF NisTyped
  <2>6. ToldSoFar'
    BY <1>0, <2>1, <2>2, <2>3, <2>4, ToldStays DEF ToldSoFar
  <2>7. DoneTold'
    BY <1>0, <2>1, <2>4, ToldStays DEF DoneTold
  <2> QED BY <1>w, <2>1, <2>5, <2>6, <2>7 DEF NisInd
<1>7. CASE PersistIncident
  <2> DEFINE done == [id |-> nsBusy.id, due |-> nsBusy.due]
  <2> DEFINE payload == [kind |-> "incident", to |-> "chain", id |-> nsBusy.id]
  <2>1. /\ nsBusy.at = "persist" /\ Persist(payload) /\ nsBusy' = NoTrigger
        /\ nsDone' = nsDone \cup {done}
        /\ UNCHANGED <<nsNow, nsEvents, nsEver, nsPosted, nsJudged>>
    BY <1>7 DEF PersistIncident
  <2>2. nsBusy \in Reporting
    BY <1>0, <2>1 DEF NisTyped, NoTrigger
  <2>3. nsEvidence' \cup nsLost' = nsEvidence \cup nsLost \cup {payload}
    BY <2>1, PersistHands
  <2>4. /\ \A to, id : Told(to, id) => Told(to, id)'
        /\ \A id : HandedOver(id) => HandedOver(id)'
    BY <2>1, <2>3, ToldStays
  <2>5. payload.kind = "incident" /\ done.id = nsBusy.id
    OBVIOUS
  <2>6. DoneTold'
    <3>1. ASSUME NEW i \in nsDone'
          PROVE  Told("operator", i.id)' /\ Told("csirt", i.id)' /\ HandedOver(i.id)'
      <4>1. CASE i \in nsDone
        BY <1>0, <2>4, <4>1 DEF DoneTold
      <4>2. CASE i = done
        <5>1. i.id = nsBusy.id
          BY <2>5, <4>2
        <5>2. Told("operator", i.id) /\ Told("csirt", i.id)
          BY <1>0, <2>1, <2>2, <5>1 DEF ToldSoFar
        <5>3. HandedOver(i.id)'
          BY <2>3, <5>1 DEF HandedOver
        <5> QED BY <2>4, <5>2, <5>3
      <4> QED BY <2>1, <4>1, <4>2
    <3> QED BY <3>1 DEF DoneTold
  <2>7. NisTyped'
    <3> HIDE DEF payload
    <3> QED BY <1>0, <2>1, <2>3, <2>5 DEF NisTyped
  <2>8. ToldSoFar'
    BY <2>1 DEF ToldSoFar, NoTrigger, Reporting
  <2> QED BY <1>w, <2>1, <2>6, <2>7, <2>8 DEF NisInd
<1>8. CASE NisCrash
  <2>1. /\ nsBusy' = NoTrigger /\ nsEvents' = <<>> /\ nsEver' = <<>>
        /\ nsJudged' = [fired |-> FALSE, due |-> FALSE]
        /\ UNCHANGED <<nsNow, nsPosted, nsEvidence, nsLost, nsDone>>
    BY <1>8 DEF NisCrash
  <2>2. NisTyped' /\ ToldSoFar' /\ DoneTold'
    BY <1>0, <1>n, <2>1 DEF NisTyped
  <2>3. DequeWhole'
    BY <2>1, Nis2Assumption DEF DequeWhole
  <2>4. RateJudgedExactly'
    BY <2>1 DEF RateJudgedExactly
  <2> QED BY <2>2, <2>3, <2>4 DEF NisInd
<1>9. CASE NisTick
  <2>1. /\ nsNow' = nsNow + 1 /\ nsJudged' = [fired |-> FALSE, due |-> FALSE]
        /\ UNCHANGED <<nsEvents, nsEver, nsBusy, nsPosted, nsEvidence, nsLost, nsDone>>
    BY <1>9 DEF NisTick
  <2>2. NisTyped' /\ ToldSoFar' /\ DoneTold'
    BY <1>0, <1>n, <2>1 DEF NisTyped
  <2>3. DequeWhole'
    BY <1>0, <2>1 DEF DequeWhole
  <2>4. RateJudgedExactly'
    BY <2>1 DEF RateJudgedExactly
  <2> QED BY <2>2, <2>3, <2>4 DEF NisInd
<1> QED BY <1>1, <1>2, <1>3, <1>4, <1>5, <1>6, <1>7, <1>8, <1>9 DEF NisNext

\* They give the types.
LEMMA NisIndTypes == NisInd => NisTypeOK
<1> SUFFICES ASSUME NisInd PROVE NisTypeOK
  OBVIOUS
<1>1. nsBusy.at \in {"none", "operator", "csirt", "persist"}
  BY DEF NisInd, NisTyped, NoTrigger, Reporting
<1> QED BY <1>1 DEF NisInd, NisTyped, DequeWhole, NisTypeOK

\* They give the property.
LEMMA NisIndReports == NisInd => ReportsComplete
<1> SUFFICES ASSUME NisInd PROVE ReportsComplete
  OBVIOUS
<1>1. IncidentsAccounted
  BY DEF NisInd, DoneTold, Told, HandedOver, IncidentsAccounted
<1> QED BY <1>1 DEF NisInd, ReportsComplete

\* For any window, threshold, deque and number of triggers: an incident whose trigger
\* returned is with both endpoints or its failed delivery is on record, and the rate
\* is judged over the whole window while the deque holds its events.
THEOREM ReportsAlwaysComplete == NisSpec => []ReportsComplete
BY NisIndInit, NisIndStep, NisIndReports, PTL DEF NisSpec

-----------------------------------------------------------------------------
(* The plug-in registries.                                                 *)

\* A finite set put in order is a sequence of its elements, all of them.
LEMMA SetInOrder ==
  ASSUME NEW S, IsFiniteSet(S)
  PROVE  SetToSeq(S) \in Seq(S) /\ ToSet(SetToSeq(S)) = S
<1> DEFINE n == Cardinality(S)
           f == SetToSeq(S)
<1>1. n \in Nat /\ ExistsBijection(1..n, S)
  BY FS_CardinalityType
<1>2. \E g \in [1..n -> S] : IsInjective(g)
  BY <1>1 DEF ExistsBijection, Bijection, Injection
<1>3. f \in [1..n -> S] /\ IsInjective(f)
  BY <1>2 DEF SetToSeq
<1> HIDE DEF f
<1>4. f \in Injection(1..n, S)
  BY <1>3 DEF Injection
<1>5. IsFiniteSet(1..n) /\ Cardinality(1..n) = n
  <2>1. Cardinality(1..n) = IF 1 > n THEN 0 ELSE n - 1 + 1
    BY <1>1, FS_Interval
  <2> HIDE DEF n
  <2> QED BY <1>1, <2>1, FS_Interval
<1>6. f \in Surjection(1..n, S)
  BY <1>4, <1>5, FS_Injection
<1>7. f \in Seq(S)
  BY <1>1, <1>3
<1>8. ToSet(f) = S
  BY <1>3, <1>6 DEF ToSet, Surjection
<1> QED BY <1>7, <1>8 DEF f

\* No two of these have kind and name in common.
OneEach(S) == \A x, y \in S : x.kind = y.kind /\ x.name = y.name => x = y

\* An entry point that was dealt with is bound, or its name was taken.
InstalledKept ==
  regLoaded /\ ~regCut =>
    \A i \in 1..Len(EntryPoints) : Taken(EntryPoints[i]) =>
      \/ <<EntryPoints[i].kind, EntryPoints[i].name>> \in Names(regEntries)
      \/ \E t \in RegThreads : regAt[t] < i

ConnectorKept ==
  regGot.outcome = "connector" =>
    [kind |-> regGot.kind, name |-> regGot.name, fn |-> regGot.fn] \in ToSet(regEntries)

ChainWhole ==
  regChain.alone =>
    /\ \A e \in BuiltIns \cup ToSet(EntryPoints) :
         e.kind = "guard" => <<"guard", e.name>> \in Names(regChain.ran)
    /\ \A e \in ToSet(regChain.ran) : e.fn # "passes" => e.name \in regChain.failures

RegInd ==
  /\ regOf \in {"guards", "connectors"}
  /\ regEntries \in Seq(Plugin)
  /\ regAt \in [RegThreads -> 0..NotLoading]
  /\ regEver = ToSet(regEntries) /\ OneEach(regEver)
  /\ \A e \in BuiltIns : Taken(e) => e \in ToSet(regEntries)
  /\ InstalledKept /\ ConnectorKept /\ ChainWhole

\* The installed plug-ins are countable, and each is a plug-in.
LEMMA EntryPointFacts ==
  /\ Len(EntryPoints) \in Nat /\ DOMAIN EntryPoints = 1..Len(EntryPoints)
  /\ \A i \in 1..Len(EntryPoints) : EntryPoints[i] \in Plugin
  /\ NotLoading \in Nat /\ Len(EntryPoints) < NotLoading
<1>1. EntryPoints \in Seq(Plugin)
  BY RegAssumption
<1>2. Len(EntryPoints) \in Nat /\ DOMAIN EntryPoints = 1..Len(EntryPoints)
  BY <1>1, LenProperties
<1>3. \A i \in 1..Len(EntryPoints) : EntryPoints[i] \in Plugin
  BY <1>1, ElementOfSeq
<1> QED BY <1>2, <1>3 DEF NotLoading

\* Binding an entry keeps every earlier one and makes no second one of its kind
\* and name; afterwards the name is bound unless the entry was not taken.
LEMMA BoundFacts ==
  ASSUME regEntries \in Seq(Plugin), OneEach(ToSet(regEntries)), NEW e \in Plugin
  PROVE  /\ Bound(e) \in Seq(Plugin)
         /\ ToSet(regEntries) \subseteq ToSet(Bound(e))
         /\ OneEach(ToSet(Bound(e)))
         /\ Names(regEntries) \subseteq Names(Bound(e))
         /\ Taken(e) /\ ~Refuses(e) => <<e.kind, e.name>> \in Names(Bound(e))
<1>1. CASE Refuses(e) \/ <<e.kind, e.name>> \in Names(regEntries)
  BY <1>1 DEF Bound
<1>2. CASE ~Refuses(e) /\ <<e.kind, e.name>> \notin Names(regEntries)
  <2> DEFINE b == Append(regEntries, e)
  <2>1. Bound(e) = b
    BY <1>2 DEF Bound
  <2>2. /\ b \in Seq(Plugin) /\ Len(b) = Len(regEntries) + 1 /\ Len(regEntries) \in Nat
        /\ \A i \in 1..Len(regEntries) : b[i] = regEntries[i]
        /\ b[Len(regEntries) + 1] = e
    BY AppendProperties, LenProperties
  <2> HIDE DEF b
  <2>3. /\ DOMAIN regEntries = 1..Len(regEntries)
        /\ DOMAIN b = DOMAIN regEntries \cup {Len(regEntries) + 1}
    BY <2>2, LenProperties
  <2>4. ToSet(b) = ToSet(regEntries) \cup {e}
    BY <2>2, <2>3 DEF ToSet
  <2>5. /\ Names(regEntries) \subseteq Names(b)
        /\ <<e.kind, e.name>> \in Names(b)
    BY <2>2, <2>3 DEF Names
  <2>6. \A x \in ToSet(regEntries) : ~(x.kind = e.kind /\ x.name = e.name)
    BY <1>2 DEF ToSet, Names
  <2>7. OneEach(ToSet(b))
    BY <2>4, <2>6 DEF OneEach
  <2> QED BY <2>1, <2>2, <2>4, <2>5, <2>7
<1> QED BY <1>1, <1>2

\* Import leaves the registry as the invariant has it.
LEMMA RegIndInit == RegInit => RegInd
<1> SUFFICES ASSUME RegInit PROVE RegInd
  OBVIOUS
<1> DEFINE S == {e \in BuiltIns : Taken(e)}
<1>1. IsFiniteSet(S) /\ S \subseteq Plugin
  BY RegAssumption, FS_Subset
<1>2. regEntries \in Seq(S) /\ ToSet(regEntries) = S
  BY <1>1, SetInOrder DEF RegInit
<1>3. regEntries \in Seq(Plugin)
  BY <1>1, <1>2
<1>4. OneEach(S)
  BY RegAssumption DEF OneEach
<1>5. regAt \in [RegThreads -> 0..NotLoading]
  BY EntryPointFacts DEF RegInit
<1>6. regOf \in {"guards", "connectors"}
  BY DEF RegInit, KindsOf
<1> QED BY <1>2, <1>3, <1>4, <1>5, <1>6
        DEF RegInd, RegInit, InstalledKept, ConnectorKept, ChainWhole, NoChain, NothingGot

\* Every step keeps the invariant.
LEMMA RegIndStep == RegInd /\ [RegNext]_regVars => RegInd'
<1> SUFFICES ASSUME RegInd, [RegNext]_regVars PROVE RegInd'
  OBVIOUS
<1>0. regOf' = regOf /\ \A e : Taken(e)' <=> Taken(e)
  BY DEF RegNext, regVars, Register, Lookup, LoadNext, LookupDone, RunGuardChain,
         GetConnector, Taken
<1> DEFINE Installed(i, entries) ==
             <<EntryPoints[i].kind, EntryPoints[i].name>> \in Names(entries)
\* An entry is bound: everything said of the earlier ones still holds.
<1>1. ASSUME NEW e \in Plugin, regEntries' = Bound(e),
             regEver' = regEver \cup ToSet(regEntries'),
             UNCHANGED <<regChain, regGot>>,
             regAt' \in [RegThreads -> 0..NotLoading], InstalledKept'
      PROVE  RegInd'
  <2>1. /\ regEntries' \in Seq(Plugin) /\ ToSet(regEntries) \subseteq ToSet(regEntries')
        /\ OneEach(ToSet(regEntries'))
    BY <1>1, BoundFacts DEF RegInd
  <2>2. regEver' = ToSet(regEntries')
    BY <1>1, <2>1 DEF RegInd
  <2>3. ConnectorKept' /\ ChainWhole'
    BY <1>1, <2>1 DEF RegInd, ConnectorKept, ChainWhole
  <2> QED BY <1>0, <1>1, <2>1, <2>2, <2>3 DEF RegInd
<1>2. ASSUME NEW e \in Registered, Register(e) PROVE RegInd'
  <2>1. e \in Plugin /\ regEntries' = Bound(e)
        /\ UNCHANGED <<regChain, regGot, regAt, regLoaded, regCut>>
        /\ regEver' = regEver \cup ToSet(regEntries')
    BY <1>2, RegAssumption DEF Register
  <2>2. Names(regEntries) \subseteq Names(regEntries')
    BY <2>1, BoundFacts DEF RegInd
  <2>3. InstalledKept'
    BY <1>0, <2>1, <2>2 DEF RegInd, InstalledKept
  <2> QED BY <1>1, <2>1, <2>3 DEF RegInd
<1>3. ASSUME NEW t \in RegThreads, Lookup(t) PROVE RegInd'
  <2>1. /\ UNCHANGED <<regOf, regEntries, regChain, regGot, regEver>>
        /\ regAt' = [regAt EXCEPT ![t] = 0]
    BY <1>3 DEF Lookup
  <2>2. regAt' \in [RegThreads -> 0..NotLoading] /\ regAt'[t] = 0
    BY <2>1, EntryPointFacts DEF RegInd
  <2>3. InstalledKept'
    <3>1. \A i \in 1..Len(EntryPoints) : regAt'[t] < i
      BY <2>2, EntryPointFacts
    <3> QED BY <3>1 DEF InstalledKept
  <2>4. ConnectorKept' /\ ChainWhole'
    BY <2>1 DEF RegInd, ConnectorKept, ChainWhole
  <2> QED BY <1>0, <2>1, <2>2, <2>3, <2>4 DEF RegInd
<1>4. ASSUME NEW t \in RegThreads, LoadNext(t) PROVE RegInd'
  <2> DEFINE k == regAt[t] + 1
             ep == EntryPoints[k]
             raises == Taken(ep) /\ Refuses(ep)
             next == IF raises THEN NotLoading ELSE k
  <2>1. /\ regAt[t] < Len(EntryPoints) /\ regEntries' = Bound(ep)
        /\ regAt' = [regAt EXCEPT ![t] = next]
        /\ regCut' = (regCut \/ raises) /\ regLoaded' = regLoaded
        /\ regEver' = regEver \cup ToSet(regEntries')
        /\ UNCHANGED <<regChain, regGot>>
    BY <1>4 DEF LoadNext
  <2>2. regAt[t] \in Nat /\ k \in 1..Len(EntryPoints) /\ ep \in Plugin
    BY <2>1, EntryPointFacts DEF RegInd
  <2>3. next \in 0..NotLoading
    BY <2>2, EntryPointFacts
  <2>4. regAt' \in [RegThreads -> 0..NotLoading]
    BY <2>1, <2>3 DEF RegInd
  <2>5. InstalledKept'
    <3> SUFFICES ASSUME regLoaded', ~regCut', NEW i \in 1..Len(EntryPoints),
                        Taken(EntryPoints[i])
                 PROVE  \/ Installed(i, regEntries')
                        \/ \E u \in RegThreads : regAt'[u] < i
      BY <1>0 DEF InstalledKept
    <3>1. ~regCut /\ ~raises /\ regLoaded /\ regAt' = [regAt EXCEPT ![t] = k]
      BY <2>1
    <3>2. Names(regEntries) \subseteq Names(regEntries')
      BY <2>1, <2>2, BoundFacts DEF RegInd
    <3>3. Installed(i, regEntries) \/ \E u \in RegThreads : regAt[u] < i
      BY <3>1 DEF RegInd, InstalledKept
    <3>4. CASE Installed(i, regEntries)
      BY <3>2, <3>4
    <3>5. ASSUME NEW u \in RegThreads, regAt[u] < i, u # t
          PROVE  regAt'[u] < i
      BY <3>1, <3>5 DEF RegInd
    <3>6. CASE regAt[t] < i
      <4>1. CASE i = k
        <5>1. Taken(ep) /\ ~Refuses(ep)
          BY <3>1, <4>1
        <5>2. Installed(i, regEntries')
          BY <2>1, <2>2, <4>1, <5>1, BoundFacts DEF RegInd
        <5> QED BY <5>2
      <4>2. CASE i # k
        <5>1. k < i
          BY <2>2, <3>6, <4>2, EntryPointFacts
        <5>2. regAt'[t] = k
          BY <3>1 DEF RegInd
        <5> QED BY <5>1, <5>2
      <4> QED BY <4>1, <4>2
    <3> QED BY <3>3, <3>4, <3>5, <3>6
  <2> QED BY <1>1, <2>1, <2>2, <2>4, <2>5
<1>5. ASSUME NEW t \in RegThreads, LookupDone(t) PROVE RegInd'
  <2>1. /\ UNCHANGED <<regOf, regEntries, regChain, regGot, regEver, regLoaded, regCut>>
        /\ regAt' = [regAt EXCEPT ![t] = NotLoading] /\ regAt[t] = Len(EntryPoints)
    BY <1>5 DEF LookupDone
  <2>2. regAt' \in [RegThreads -> 0..NotLoading]
    BY <2>1, EntryPointFacts DEF RegInd
  <2>3. \A i \in 1..Len(EntryPoints), u \in RegThreads : regAt[u] < i => regAt'[u] < i
    BY <2>1, EntryPointFacts DEF RegInd
  <2>4. InstalledKept'
    BY <1>0, <2>1, <2>3 DEF RegInd, InstalledKept
  <2>5. ConnectorKept' /\ ChainWhole'
    BY <2>1 DEF RegInd, ConnectorKept, ChainWhole
  <2> QED BY <1>0, <2>1, <2>2, <2>4, <2>5 DEF RegInd
\* The other steps change neither the entries nor what is loaded.
<1>6. ASSUME UNCHANGED <<regOf, regEntries, regEver, regAt, regLoaded, regCut>>,
             ConnectorKept', ChainWhole'
      PROVE  RegInd'
  <2>1. InstalledKept'
    BY <1>0, <1>6 DEF RegInd, InstalledKept
  <2> QED BY <1>0, <1>6, <2>1 DEF RegInd
<1>7. ASSUME NEW only, RunGuardChain(only) PROVE RegInd'
  <2> DEFINE ran == IF only = {} THEN regEntries
                    ELSE SelectSeq(regEntries, LAMBDA e : e.name \in only)
             failed == {e.name : e \in {e \in ToSet(ran) : e.fn # "passes"}}
  <2>1. /\ UNCHANGED <<regOf, regEntries, regEver, regAt, regLoaded, regCut, regGot>>
        /\ regOf = "guards" /\ regLoaded
        /\ regChain' = [ran |-> ran, failures |-> failed, alone |-> only = {} /\ Settled]
    BY <1>7 DEF RunGuardChain
  <2>2. \A e \in ToSet(ran) : e.fn # "passes" => e.name \in failed
    OBVIOUS
  <2> HIDE DEF failed
  <2>3. regChain'.ran = ran /\ regChain'.failures = failed
        /\ (regChain'.alone <=> (only = {} /\ Settled))
    BY <2>1
  <2>4. ASSUME only = {}, Settled, NEW e \in BuiltIns \cup ToSet(EntryPoints), e.kind = "guard"
        PROVE  <<"guard", e.name>> \in Names(ran)
    <3>1. ran = regEntries /\ Taken(e)
      BY <2>1, <2>4 DEF Taken, KindsOf
    <3>2. CASE e \in BuiltIns
      <4>1. e \in ToSet(regEntries)
        BY <3>1, <3>2 DEF RegInd
      <4> QED BY <2>4, <3>1, <4>1 DEF ToSet, Names
    <3>3. CASE e \in ToSet(EntryPoints)
      <4>1. PICK i \in 1..Len(EntryPoints) : e = EntryPoints[i]
        BY <3>3, EntryPointFacts DEF ToSet
      <4>2. \A t \in RegThreads : ~(regAt[t] < i)
        BY <2>4, EntryPointFacts DEF Settled
      <4> QED BY <2>1, <2>4, <3>1, <4>1, <4>2 DEF RegInd, InstalledKept, Settled
    <3> QED BY <2>4, <3>2, <3>3
  <2> HIDE DEF ran
  <2>5. ChainWhole'
    BY <2>2, <2>3, <2>4 DEF ChainWhole
  <2>6. ConnectorKept'
    BY <2>1 DEF RegInd, ConnectorKept
  <2> QED BY <1>6, <2>1, <2>5, <2>6
<1>8. ASSUME NEW kind, NEW name, NEW config, GetConnector(kind, name, config)
      PROVE  RegInd'
  <2> DEFINE found == {e \in ToSet(regEntries) : e.kind = kind /\ e.name = name}
             e == CHOOSE x \in found : TRUE
  <2>1. /\ UNCHANGED <<regOf, regEntries, regEver, regAt, regLoaded, regCut, regChain>>
        /\ regGot' = IF found = {} \/ ~CoerceConfig(config)
                     THEN [name |-> name, outcome |-> "ConnectorConfigError"]
                     ELSE [name |-> name, kind |-> kind, outcome |-> "connector",
                           fn |-> e.fn]
    BY <1>8 DEF GetConnector
  <2>2. ASSUME regGot'.outcome = "connector"
        PROVE  [kind |-> regGot'.kind, name |-> regGot'.name, fn |-> regGot'.fn]
                 \in ToSet(regEntries)
    <3>1. /\ found # {} /\ regGot'.kind = kind /\ regGot'.name = name
          /\ regGot'.fn = e.fn
      BY <2>1, <2>2
    <3>2. e \in found
      BY <3>1
    <3>3. e \in ToSet(regEntries) /\ e.kind = kind /\ e.name = name
      BY <3>2
    <3> HIDE DEF e, found
    <3>4. e \in Plugin
      BY <3>3, ElementOfSeq, LenProperties DEF ToSet, RegInd
    <3>5. [kind |-> e.kind, name |-> e.name, fn |-> e.fn] = e
      BY <3>4 DEF Plugin
    <3> QED BY <3>1, <3>3, <3>5
  <2>3. ConnectorKept'
    BY <2>1, <2>2 DEF ConnectorKept
  <2>4. ChainWhole'
    BY <2>1 DEF RegInd, ChainWhole
  <2> QED BY <1>6, <2>1, <2>3, <2>4
<1>9. CASE UNCHANGED regVars
  <2>1. ConnectorKept' /\ ChainWhole'
    BY <1>9 DEF RegInd, regVars, ConnectorKept, ChainWhole
  <2> QED BY <1>6, <1>9, <2>1 DEF regVars
<1> QED BY <1>2, <1>3, <1>4, <1>5, <1>7, <1>8, <1>9 DEF RegNext

\* No built-in guard or connector is ever displaced, a connector handed out is
\* the one bound to its name, and a chain run when loading is over has every
\* installed guard in it and reports each failure, whatever the program and the
\* plug-ins register and whichever threads look up (GuardRegistry and
\* run_guard_chain, policy/guard_registry.py:86-191; io/registry.py).
THEOREM GuardsAlwaysKept == RegSpec => []GuardsKept
<1>1. RegInd => GuardsKept
  BY DEF RegInd, GuardsKept, OneEach, ConnectorKept, ChainWhole
<1> QED BY RegIndInit, RegIndStep, <1>1, PTL DEF RegSpec

\* A registry holds what it takes.
RegTakes == \A i \in DOMAIN regEntries : Taken(regEntries[i])

\* So does a registry of built-ins.
LEMMA RegTakesInit == RegInit => RegTakes
<1> SUFFICES ASSUME RegInit PROVE RegTakes
  OBVIOUS
<1> DEFINE S == {e \in BuiltIns : Taken(e)}
<1>1. IsFiniteSet(S)
  BY RegAssumption, FS_Subset
<1>2. regEntries \in Seq(S)
  BY <1>1, SetInOrder DEF RegInit
<1> QED BY <1>2, ElementOfSeq DEF RegTakes

\* It is kept by registering and by loading.
LEMMA RegTakesStep == RegInd /\ RegTakes /\ [RegNext]_regVars => RegTakes'
<1> SUFFICES ASSUME RegInd, RegTakes, [RegNext]_regVars PROVE RegTakes'
  OBVIOUS
<1>0. regOf' = regOf /\ (\A e : Taken(e)' <=> Taken(e)) /\ regEntries \in Seq(Plugin)
  BY DEF RegNext, regVars, Register, Lookup, LoadNext, LookupDone, RunGuardChain,
         GetConnector, Taken, RegInd
<1>1. regEntries' = regEntries \/ \E e \in Plugin : regEntries' = Bound(e)
  <2>1. ASSUME NEW e \in Registered, Register(e) PROVE \E d \in Plugin : regEntries' = Bound(d)
    BY <2>1, RegAssumption DEF Register
  <2>2. ASSUME NEW t \in RegThreads, LoadNext(t) PROVE \E d \in Plugin : regEntries' = Bound(d)
    <3>1. regAt[t] \in Nat /\ regAt[t] < Len(EntryPoints) /\ regEntries' = Bound(EntryPoints[regAt[t] + 1])
      BY <2>2, EntryPointFacts DEF LoadNext, RegInd
    <3>2. regAt[t] + 1 \in 1..Len(EntryPoints)
      BY <3>1, EntryPointFacts
    <3> QED BY <3>1, <3>2, EntryPointFacts
  <2> QED BY <2>1, <2>2 DEF RegNext, regVars, Lookup, LookupDone, RunGuardChain, GetConnector
<1>2. ASSUME NEW e \in Plugin, regEntries' = Bound(e) PROVE RegTakes'
  <2>1. CASE Refuses(e) \/ <<e.kind, e.name>> \in Names(regEntries)
    BY <1>0, <1>2, <2>1 DEF Bound, RegTakes
  <2>2. CASE ~(Refuses(e) \/ <<e.kind, e.name>> \in Names(regEntries))
    <3>1. Taken(e) /\ regEntries' = Append(regEntries, e)
      BY <1>2, <2>2 DEF Refuses, Bound
    <3>2. \A i \in DOMAIN Append(regEntries, e) :
            Append(regEntries, e)[i] = e \/ (i \in DOMAIN regEntries /\ Append(regEntries, e)[i] = regEntries[i])
      BY <1>0, AppendProperties
    <3> QED BY <1>0, <3>1, <3>2 DEF RegTakes
  <2> QED BY <2>1, <2>2
<1> QED BY <1>0, <1>1, <1>2 DEF RegTakes

\* The types of the registries follow.
LEMMA RegIndTypes == RegInd /\ RegTakes => RegTypeOK
<1>1. 0..Len(EntryPoints) \cup {NotLoading} = 0..NotLoading
  BY EntryPointFacts DEF NotLoading
<1> QED BY <1>1 DEF RegInd, RegTakes, RegTypeOK

-----------------------------------------------------------------------------
(* Anchoring.                                                              *)

\* A non-empty set of positions has a least element.
LEMMA LeastPosition ==
  ASSUME NEW S \in SUBSET Nat, S # {}
  PROVE  \E i \in S : \A j \in S : i <= j
<1>1. PICK i \in S : \A y \in S : ~ (<<y, i>> \in OpToRel(<, Nat))
  BY WFMin, NatLessThanWellFounded
<1>2. ASSUME NEW j \in S PROVE i <= j
  <2>1. ~ (j < i)
    BY <1>1 DEF OpToRel
  <2> QED BY <2>1
<1> QED BY <1>2

\* Heads contain heads, so they have no type of their own: a row, a call and the
\* chain are typed up to the heads in them.
RowTyped(row) ==
  row \in [kind : {"row", "anchor"}, body : Nat, head : {row.head},
           token : [imprint : {row.token.imprint}, nonce : Int]]

CallTyped(call) ==
  \/ call = NoAnchorCall
  \/ call \in [at : {"asking"}, tsa : Nat, head : {call.head}, nonce : Int,
               force : BOOLEAN]
  \/ call \in [at : {"got"}, head : {call.head},
               token : [imprint : {call.head}, nonce : Int]]

AnTyped ==
  /\ anNow \in Nat /\ anLast \in -1..anNow /\ anNonces \in Nat
  /\ anChain \in Seq(ToSet(anChain))
  /\ \A i \in DOMAIN anChain : RowTyped(anChain[i])
  /\ DOMAIN anCall = AnchorCallers
  /\ anCall = [c \in AnchorCallers |-> anCall[c]]
  /\ \A c \in AnchorCallers : CallTyped(anCall[c])
  /\ anGranted \in Seq(Nat)
  /\ {anRaced, anOverlap, anRewritten, anReplaced} \subseteq BOOLEAN

\* Tokens are what authorities signed, unless one was replaced.
TokensSigned ==
  /\ \A c \in AnchorCallers : anCall[c].at = "got" =>
       <<anCall[c].head, anCall[c].token.nonce>> \in anSigned
  /\ ~anReplaced =>
       \A i \in DOMAIN anChain : anChain[i].kind = "anchor" =>
         <<anChain[i].token.imprint, anChain[i].token.nonce>> \in anSigned

\* As long as no row joins meanwhile, the head being signed is that of the chain.
HeadsCurrent ==
  ~anRewritten /\ ~anRaced =>
    /\ \A c \in Fetching : anCall[c].head = Head0
    /\ \A i \in DOMAIN anChain : anChain[i].kind = "anchor" =>
         VerifyAnchor(anChain[i], HeadBefore(i))

\* A call without force that is alone still finds the cadence passed when it is
\* answered, and no anchor is granted later than the last.
CadenceKept ==
  /\ \A i \in DOMAIN anGranted : anGranted[i] <= anLast
  /\ ~anOverlap =>
       /\ \A c, d \in Fetching : c = d
       /\ \A c \in AnchorCallers :
            anCall[c].at = "asking" /\ ~anCall[c].force => ShouldAnchorNow
       /\ \A i \in 2..Len(anGranted) : anGranted[i] - anGranted[i - 1] >= Cadence

AnInd == AnTyped /\ TokensSigned /\ HeadsCurrent /\ CadenceKept

\* A sequence with one more element.
LEMMA AppendFacts ==
  ASSUME NEW S, NEW s \in Seq(S), NEW e
  PROVE  /\ Append(s, e) \in Seq(ToSet(Append(s, e)))
         /\ Len(Append(s, e)) = Len(s) + 1 /\ Len(s) \in Nat
         /\ DOMAIN Append(s, e) = 1..(Len(s) + 1) /\ DOMAIN s = 1..Len(s)
         /\ \A i \in 1..Len(s) : Append(s, e)[i] = s[i]
         /\ Append(s, e)[Len(s) + 1] = e
<1> DEFINE t == Append(s, e)
<1>1. s \in Seq(S \cup {e}) /\ e \in S \cup {e}
  OBVIOUS
<1>2. t \in Seq(S \cup {e}) /\ Len(t) = Len(s) + 1 /\ DOMAIN t = 1..Len(t)
  BY <1>1
<1>3. \A i \in 1..Len(s) : t[i] = s[i]
  BY <1>1
<1>4. t[Len(s) + 1] = e
  BY <1>1
<1>5. \A i \in 1..Len(t) : t[i] \in ToSet(t)
  BY <1>2 DEF ToSet
<1> HIDE DEF t
<1>6. t \in Seq(ToSet(t))
  BY <1>2, <1>5
<1> QED BY <1>2, <1>3, <1>4, <1>6 DEF t

\* The facts hold of an empty chain.
LEMMA AnIndInit == AnInit => AnInd
<1> SUFFICES ASSUME AnInit PROVE AnInd
  OBVIOUS
<1>1. /\ anChain = <<>> /\ anGranted = <<>> /\ DOMAIN anChain = {} /\ Fetching = {}
      /\ Len(anGranted) = 0 /\ \A c \in AnchorCallers : anCall[c] = NoAnchorCall
  BY DEF AnInit, Fetching
<1>2. AnTyped
  <2>1. anChain \in Seq(ToSet(anChain)) /\ anGranted \in Seq(Nat)
    BY <1>1
  <2>2. {anRaced, anOverlap, anRewritten, anReplaced} \subseteq BOOLEAN
    BY DEF AnInit
  <2>3. anNow \in Nat /\ anLast \in -1..anNow /\ anNonces \in Nat
    BY DEF AnInit
  <2>4. DOMAIN anCall = AnchorCallers /\ anCall = [c \in AnchorCallers |-> anCall[c]]
    BY DEF AnInit
  <2> QED BY <1>1, <2>1, <2>2, <2>3, <2>4 DEF AnTyped, CallTyped
<1>3. TokensSigned /\ HeadsCurrent
  BY <1>1 DEF AnInit, TokensSigned, HeadsCurrent, NoAnchorCall
<1>4. CadenceKept
  BY <1>1 DEF CadenceKept, NoAnchorCall
<1> QED BY <1>2, <1>3, <1>4 DEF AnInd

\* The head before a row depends on the rows before it only.
LEMMA SameHead ==
  ASSUME NEW i \in Nat, \A j \in 1..(i - 1) : anChain'[j] = anChain[j]
  PROVE  HeadBefore(i)' = HeadBefore(i)
BY DEF HeadBefore

\* A row joins the chain of a caller or of the daemon.
LEMMA RowJoins ==
  ASSUME AnTyped, NEW row, RowTyped(row), anChain' = Append(anChain, row)
  PROVE  /\ anChain' \in Seq(ToSet(anChain'))
         /\ \A i \in DOMAIN anChain' : RowTyped(anChain'[i])
         /\ DOMAIN anChain = 1..Len(anChain) /\ DOMAIN anChain' = 1..(Len(anChain) + 1)
         /\ Len(anChain) \in Nat /\ anChain'[Len(anChain) + 1] = row
         /\ \A i \in DOMAIN anChain : anChain'[i] = anChain[i]
         /\ \A i \in 1..(Len(anChain) + 1) : HeadBefore(i)' = HeadBefore(i)
<1>1. /\ anChain' \in Seq(ToSet(anChain'))
      /\ DOMAIN anChain = 1..Len(anChain) /\ DOMAIN anChain' = 1..(Len(anChain) + 1)
      /\ Len(anChain) \in Nat /\ anChain'[Len(anChain) + 1] = row
      /\ \A i \in DOMAIN anChain : anChain'[i] = anChain[i]
  <2>1. anChain \in Seq(ToSet(anChain))
    BY DEF AnTyped
  <2> QED BY <2>1, AppendFacts
<1>2. \A i \in DOMAIN anChain' : RowTyped(anChain'[i])
  BY <1>1 DEF AnTyped
<1>3. \A i \in 1..(Len(anChain) + 1) : HeadBefore(i)' = HeadBefore(i)
  BY <1>1, SameHead
<1> QED BY <1>1, <1>2, <1>3

\* The call as it asks the next authority.
LEMMA AskNextType ==
  ASSUME NEW r, NEW n,
         r \in [at : {"asking"}, tsa : Nat, head : {r.head}, nonce : Int, force : BOOLEAN]
  PROVE  [r EXCEPT !.tsa = r.tsa + 1, !.nonce = n] =
           [at |-> "asking", tsa |-> r.tsa + 1, head |-> r.head, nonce |-> n,
            force |-> r.force]
<1>1. r = [at |-> "asking", tsa |-> r.tsa, head |-> r.head, nonce |-> r.nonce,
           force |-> r.force]
  OBVIOUS
<1>2. [r EXCEPT !.tsa = r.tsa + 1] =
        [at |-> "asking", tsa |-> r.tsa + 1, head |-> r.head, nonce |-> r.nonce,
         force |-> r.force]
  BY <1>1
<1> DEFINE q == [r EXCEPT !.tsa = r.tsa + 1]
<1>3. [r EXCEPT !.tsa = r.tsa + 1, !.nonce = n] = [q EXCEPT !.nonce = n]
  OBVIOUS
<1>4. q = [at |-> "asking", tsa |-> r.tsa + 1, head |-> r.head, nonce |-> r.nonce,
           force |-> r.force]
  BY <1>2
<1> HIDE DEF q
<1>5. [q EXCEPT !.nonce = n] = [at |-> "asking", tsa |-> r.tsa + 1, head |-> r.head,
                                nonce |-> n, force |-> r.force]
  BY <1>4
<1> QED BY <1>3, <1>5

\* Every step of the callers and of whoever keeps the chain keeps the facts.
LEMMA AnIndStep == AnInd /\ [AnNext]_anVars => AnInd'
<1> SUFFICES ASSUME AnInd, [AnNext]_anVars PROVE AnInd'
  OBVIOUS
<1>0. AnTyped /\ TokensSigned /\ HeadsCurrent /\ CadenceKept
  BY DEF AnInd
<1>1. CASE UNCHANGED anVars
  <2>1. AnTyped' /\ TokensSigned'
    BY <1>0, <1>1 DEF anVars, AnTyped, TokensSigned
  <2>2. HeadsCurrent'
    BY <1>0, <1>1 DEF anVars, HeadsCurrent, Fetching, Head0, HeadBefore
  <2>3. CadenceKept'
    BY <1>0, <1>1 DEF anVars, CadenceKept, Fetching, ShouldAnchorNow
  <2> QED BY <2>1, <2>2, <2>3 DEF AnInd
<1>2. CASE AppendRow
  <2> DEFINE row == [kind |-> "row", body |-> Len(anChain), head |-> <<>>,
                     token |-> NoToken]
  <2>0. /\ anChain' = Append(anChain, row)
        /\ anRaced' = (anRaced \/ Fetching # {})
        /\ UNCHANGED <<anNow, anLast, anCall, anNonces, anSigned, anGranted, anOverlap,
                       anRewritten, anReplaced>>
    BY <1>2 DEF AppendRow
  <2>1. Len(anChain) \in Nat
    BY <1>0 DEF AnTyped
  <2>2. RowTyped(row) /\ row.kind = "row"
    BY <2>1 DEF RowTyped, NoToken
  <2> HIDE DEF row
  <2>3. /\ anChain' \in Seq(ToSet(anChain'))
        /\ \A i \in DOMAIN anChain' : RowTyped(anChain'[i])
        /\ DOMAIN anChain = 1..Len(anChain) /\ DOMAIN anChain' = 1..(Len(anChain) + 1)
        /\ Len(anChain) \in Nat /\ anChain'[Len(anChain) + 1] = row
        /\ \A i \in DOMAIN anChain : anChain'[i] = anChain[i]
        /\ \A i \in 1..(Len(anChain) + 1) : HeadBefore(i)' = HeadBefore(i)
    BY <1>0, <2>0, <2>2, RowJoins
  <2>4. Fetching' = Fetching
    BY <2>0 DEF Fetching
  <2>5. anRaced' \in BOOLEAN
    BY <2>0
  <2>6. AnTyped'
    BY <1>0, <2>0, <2>3, <2>5 DEF AnTyped
  <2>7. TokensSigned'
    BY <1>0, <2>0, <2>2, <2>3 DEF TokensSigned
  <2>8. HeadsCurrent'
    <3> SUFFICES ASSUME ~anRewritten', ~anRaced'
                 PROVE  /\ \A c \in Fetching' : anCall'[c].head = Head0'
                        /\ \A i \in DOMAIN anChain' : anChain'[i].kind = "anchor" =>
                             VerifyAnchor(anChain'[i], HeadBefore(i)')
      BY DEF HeadsCurrent, VerifyAnchor
    <3>1. Fetching = {} /\ ~anRaced /\ ~anRewritten
      BY <2>0
    <3>2. \A i \in DOMAIN anChain : anChain[i].kind = "anchor" =>
                             VerifyAnchor(anChain[i], HeadBefore(i))
      BY <1>0, <3>1 DEF HeadsCurrent
    <3>3. ASSUME NEW i \in DOMAIN anChain', anChain'[i].kind = "anchor"
          PROVE  VerifyAnchor(anChain'[i], HeadBefore(i)')
      <4>1. i \in DOMAIN anChain
        BY <2>2, <2>3, <3>3
      <4>2. anChain'[i] = anChain[i] /\ HeadBefore(i)' = HeadBefore(i)
        BY <2>3, <4>1
      <4> QED BY <3>2, <3>3, <4>1, <4>2
    <3> QED BY <2>4, <3>1, <3>3
  <2>9. CadenceKept'
    BY <1>0, <2>0, <2>4 DEF CadenceKept, ShouldAnchorNow
  <2> QED BY <2>6, <2>7, <2>8, <2>9 DEF AnInd
<1>3. CASE AnTick
  <2>0. /\ anNow' = anNow + 1
        /\ UNCHANGED <<anChain, anLast, anCall, anNonces, anSigned, anGranted, anRaced,
                       anOverlap, anRewritten, anReplaced>>
    BY <1>3 DEF AnTick
  <2>1. AnTyped'
    <3>1. anNow' \in Nat /\ anLast' \in -1..anNow'
      BY <1>0, <2>0 DEF AnTyped
    <3> QED BY <1>0, <2>0, <3>1 DEF AnTyped
  <2>2. TokensSigned'
    BY <1>0, <2>0 DEF TokensSigned
  <2>3. HeadsCurrent'
    BY <1>0, <2>0 DEF HeadsCurrent, Fetching, Head0, HeadBefore
  <2>4. ShouldAnchorNow => ShouldAnchorNow'
    BY <1>0, <2>0, AnAssumption DEF ShouldAnchorNow, AnTyped
  <2>5. CadenceKept'
    BY <1>0, <2>0, <2>4 DEF CadenceKept, Fetching
  <2> QED BY <2>1, <2>2, <2>3, <2>5 DEF AnInd
<1>4. ASSUME NEW c \in AnchorCallers, NEW force \in BOOLEAN, BeginAnchor(c, force)
      PROVE  AnInd'
  <2> DEFINE new == [at |-> "asking", tsa |-> 1, head |-> Head0,
                     nonce |-> anNonces + 1, force |-> force]
  <2>0. /\ anCall[c] = NoAnchorCall /\ (force \/ ShouldAnchorNow)
        /\ anNonces' = anNonces + 1
        /\ anCall' = [anCall EXCEPT ![c] = new]
        /\ anOverlap' = (anOverlap \/ Fetching # {})
        /\ UNCHANGED <<anNow, anChain, anLast, anSigned, anGranted, anRaced, anRewritten,
                       anReplaced>>
    BY <1>4 DEF BeginAnchor
  <2>1. /\ CallTyped(new) /\ new.at = "asking" /\ new.head = Head0 /\ new.force = force
        /\ anNonces' \in Nat /\ new # NoAnchorCall
    <3>1. anNonces \in Nat
      BY <1>0 DEF AnTyped
    <3> QED BY <2>0, <3>1 DEF CallTyped, NoAnchorCall
  <2> HIDE DEF new
  <2>2. /\ anCall'[c] = new /\ DOMAIN anCall' = AnchorCallers
        /\ anCall' = [d \in AnchorCallers |-> anCall'[d]]
        /\ \A d \in AnchorCallers \ {c} : anCall'[d] = anCall[d]
    BY <1>0, <2>0 DEF AnTyped
  <2>3. Fetching' = Fetching \cup {c}
    BY <2>1, <2>2 DEF Fetching
  <2>4. AnTyped'
    <3>1. anOverlap' \in BOOLEAN
      BY <2>0
    <3>2. \A d \in AnchorCallers : CallTyped(anCall'[d])
      BY <1>0, <2>1, <2>2 DEF AnTyped
    <3> QED BY <1>0, <2>0, <2>1, <2>2, <3>1, <3>2 DEF AnTyped
  <2>5. TokensSigned'
    BY <1>0, <2>0, <2>1, <2>2 DEF TokensSigned
  <2>6. HeadsCurrent'
    <3>1. Head0' = Head0 /\ \A i : HeadBefore(i)' = HeadBefore(i)
      BY <2>0 DEF Head0, HeadBefore
    <3> QED BY <1>0, <2>0, <2>1, <2>2, <2>3, <3>1 DEF HeadsCurrent, Fetching, VerifyAnchor
  <2>7. CadenceKept'
    <3>1. ShouldAnchorNow' <=> ShouldAnchorNow
      BY <2>0 DEF ShouldAnchorNow
    <3>2. ~anOverlap' => ~anOverlap /\ Fetching' = {c}
      BY <2>0, <2>3
    <3>3. \A d \in AnchorCallers :
            anCall'[d].at = "asking" /\ ~anCall'[d].force /\ ~anOverlap' => ShouldAnchorNow
      BY <1>0, <2>0, <2>1, <2>2, <3>2 DEF CadenceKept
    <3> QED BY <1>0, <2>0, <3>1, <3>2, <3>3 DEF CadenceKept
  <2> QED BY <2>4, <2>5, <2>6, <2>7 DEF AnInd
<1>5. ASSUME NEW c \in AnchorCallers, AskTsa(c) PROVE AnInd'
  <2> DEFINE old == anCall[c]
  <2>0. /\ old.at = "asking"
        /\ UNCHANGED <<anNow, anChain, anRaced, anOverlap, anRewritten, anReplaced>>
    BY <1>5 DEF AskTsa
  <2>1. /\ old \in [at : {"asking"}, tsa : Nat, head : {old.head}, nonce : Int,
                     force : BOOLEAN]
        /\ old # NoAnchorCall
    <3>1. CallTyped(old)
      BY <1>0 DEF AnTyped
    <3> QED BY <2>0, <3>1 DEF CallTyped, NoAnchorCall
  <2>2. /\ c \in Fetching /\ \A i : HeadBefore(i)' = HeadBefore(i)
        /\ Head0' = Head0
    BY <2>0, <2>1 DEF Fetching, HeadBefore, Head0
  <2>3. PICK reply \in Replies(old) :
          IF TokenFits(old, reply)
          THEN /\ anCall' = [anCall EXCEPT ![c] =
                    [at |-> "got", head |-> @.head,
                     token |-> [imprint |-> reply.imprint, nonce |-> reply.nonce]]]
               /\ anLast' = anNow
               /\ anSigned' = anSigned \cup {<<reply.imprint, reply.nonce>>}
               /\ anGranted' = IF old.force THEN anGranted ELSE Append(anGranted, anNow)
               /\ UNCHANGED anNonces
          ELSE /\ IF old.tsa < Tsas /\ anNonces < MaxRequests
                  THEN /\ anCall' = [anCall EXCEPT ![c].tsa = @ + 1,
                                                   ![c].nonce = anNonces + 1]
                       /\ anNonces' = anNonces + 1
                  ELSE anCall' = [anCall EXCEPT ![c] = NoAnchorCall] /\ UNCHANGED anNonces
               /\ UNCHANGED <<anLast, anSigned, anGranted>>
    BY <1>5 DEF AskTsa
  <2>4. CASE TokenFits(old, reply)
    <3> DEFINE new == [at |-> "got", head |-> old.head,
                       token |-> [imprint |-> reply.imprint, nonce |-> reply.nonce]]
    <3>1. reply.imprint = old.head /\ reply.nonce = old.nonce
      BY <2>4 DEF TokenFits
    <3>2. /\ CallTyped(new) /\ new.at = "got" /\ new.head = old.head
          /\ new.token.nonce = old.nonce /\ new # NoAnchorCall
      BY <2>1, <3>1 DEF CallTyped, NoAnchorCall
    <3>3. /\ anCall' = [anCall EXCEPT ![c] = new] /\ anLast' = anNow
          /\ anSigned' = anSigned \cup {<<old.head, old.nonce>>}
          /\ anGranted' = IF old.force THEN anGranted ELSE Append(anGranted, anNow)
          /\ anNonces' = anNonces
      BY <2>3, <2>4, <3>1
    <3> HIDE DEF new
    <3>4. /\ anCall'[c] = new /\ DOMAIN anCall' = AnchorCallers
          /\ anCall' = [d \in AnchorCallers |-> anCall'[d]]
          /\ \A d \in AnchorCallers \ {c} : anCall'[d] = anCall[d]
      BY <1>0, <3>3 DEF AnTyped
    <3>5. Fetching' = Fetching
      BY <2>2, <3>2, <3>4 DEF Fetching
    <3>6. anGranted \in Seq(Nat) /\ anGranted' \in Seq(Nat) /\ anNow \in Nat
      BY <1>0, <3>3 DEF AnTyped
    <3>7. AnTyped'
      <4>1. \A d \in AnchorCallers : CallTyped(anCall'[d])
        BY <1>0, <3>2, <3>4 DEF AnTyped
      <4>2. anLast' \in -1..anNow' /\ anNow' \in Nat
        BY <2>0, <3>3, <3>6
      <4> QED BY <1>0, <2>0, <3>3, <3>4, <3>6, <4>1, <4>2 DEF AnTyped
    <3>8. TokensSigned'
      BY <1>0, <2>0, <3>2, <3>3, <3>4 DEF TokensSigned
    <3>9. HeadsCurrent'
      BY <1>0, <2>0, <2>2, <3>2, <3>4, <3>5 DEF HeadsCurrent, Fetching, VerifyAnchor
    <3>10. CadenceKept'
      <4>1. anLast \in Int /\ anLast <= anNow
        BY <1>0, <3>6 DEF AnTyped
      <4>2. \A i \in DOMAIN anGranted : anGranted[i] \in Nat /\ anGranted[i] <= anLast
        BY <1>0, <3>6 DEF CadenceKept
      <4>3. \A i \in DOMAIN anGranted' : anGranted'[i] <= anLast'
        <5>1. CASE old.force
          BY <3>3, <3>6, <4>1, <4>2, <5>1
        <5>2. CASE ~old.force
          BY <3>3, <3>6, <4>1, <4>2, <5>2
        <5> QED BY <5>1, <5>2
      <4>4. ASSUME ~anOverlap PROVE ~anOverlap' =>
              \A d \in AnchorCallers : anCall'[d].at # "asking"
        BY <1>0, <2>2, <3>2, <3>4, <4>4 DEF CadenceKept, Fetching, NoAnchorCall
      <4>5. ASSUME ~anOverlap, NEW i \in 2..Len(anGranted')
            PROVE  anGranted'[i] - anGranted'[i - 1] >= Cadence
        <5>1. \A k \in 2..Len(anGranted) : anGranted[k] - anGranted[k - 1] >= Cadence
          BY <1>0, <4>5 DEF CadenceKept
        <5>2. CASE old.force \/ i <= Len(anGranted)
          <6>1. /\ i \in 2..Len(anGranted) /\ anGranted'[i] = anGranted[i]
                /\ anGranted'[i - 1] = anGranted[i - 1]
            BY <3>3, <3>6, <4>5, <5>2
          <6> QED BY <5>1, <6>1
        <5>3. CASE ~old.force /\ ~(i <= Len(anGranted))
          <6>1. /\ i = Len(anGranted) + 1 /\ anGranted'[i] = anNow
                /\ anGranted'[i - 1] = anGranted[i - 1] /\ i - 1 \in DOMAIN anGranted
            BY <3>3, <3>6, <4>5, <5>3
          <6>2. ShouldAnchorNow
            BY <1>0, <2>0, <4>5, <5>3 DEF CadenceKept
          <6>3. anGranted[i - 1] \in Nat /\ anGranted[i - 1] <= anLast
            BY <4>2, <6>1
          <6>4. anNow - anLast >= Cadence /\ Cadence \in Nat
            BY <4>1, <6>2, <6>3, AnAssumption DEF ShouldAnchorNow
          <6> QED BY <3>6, <4>1, <6>1, <6>3, <6>4
        <5> QED BY <5>2, <5>3
      <4> QED BY <1>0, <2>0, <3>5, <4>3, <4>4, <4>5 DEF CadenceKept
    <3> QED BY <3>7, <3>8, <3>9, <3>10 DEF AnInd
  <2>5. CASE ~TokenFits(old, reply)
    <3>0. UNCHANGED <<anLast, anSigned, anGranted>>
      BY <2>3, <2>5
    <3>1. CASE old.tsa < Tsas /\ anNonces < MaxRequests
      <4> DEFINE new == [old EXCEPT !.tsa = old.tsa + 1, !.nonce = anNonces + 1]
      <4>1. anCall' = [anCall EXCEPT ![c] = new] /\ anNonces' = anNonces + 1
        BY <2>3, <2>5, <3>1
      <4>2. anNonces \in Nat
        BY <1>0 DEF AnTyped
      <4>3. /\ CallTyped(new) /\ new.at = "asking" /\ new.head = old.head
            /\ new.force = old.force /\ new # NoAnchorCall
        <5>1. new = [at |-> "asking", tsa |-> old.tsa + 1, head |-> old.head,
                     nonce |-> anNonces + 1, force |-> old.force]
          BY <2>1, AskNextType
        <5>2. old.tsa + 1 \in Nat /\ anNonces + 1 \in Int /\ old.force \in BOOLEAN
          BY <2>1, <4>2
        <5> HIDE DEF new, old
        <5> QED BY <5>1, <5>2 DEF CallTyped, NoAnchorCall
      <4> HIDE DEF new
      <4>4. /\ anCall'[c] = new /\ DOMAIN anCall' = AnchorCallers
            /\ anCall' = [d \in AnchorCallers |-> anCall'[d]]
            /\ \A d \in AnchorCallers \ {c} : anCall'[d] = anCall[d]
        BY <1>0, <4>1 DEF AnTyped
      <4>5. Fetching' = Fetching
        BY <2>2, <4>3, <4>4 DEF Fetching
      <4>6. AnTyped'
        <5>1. \A d \in AnchorCallers : CallTyped(anCall'[d])
          BY <1>0, <4>3, <4>4 DEF AnTyped
        <5> QED BY <1>0, <2>0, <3>0, <4>1, <4>2, <4>4, <5>1 DEF AnTyped
      <4>7. TokensSigned'
        BY <1>0, <2>0, <3>0, <4>3, <4>4 DEF TokensSigned
      <4>8. HeadsCurrent'
        BY <1>0, <2>0, <2>2, <4>3, <4>4, <4>5 DEF HeadsCurrent, Fetching, VerifyAnchor
      <4>9. CadenceKept'
        BY <1>0, <2>0, <3>0, <4>3, <4>4, <4>5 DEF CadenceKept, ShouldAnchorNow
      <4> QED BY <4>6, <4>7, <4>8, <4>9 DEF AnInd
    <3>2. CASE ~(old.tsa < Tsas /\ anNonces < MaxRequests)
      <4>1. anCall' = [anCall EXCEPT ![c] = NoAnchorCall] /\ anNonces' = anNonces
        BY <2>3, <2>5, <3>2
      <4>2. /\ anCall'[c] = NoAnchorCall /\ DOMAIN anCall' = AnchorCallers
            /\ anCall' = [d \in AnchorCallers |-> anCall'[d]]
            /\ \A d \in AnchorCallers \ {c} : anCall'[d] = anCall[d]
        BY <1>0, <4>1 DEF AnTyped
      <4>3. Fetching' = Fetching \ {c} /\ NoAnchorCall.at = "idle"
        BY <4>2 DEF Fetching, NoAnchorCall
      <4>4. AnTyped'
        <5>1. \A d \in AnchorCallers : CallTyped(anCall'[d])
          BY <1>0, <4>2 DEF AnTyped, CallTyped
        <5> QED BY <1>0, <2>0, <3>0, <4>1, <4>2, <5>1 DEF AnTyped
      <4>5. TokensSigned'
        BY <1>0, <2>0, <3>0, <4>2, <4>3 DEF TokensSigned
      <4>6. HeadsCurrent'
        BY <1>0, <2>0, <2>2, <4>2, <4>3 DEF HeadsCurrent, Fetching, VerifyAnchor
      <4>7. CadenceKept'
        BY <1>0, <2>0, <3>0, <4>2, <4>3 DEF CadenceKept, ShouldAnchorNow
      <4> QED BY <4>4, <4>5, <4>6, <4>7 DEF AnInd
    <3> QED BY <3>1, <3>2
  <2> QED BY <2>4, <2>5
<1>6. ASSUME NEW c \in AnchorCallers, EmitAnchor(c) PROVE AnInd'
  <2> DEFINE old == anCall[c]
             row == [kind |-> "anchor", body |-> 0, head |-> old.head,
                     token |-> old.token]
  <2>0. /\ old.at = "got" /\ anChain' = Append(anChain, row)
        /\ anCall' = [anCall EXCEPT ![c] = NoAnchorCall]
        /\ anRaced' = (anRaced \/ Fetching # {c})
        /\ UNCHANGED <<anNow, anLast, anNonces, anSigned, anGranted, anOverlap,
                       anRewritten, anReplaced>>
    BY <1>6 DEF EmitAnchor
  <2>1. /\ old \in [at : {"got"}, head : {old.head},
                     token : [imprint : {old.head}, nonce : Int]]
        /\ old # NoAnchorCall
    <3>1. CallTyped(old)
      BY <1>0 DEF AnTyped
    <3> QED BY <2>0, <3>1 DEF CallTyped, NoAnchorCall
  <2>2. /\ RowTyped(row) /\ row.kind = "anchor" /\ row.head = old.head
        /\ row.token.imprint = old.head /\ row.token.nonce = old.token.nonce
    BY <2>1 DEF RowTyped
  <2> HIDE DEF row
  <2>3. /\ anChain' \in Seq(ToSet(anChain'))
        /\ \A i \in DOMAIN anChain' : RowTyped(anChain'[i])
        /\ DOMAIN anChain = 1..Len(anChain) /\ DOMAIN anChain' = 1..(Len(anChain) + 1)
        /\ Len(anChain) \in Nat /\ anChain'[Len(anChain) + 1] = row
        /\ \A i \in DOMAIN anChain : anChain'[i] = anChain[i]
        /\ \A i \in 1..(Len(anChain) + 1) : HeadBefore(i)' = HeadBefore(i)
    BY <1>0, <2>0, <2>2, RowJoins
  <2>4. /\ anCall'[c] = NoAnchorCall /\ DOMAIN anCall' = AnchorCallers
        /\ anCall' = [d \in AnchorCallers |-> anCall'[d]]
        /\ \A d \in AnchorCallers \ {c} : anCall'[d] = anCall[d]
    BY <1>0, <2>0 DEF AnTyped
  <2>5. Fetching' = Fetching \ {c} /\ NoAnchorCall.at = "idle" /\ c \in Fetching
    BY <2>1, <2>4 DEF Fetching, NoAnchorCall
  <2>6. AnTyped'
    <3>1. \A d \in AnchorCallers : CallTyped(anCall'[d])
      BY <1>0, <2>4 DEF AnTyped, CallTyped
    <3>2. anRaced' \in BOOLEAN
      BY <2>0
    <3> QED BY <1>0, <2>0, <2>3, <2>4, <3>1, <3>2 DEF AnTyped
  <2>7. TokensSigned'
    <3>1. <<row.token.imprint, row.token.nonce>> \in anSigned
      BY <1>0, <2>0, <2>2 DEF TokensSigned
    <3> QED BY <1>0, <2>0, <2>3, <2>4, <2>5, <3>1 DEF TokensSigned
  <2>8. HeadsCurrent'
    <3> SUFFICES ASSUME ~anRewritten', ~anRaced'
                 PROVE  /\ \A d \in Fetching' : anCall'[d].head = Head0'
                        /\ \A i \in DOMAIN anChain' : anChain'[i].kind = "anchor" =>
                             VerifyAnchor(anChain'[i], HeadBefore(i)')
      BY DEF HeadsCurrent, VerifyAnchor
    <3>1. Fetching' = {} /\ ~anRaced /\ ~anRewritten
      BY <2>0, <2>5
    <3>2. /\ \A i \in DOMAIN anChain : anChain[i].kind = "anchor" =>
                             VerifyAnchor(anChain[i], HeadBefore(i))
          /\ old.head = HeadBefore(Len(anChain) + 1)
      BY <1>0, <2>5, <3>1 DEF HeadsCurrent, Head0
    <3>3. ASSUME NEW i \in DOMAIN anChain', anChain'[i].kind = "anchor"
          PROVE  VerifyAnchor(anChain'[i], HeadBefore(i)')
      <4>1. CASE i \in DOMAIN anChain
        <5>1. anChain'[i] = anChain[i] /\ HeadBefore(i)' = HeadBefore(i)
          BY <2>3, <4>1
        <5> QED BY <3>2, <3>3, <4>1, <5>1
      <4>2. CASE i = Len(anChain) + 1
        <5>1. anChain'[i] = row /\ HeadBefore(i)' = HeadBefore(i)
          BY <2>3, <4>2
        <5> QED BY <2>2, <3>2, <4>2, <5>1 DEF VerifyAnchor
      <4> QED BY <2>3, <4>1, <4>2
    <3> QED BY <3>1, <3>3
  <2>9. CadenceKept'
    BY <1>0, <2>0, <2>4, <2>5 DEF CadenceKept, ShouldAnchorNow
  <2> QED BY <2>6, <2>7, <2>8, <2>9 DEF AnInd
<1>7. ASSUME NEW i \in DOMAIN anChain, NEW token \in BOOLEAN, Rewrite(i, token)
      PROVE  AnInd'
  <2>0. /\ Fetching = {} /\ anRewritten' = TRUE /\ anReplaced' = (anReplaced \/ token)
        /\ UNCHANGED <<anNow, anLast, anCall, anNonces, anSigned, anGranted, anRaced,
                       anOverlap>>
    BY <1>7 DEF Rewrite
  <2>1. /\ anChain \in Seq(ToSet(anChain)) /\ RowTyped(anChain[i])
        /\ DOMAIN anChain = 1..Len(anChain) /\ Len(anChain) \in Nat
    BY <1>0 DEF AnTyped
  <2>2. PICK row : /\ anChain' = [anChain EXCEPT ![i] = row]
                   /\ RowTyped(row) /\ row.kind = anChain[i].kind
                   /\ ~token => row.token = anChain[i].token
    <3> DEFINE old == anChain[i]
               h == HeadBefore(i)
    <3>1. CASE anChain[i].kind = "row"
      <4> DEFINE new == [old EXCEPT !.body = 99]
      <4>1. anChain' = [anChain EXCEPT ![i] = new]
        BY <1>7, <3>1 DEF Rewrite
      <4>2. RowTyped(new) /\ new.kind = old.kind /\ new.token = old.token
        BY <2>1 DEF RowTyped
      <4> HIDE DEF new
      <4> QED BY <4>1, <4>2
    <3>2. CASE anChain[i].kind # "row" /\ token
      <4> DEFINE new == [old EXCEPT !.head = h, !.token.imprint = h]
      <4>1. anChain' = [anChain EXCEPT ![i] = new]
        BY <1>7, <3>2 DEF Rewrite
      <4>2. RowTyped(new) /\ new.kind = old.kind
        <5> HIDE DEF h
        <5> QED BY <2>1 DEF RowTyped
      <4> HIDE DEF new
      <4> QED BY <3>2, <4>1, <4>2
    <3>3. CASE anChain[i].kind # "row" /\ ~token
      <4> DEFINE new == [old EXCEPT !.head = h]
      <4>1. anChain' = [anChain EXCEPT ![i] = new]
        BY <1>7, <3>3 DEF Rewrite
      <4>2. RowTyped(new) /\ new.kind = old.kind /\ new.token = old.token
        <5> HIDE DEF h
        <5> QED BY <2>1 DEF RowTyped
      <4> HIDE DEF new
      <4> QED BY <4>1, <4>2
    <3> QED BY <3>1, <3>2, <3>3
  <2>3. /\ DOMAIN anChain' = DOMAIN anChain /\ anChain'[i] = row
        /\ \A j \in DOMAIN anChain \ {i} : anChain'[j] = anChain[j]
    BY <2>1, <2>2
  <2>4. anChain' \in Seq(ToSet(anChain'))
    <3>1. anChain' \in Seq(ToSet(anChain) \cup {row})
      BY <2>1, <2>2
    <3>2. \A j \in DOMAIN anChain' : anChain'[j] \in ToSet(anChain')
      BY DEF ToSet
    <3> QED BY <2>1, <2>3, <3>1, <3>2
  <2>5. Fetching' = {}
    BY <2>0 DEF Fetching
  <2>6. AnTyped'
    <3>1. \A j \in DOMAIN anChain' : RowTyped(anChain'[j])
      BY <1>0, <2>2, <2>3 DEF AnTyped
    <3>2. anReplaced' \in BOOLEAN /\ anRewritten' \in BOOLEAN
      BY <2>0
    <3> QED BY <1>0, <2>0, <2>4, <3>1, <3>2 DEF AnTyped
  <2>7. TokensSigned'
    BY <1>0, <2>0, <2>2, <2>3 DEF TokensSigned
  <2>8. HeadsCurrent'
    BY <2>0 DEF HeadsCurrent
  <2>9. CadenceKept'
    BY <1>0, <2>0, <2>5 DEF CadenceKept, ShouldAnchorNow, Fetching
  <2> QED BY <2>6, <2>7, <2>8, <2>9 DEF AnInd
<1> QED BY <1>1, <1>2, <1>3, <1>4, <1>5, <1>6, <1>7 DEF AnNext

\* They give the property.
LEMMA AnIndHolds == AnInd => AnchorsHold
<1> SUFFICES ASSUME AnInd PROVE AnchorsHold
  OBVIOUS
<1> DEFINE bad == {i \in DOMAIN anChain : /\ anChain[i].kind = "anchor"
                                          /\ ~VerifyAnchor(anChain[i], HeadBefore(i))}
<1>1. VerifyChainWithAnchors = IF bad = {} THEN 0 ELSE Min(bad)
  BY DEF VerifyChainWithAnchors
<1>2. bad \subseteq Nat \ {0}
  BY DEF AnInd, AnTyped
<1> HIDE DEF bad
<1>3. VerifyChainWithAnchors = 0 <=> bad = {}
  <2>1. bad # {} => \E i \in bad : \A j \in bad : i <= j
    <3>1. bad \in SUBSET Nat
      BY <1>2
    <3> QED BY <3>1, LeastPosition
  <2>2. bad # {} => Min(bad) \in bad
    BY <2>1 DEF Min
  <2> QED BY <1>1, <1>2, <2>2
<1>4. ASSUME VerifyChainWithAnchors = 0, ~anReplaced, NEW i \in DOMAIN anChain,
             anChain[i].kind = "anchor"
      PROVE  <<HeadBefore(i), anChain[i].token.nonce>> \in anSigned
  <2>1. VerifyAnchor(anChain[i], HeadBefore(i))
    BY <1>3, <1>4 DEF bad
  <2> QED BY <1>4, <2>1 DEF AnInd, TokensSigned, VerifyAnchor
<1>5. ~anRewritten /\ ~anRaced => VerifyChainWithAnchors = 0
  BY <1>3 DEF AnInd, HeadsCurrent, bad
<1> QED BY <1>4, <1>5 DEF AnchorsHold, AnInd, CadenceKept

\* For any callers, authorities, cadence and number of rows: a chain that verifies
\* was signed, anchor by anchor, for the rows that it has, an untouched chain
\* verifies unless a row overtook an anchor, and anchors are a cadence apart.
THEOREM AnchorsAlwaysHold == AnSpec => []AnchorsHold
BY AnIndInit, AnIndStep, AnIndHolds, PTL DEF AnSpec

\* Time stands still at its bound.
AnBounded == anNow <= MaxAnTime

\* The bound is kept by the clock and left alone by the rest.
LEMMA AnBoundedStep == AnInd /\ AnBounded /\ [AnNext]_anVars => AnBounded'
<1> SUFFICES ASSUME AnInd, AnBounded, [AnNext]_anVars PROVE AnBounded'
  OBVIOUS
<1>1. anNow' = anNow \/ AnTick
  BY DEF AnNext, anVars, AppendRow, BeginAnchor, AskTsa, EmitAnchor, Rewrite
<1>2. anNow \in Nat /\ MaxAnTime \in Nat
  BY AnAssumption DEF AnInd, AnTyped
<1> QED BY <1>1, <1>2 DEF AnTick, AnBounded

\* The types of the anchors follow.
LEMMA AnIndTypes == AnInd /\ AnBounded => AnTypeOK
<1> SUFFICES ASSUME AnInd, AnBounded PROVE AnTypeOK
  OBVIOUS
<1>1. AnTyped /\ MaxAnTime \in Nat
  BY AnAssumption DEF AnInd
<1>2. anNow \in 0..MaxAnTime /\ anLast \in -1..MaxAnTime
  BY <1>1 DEF AnTyped, AnBounded
<1>3. \A c \in AnchorCallers : anCall[c].at \in {"idle", "asking", "got"}
  BY <1>1 DEF AnTyped, CallTyped, NoAnchorCall
<1>4. \A i \in DOMAIN anChain : anChain[i].kind \in {"row", "anchor"}
  BY <1>1 DEF AnTyped, RowTyped
<1> QED BY <1>2, <1>3, <1>4 DEF AnTypeOK

-----------------------------------------------------------------------------
(* The Kafka source.                                                       *)

KfTyped ==
  /\ kfLen \in 0..Ahead /\ kfPos \in 1..(Ahead + 1)
  /\ kfCommitted \in 0..(Ahead + 1) /\ kfFirst \in 0..(Ahead + 1)
  /\ kfRun \in {"down", "reading", "deciding", "leaving"}
  /\ kfHanded \subseteq 1..kfLen /\ kfBad \subseteq 1..kfLen
  /\ kfCrashes \in Nat

\* From the first committed offset up to where the consumer is, every message was
\* seen, and what is committed lies behind the consumer.
SeenSoFar ==
  /\ kfFirst = NoOffset <=> kfCommitted = NoOffset
  /\ kfFirst <= kfCommitted
  /\ kfFirst..(kfCommitted - 1) \subseteq kfHanded \cup kfBad
  /\ kfRun # "down" /\ kfFirst # NoOffset =>
       /\ kfCommitted <= kfPos
       /\ kfFirst..(kfPos - 1) \subseteq kfHanded \cup kfBad

\* A message handed over is decided, being decided, or one a crash cost its
\* decision.
Undecided == kfHanded \ kfDecided

LostByCrash ==
  /\ kfRun = "deciding" => kfPos - 1 \in kfHanded
  /\ Cardinality(IF kfRun = "deciding" THEN Undecided \ {kfPos - 1} ELSE Undecided)
       <= kfCrashes

KfInd == KfTyped /\ SeenSoFar /\ LostByCrash

\* How far the position runs ahead is a number.
LEMMA AheadNat == Ahead \in Nat
BY KafkaAssumption, FS_CardinalityType DEF Ahead

\* Messages are finitely many, so sets of them can be counted.
LEMMA SmallerCount ==
  ASSUME KfTyped, NEW S \in SUBSET kfHanded, NEW T \in SUBSET S
  PROVE  /\ IsFiniteSet(S) /\ Cardinality(S) \in Nat /\ Cardinality(T) \in Nat
         /\ Cardinality(T) <= Cardinality(S)
         /\ \A x : Cardinality(S) <= Cardinality(S \ {x}) + 1
<1>1. IsFiniteSet(1..kfLen)
  BY AheadNat, FS_Interval DEF KfTyped
<1>2. IsFiniteSet(S) /\ Cardinality(S) \in Nat
  BY <1>1, FS_Subset, FS_CardinalityType DEF KfTyped
<1>3. Cardinality(T) <= Cardinality(S) /\ Cardinality(T) \in Nat
  BY <1>2, FS_Subset, FS_CardinalityType
<1>4. ASSUME NEW x PROVE Cardinality(S) <= Cardinality(S \ {x}) + 1
  <2>1. Cardinality(S \ {x}) = IF x \in S THEN Cardinality(S) - 1 ELSE Cardinality(S)
    BY <1>2, FS_RemoveElement
  <2> QED BY <1>2, <2>1
<1> QED BY <1>2, <1>3, <1>4

\* The facts hold of an empty topic.
LEMMA KfIndInit == KfInit => KfInd
<1> SUFFICES ASSUME KfInit PROVE KfInd
  OBVIOUS
<1> USE AheadNat DEF KfInit, NoOffset
<1>1. KfTyped
  BY DEF KfTyped
<1>2. SeenSoFar
  BY DEF SeenSoFar
<1>3. LostByCrash
  <2>1. Cardinality(Undecided) = 0
    BY FS_EmptySet DEF Undecided
  <2> QED BY <2>1 DEF LostByCrash
<1> QED BY <1>1, <1>2, <1>3 DEF KfInd

\* Committing the consumer's position.
LEMMA CommitKeeps ==
  ASSUME KfInd, kfRun # "down", CommitPosition,
         UNCHANGED <<kfLen, kfPos, kfHanded, kfBad>>
  PROVE  /\ kfCommitted' \in 0..(Ahead + 1) /\ kfFirst' \in 0..(Ahead + 1)
         /\ kfFirst' # NoOffset /\ kfCommitted' # NoOffset /\ kfFirst' <= kfCommitted'
         /\ kfCommitted' <= kfPos
         /\ kfFirst'..(kfPos - 1) \subseteq kfHanded \cup kfBad
         /\ kfCommitted' = kfPos
BY AheadNat DEF KfInd, KfTyped, SeenSoFar, CommitPosition, NoOffset

\* Every step of producer, daemon and consumer keeps them.
LEMMA KfIndStep == KfInd /\ [KfNext]_kfVars => KfInd'
<1> SUFFICES ASSUME KfInd, [KfNext]_kfVars PROVE KfInd'
  OBVIOUS
<1>0. KfTyped /\ SeenSoFar /\ LostByCrash /\ kfCrashes \in Nat /\ Ahead \in Nat
  BY AheadNat DEF KfInd, KfTyped
<1>1. CASE UNCHANGED kfVars
  BY <1>0, <1>1 DEF kfVars, KfInd, KfTyped, SeenSoFar, LostByCrash, Undecided
<1>2. CASE Produce
  <2>1. KfTyped' /\ SeenSoFar'
    BY <1>0, <1>2 DEF Produce, KfTyped, SeenSoFar
  <2>2. LostByCrash'
    BY <1>0, <1>2 DEF Produce, LostByCrash, Undecided
  <2> QED BY <2>1, <2>2 DEF KfInd
<1>3. ASSUME NEW type \in SourceTypes, NEW good \in BOOLEAN, NEW once \in BOOLEAN,
             StartDaemon(type, good, once)
      PROVE  KfInd'
  <2>0. /\ kfRun = "down"
        /\ UNCHANGED <<kfLen, kfCommitted, kfHanded, kfDecided, kfBad, kfFirst, kfCrashes>>
    BY <1>3 DEF StartDaemon
  <2>1. \/ kfRun' = "reading" /\ kfPos' = StartOffset
        \/ kfRun' = "down" /\ kfPos' = kfPos
    BY <1>3, <2>0 DEF StartDaemon
  <2>2. KfTyped' /\ SeenSoFar'
    BY <1>0, <2>0, <2>1 DEF KfTyped, SeenSoFar, StartOffset, NoOffset
  <2>3. LostByCrash'
    BY <1>0, <2>0, <2>1 DEF LostByCrash, Undecided
  <2> QED BY <2>2, <2>3 DEF KfInd
<1>4. CASE NextEvent
  <2>0. /\ kfRun = "reading" /\ kfPos <= kfLen /\ kfPos' = kfPos + 1
        /\ kfHanded' = kfHanded \cup {kfPos} /\ kfRun' = "deciding"
        /\ UNCHANGED <<kfLen, kfCommitted, kfDecided, kfBad, kfFirst, kfCrashes>>
    BY <1>4 DEF NextEvent
  <2>1. KfTyped'
    BY <1>0, <2>0 DEF KfTyped
  <2>2. SeenSoFar'
    BY <1>0, <2>0 DEF KfTyped, SeenSoFar, NoOffset
  <2>3. LostByCrash'
    <3>1. kfPos' - 1 = kfPos
      BY <1>0, <2>0 DEF KfTyped
    <3>2. Undecided' \ {kfPos} = Undecided \ {kfPos}
      BY <2>0 DEF Undecided
    <3>3. Cardinality(Undecided \ {kfPos}) <= Cardinality(Undecided)
          /\ Cardinality(Undecided \ {kfPos}) \in Nat /\ Cardinality(Undecided) \in Nat
      <4>1. Undecided \in SUBSET kfHanded /\ Undecided \ {kfPos} \in SUBSET Undecided
        BY DEF Undecided
      <4> QED BY <1>0, <4>1, SmallerCount
    <3>4. Cardinality(Undecided) <= kfCrashes
      BY <1>0, <2>0 DEF LostByCrash
    <3>5. Cardinality(Undecided' \ {kfPos' - 1}) <= kfCrashes'
      BY <1>0, <2>0, <3>1, <3>2, <3>3, <3>4
    <3> QED BY <2>0, <3>1, <3>5 DEF LostByCrash
  <2> QED BY <2>1, <2>2, <2>3 DEF KfInd
<1>5. CASE NextMalformed
  <2>0. /\ kfRun = "reading" /\ kfPos <= kfLen /\ kfPos' = kfPos + 1
        /\ kfBad' = kfBad \cup {kfPos} /\ kfRun' = kfRun
        /\ UNCHANGED <<kfLen, kfCommitted, kfHanded, kfDecided, kfFirst, kfCrashes>>
    BY <1>5 DEF NextMalformed
  <2>1. KfTyped'
    BY <1>0, <2>0 DEF KfTyped
  <2>2. SeenSoFar'
    BY <1>0, <2>0 DEF KfTyped, SeenSoFar, NoOffset
  <2>3. LostByCrash'
    BY <1>0, <2>0 DEF LostByCrash, Undecided
  <2> QED BY <2>1, <2>2, <2>3 DEF KfInd
<1>6. CASE NextEnds \/ StopReading
  <2>0. /\ kfRun = "reading" /\ kfRun' = "leaving"
        /\ UNCHANGED <<kfLen, kfCommitted, kfPos, kfHanded, kfDecided, kfBad, kfFirst,
                       kfCrashes>>
    BY <1>6 DEF NextEnds, StopReading
  <2>1. KfTyped' /\ SeenSoFar'
    BY <1>0, <2>0 DEF KfTyped, SeenSoFar
  <2>2. LostByCrash'
    BY <1>0, <2>0 DEF LostByCrash, Undecided
  <2> QED BY <2>1, <2>2 DEF KfInd
<1>7. CASE DecisionDone
  <2>0. /\ kfRun = "deciding" /\ kfRun' = "reading"
        /\ kfDecided' = kfDecided \cup {kfPos - 1}
        /\ UNCHANGED <<kfLen, kfCommitted, kfPos, kfHanded, kfBad, kfFirst, kfCrashes>>
    BY <1>7 DEF DecisionDone
  <2>1. KfTyped' /\ SeenSoFar'
    BY <1>0, <2>0 DEF KfTyped, SeenSoFar
  <2>2. Undecided' = Undecided \ {kfPos - 1}
    BY <2>0 DEF Undecided
  <2>3. LostByCrash'
    BY <1>0, <2>0, <2>2 DEF LostByCrash
  <2> QED BY <2>1, <2>3 DEF KfInd
<1>8. CASE AutoCommit
  <2>0. /\ kfRun # "down" /\ CommitPosition
        /\ UNCHANGED <<kfLen, kfRun, kfPos, kfHanded, kfDecided, kfBad, kfCrashes>>
    BY <1>8 DEF AutoCommit
  <2>1. KfTyped' /\ SeenSoFar'
    BY <1>0, <2>0, CommitKeeps DEF KfTyped, SeenSoFar
  <2>2. LostByCrash'
    BY <1>0, <2>0 DEF LostByCrash, Undecided
  <2> QED BY <2>1, <2>2 DEF KfInd
<1>9. CASE CloseSource
  <2>0. /\ kfRun = "leaving" /\ kfRun' = "down"
        /\ CommitPosition \/ UNCHANGED <<kfCommitted, kfFirst>>
        /\ UNCHANGED <<kfLen, kfPos, kfHanded, kfDecided, kfBad, kfCrashes>>
    BY <1>9 DEF CloseSource
  <2>1. KfTyped' /\ SeenSoFar'
    <3>1. CASE CommitPosition
      BY <1>0, <2>0, <3>1, CommitKeeps DEF KfTyped, SeenSoFar
    <3>2. CASE UNCHANGED <<kfCommitted, kfFirst>>
      BY <1>0, <2>0, <3>2 DEF KfTyped, SeenSoFar
    <3> QED BY <2>0, <3>1, <3>2
  <2>2. LostByCrash'
    BY <1>0, <2>0 DEF LostByCrash, Undecided
  <2> QED BY <2>1, <2>2 DEF KfInd
<1>10. CASE KfCrash
  <2>0. /\ kfRun' = "down" /\ kfCrashes' = kfCrashes + 1
        /\ UNCHANGED <<kfLen, kfCommitted, kfPos, kfHanded, kfDecided, kfBad, kfFirst>>
    BY <1>10 DEF KfCrash
  <2>1. KfTyped' /\ SeenSoFar'
    BY <1>0, <2>0 DEF KfTyped, SeenSoFar
  <2>2. Undecided' = Undecided
    BY <2>0 DEF Undecided
  <2>3. Cardinality(Undecided) <= kfCrashes + 1
    <3>1. Undecided \in SUBSET kfHanded /\ Undecided \ {kfPos - 1} \in SUBSET Undecided
      BY DEF Undecided
    <3>2. /\ Cardinality(Undecided) <= Cardinality(Undecided \ {kfPos - 1}) + 1
          /\ Cardinality(Undecided \ {kfPos - 1}) \in Nat /\ Cardinality(Undecided) \in Nat
      BY <1>0, <3>1, SmallerCount
    <3>3. CASE kfRun = "deciding"
      <4>1. Cardinality(Undecided \ {kfPos - 1}) <= kfCrashes
        BY <1>0, <3>3 DEF LostByCrash
      <4> QED BY <1>0, <3>2, <4>1
    <3>4. CASE kfRun # "deciding"
      <4>1. Cardinality(Undecided) <= kfCrashes
        BY <1>0, <3>4 DEF LostByCrash
      <4> QED BY <1>0, <3>2, <4>1
    <3> QED BY <3>3, <3>4
  <2>4. LostByCrash'
    BY <2>0, <2>2, <2>3 DEF LostByCrash
  <2> QED BY <2>1, <2>4 DEF KfInd
<1> QED BY <1>1, <1>2, <1>3, <1>4, <1>5, <1>6, <1>7, <1>8, <1>9, <1>10 DEF KfNext

\* They give the property.
LEMMA KfIndKept == KfInd => NoMessagePassedOver
<1> SUFFICES ASSUME KfInd PROVE NoMessagePassedOver
  OBVIOUS
<1>0. KfTyped /\ SeenSoFar /\ LostByCrash /\ kfCrashes \in Nat
  BY DEF KfInd, KfTyped
<1>1. kfCommitted # NoOffset => kfFirst..(kfCommitted - 1) \subseteq kfHanded \cup kfBad
  BY <1>0, AheadNat DEF KfTyped, SeenSoFar, NoOffset
<1>2. Cardinality((kfHanded \cap kfFirst..(kfCommitted - 1)) \ kfDecided)
        <= kfCrashes + (IF kfRun = "deciding" THEN 1 ELSE 0)
  <2> DEFINE S == (kfHanded \cap kfFirst..(kfCommitted - 1)) \ kfDecided
  <2>1. /\ Undecided \in SUBSET kfHanded /\ S \in SUBSET Undecided
        /\ Undecided \ {kfPos - 1} \in SUBSET Undecided
    BY DEF Undecided
  <2>2. /\ Cardinality(S) <= Cardinality(Undecided) /\ Cardinality(S) \in Nat
        /\ Cardinality(Undecided) <= Cardinality(Undecided \ {kfPos - 1}) + 1
        /\ Cardinality(Undecided \ {kfPos - 1}) \in Nat /\ Cardinality(Undecided) \in Nat
    BY <1>0, <2>1, SmallerCount
  <2> HIDE DEF S
  <2>3. CASE kfRun = "deciding"
    <3>1. Cardinality(Undecided \ {kfPos - 1}) <= kfCrashes
      BY <1>0, <2>3 DEF LostByCrash
    <3>2. Cardinality(S) <= kfCrashes + 1
      BY <1>0, <2>2, <3>1
    <3> QED BY <2>3, <3>2 DEF S
  <2>4. CASE kfRun # "deciding"
    <3>1. Cardinality(Undecided) <= kfCrashes
      BY <1>0, <2>4 DEF LostByCrash
    <3>2. Cardinality(S) <= kfCrashes + 0
      BY <1>0, <2>2, <3>1
    <3> QED BY <2>4, <3>2 DEF S
  <2> QED BY <2>3, <2>4
<1> QED BY <1>1, <1>2 DEF NoMessagePassedOver

\* For any topic and any number of runs and crashes: from the first committed offset
\* on no message is passed over unseen, and each crash costs at most one decision.
THEOREM NoMessageEverPassedOver == KfSpec => []NoMessagePassedOver
BY KfIndInit, KfIndStep, KfIndKept, PTL DEF KfSpec

\* The types of the consumer follow.
LEMMA KfIndTypes == KfInd => KfTypeOK
BY AheadNat DEF KfInd, KfTyped, KfTypeOK

-----------------------------------------------------------------------------
(* Folds along a sequence, value by value: what FoldLeft, Min and Max of    *)
(* finite sets compute, by induction over sets of numbers.                 *)

\* Induction over the natural numbers, for a property given by its set.
LEMMA NatSets ==
  ASSUME NEW P, 0 \in P, \A n \in Nat : n \in P => n + 1 \in P
  PROVE  \A n \in Nat : n \in P
<1> SUFFICES ASSUME NEW n \in Nat, n \notin P PROVE FALSE
  OBVIOUS
<1>1. PICK m \in Nat \ P : \A k \in Nat \ P : m <= k
  BY LeastPosition
<1>2. m - 1 \in Nat /\ m - 1 \in P
  BY <1>1
<1> QED BY <1>1, <1>2

\* The greatest of numbers up to n is one of them.
LEMMA MaxUpTo ==
  ASSUME NEW n \in Nat, NEW T \in SUBSET (0..n), T # {}
  PROVE  Max(T) \in T /\ \A y \in T : y <= Max(T)
<1>1. PICK m \in {k \in Nat : \E x \in T : k = n - x} : \A k \in {k \in Nat : \E x \in T : k = n - x} : m <= k
  <2>1. PICK x \in T : TRUE
    OBVIOUS
  <2>2. n - x \in {k \in Nat : \E y \in T : k = n - y}
    OBVIOUS
  <2> QED BY <2>2, LeastPosition
<1>2. PICK x \in T : m = n - x
  BY <1>1
<1>3. \A y \in T : x >= y
  <2> TAKE y \in T
  <2>1. n - y \in Nat
    OBVIOUS
  <2>2. m <= n - y
    BY <1>1, <2>1
  <2> QED BY <1>2, <2>2
<1>4. \A y \in T : Max(T) >= y /\ Max(T) \in T
  BY <1>3 DEF Max
<1> QED BY <1>4

\* The same for positions of a sequence.
LEMMA MaxOf ==
  ASSUME NEW n \in Nat, NEW T \in SUBSET (1..n), T # {}
  PROVE  Max(T) \in T /\ \A y \in T : y <= Max(T)
<1>1. T \in SUBSET (0..n)
  <2>1. \A y \in 1..n : y \in 0..n
    OBVIOUS
  <2> QED BY <2>1
<1> QED BY <1>1, MaxUpTo

FoldsTo(g, s, base, op) ==
  \A t \in SUBSET (1..Len(s)) :
     g[t] = IF t = {} THEN base ELSE op[<<g[t \ {Max(t)}], s[Max(t)]>>]

\* There is a function that goes through the sets of positions as the fold does.
LEMMA FoldExists ==
  ASSUME NEW A, NEW B, NEW base \in A, NEW op \in [A \X B -> A], NEW s \in Seq(B)
  PROVE  \E g \in [SUBSET (1..Len(s)) -> A] : FoldsTo(g, s, base, op)
<1> DEFINE Upto(n, g) == \A t \in SUBSET (1..n) :
              g[t] = IF t = {} THEN base ELSE op[<<g[t \ {Max(t)}], s[Max(t)]>>]
           Some(n) == n <= Len(s) => \E g \in [SUBSET (1..n) -> A] : Upto(n, g)
           P == {n \in Nat : Some(n)}
<1>1. Some(0)
  <2>1. [t \in SUBSET (1..0) |-> base] \in [SUBSET (1..0) -> A]
    OBVIOUS
  <2>2. \A t \in SUBSET (1..0) : t = {}
    OBVIOUS
  <2> QED BY <2>1, <2>2
<1>2. \A n \in Nat : Some(n) => Some(n + 1)
  <2> SUFFICES ASSUME NEW n \in Nat, Some(n), n + 1 <= Len(s)
               PROVE  \E g \in [SUBSET (1..(n + 1)) -> A] : Upto(n + 1, g)
    OBVIOUS
  <2>1. PICK g \in [SUBSET (1..n) -> A] : Upto(n, g)
    <3>1. n <= Len(s)
      BY LenProperties
    <3> HIDE DEF Upto
    <3> QED BY <3>1
  <2> DEFINE h == [t \in SUBSET (1..(n + 1)) |->
                     IF n + 1 \in t THEN op[<<g[t \ {n + 1}], s[n + 1]>>] ELSE g[t]]
  <2>0. s[n + 1] \in B
    OBVIOUS
  <2>2. \A t \in SUBSET (1..(n + 1)) :
          /\ t \ {n + 1} \in SUBSET (1..n)
          /\ n + 1 \notin t => t \in SUBSET (1..n)
    OBVIOUS
  <2>3. h \in [SUBSET (1..(n + 1)) -> A]
    BY <2>0, <2>2
  <2>4. \A t \in SUBSET (1..n) : h[t] = g[t] /\ n + 1 \notin t
    OBVIOUS
  <2>5. Upto(n + 1, h)
    <3> SUFFICES ASSUME NEW t \in SUBSET (1..(n + 1))
                 PROVE  h[t] = IF t = {} THEN base ELSE op[<<h[t \ {Max(t)}], s[Max(t)]>>]
      OBVIOUS
    <3>1. CASE n + 1 \in t
      <4>1. Max(t) = n + 1
        <5>1. n + 1 \in Nat /\ t # {}
          BY <3>1
        <5>2. Max(t) \in t /\ n + 1 <= Max(t)
          BY <3>1, <5>1, MaxOf
        <5>3. \A y \in t : y \in Int /\ y <= n + 1
          OBVIOUS
        <5>4. Max(t) \in Int /\ Max(t) <= n + 1
          BY <5>2, <5>3
        <5> QED BY <5>2, <5>4
      <4>2. t \ {n + 1} \in SUBSET (1..n)
        BY <2>2
      <4>3. h[t \ {n + 1}] = g[t \ {n + 1}]
        BY <4>2, <2>4
      <4>4. h[t] = op[<<g[t \ {n + 1}], s[n + 1]>>]
        BY <3>1
      <4> HIDE DEF h
      <4> QED BY <3>1, <4>1, <4>3, <4>4
    <3>2. CASE n + 1 \notin t
      <4>1. t \in SUBSET (1..n)
        BY <2>2, <3>2
      <4>2. h[t] = g[t]
        BY <4>1, <2>4
      <4>3. t # {} => h[t \ {Max(t)}] = g[t \ {Max(t)}]
        BY <4>1, <2>4
      <4> HIDE DEF h
      <4> QED BY <2>1, <4>1, <4>2, <4>3
    <3> QED BY <3>1, <3>2
  <2> HIDE DEF h
  <2> QED BY <2>3, <2>5
<1> HIDE DEF Some
<1>3. 0 \in P /\ \A n \in Nat : n \in P => n + 1 \in P
  BY <1>1, <1>2
<1> HIDE DEF P
<1>4. Len(s) \in P /\ Len(s) <= Len(s)
  BY <1>3, NatSets, LenProperties
<1> QED BY <1>4 DEF FoldsTo, P, Some

\* The recursion as long as it stays within A.
FoldsWithin(g, s, A, base, op) ==
  /\ g[{}] = base
  /\ \A t \in SUBSET (1..Len(s)) :
       t # {} /\ g[t \ {Max(t)}] \in A => g[t] = op[<<g[t \ {Max(t)}], s[Max(t)]>>]

\* v is the last of the values h that a fold has along s.
FoldValue(v, s, A, base, op) ==
  \E h \in [0..Len(s) -> A] :
    /\ h[0] = base
    /\ \A n \in 1..Len(s) : h[n] = op[<<h[n - 1], s[n]>>]
    /\ v = h[Len(s)]

\* What satisfies the recursion has the values of the fold along the sequence.
LEMMA FoldSteps ==
  ASSUME NEW A, NEW B, NEW base \in A, NEW op \in [A \X B -> A], NEW s \in Seq(B),
         NEW g, FoldsWithin(g, s, A, base, op)
  PROVE  FoldValue(g[1..Len(s)], s, A, base, op)
<1>0. Len(s) \in Nat /\ 1..0 = {} /\ {} \in SUBSET (1..Len(s))
  BY LenProperties
<1>1. g[1..0] = base
  BY <1>0 DEF FoldsWithin
<1>2. \A n \in 1..Len(s) : g[1..(n - 1)] \in A => g[1..n] = op[<<g[1..(n - 1)], s[n]>>]
  <2> TAKE n \in 1..Len(s)
  <2>0. n \in Nat /\ n <= Len(s) /\ 1..n \in SUBSET (1..n) /\ n \in 1..n
    BY <1>0
  <2>1. Max(1..n) = n
    <3>1. 1..n # {}
      BY <2>0
    <3>2. Max(1..n) \in 1..n /\ n <= Max(1..n)
      BY <2>0, <3>1, MaxOf
    <3> QED BY <3>2
  <2>2. (1..n) \ {n} = 1..(n - 1)
    OBVIOUS
  <2>3. 1..n \in SUBSET (1..Len(s)) /\ 1..n # {}
    <3>1. \A k \in 1..n : k \in 1..Len(s)
      BY <1>0, <2>0
    <3> QED BY <2>0, <3>1
  <2> QED BY <2>1, <2>2, <2>3 DEF FoldsWithin
<1> DEFINE Good(n) == n <= Len(s) => g[1..n] \in A
           P == {n \in Nat : Good(n)}
           h == [n \in 0..Len(s) |-> g[1..n]]
<1>3. Good(0)
  BY <1>1
<1>4. \A n \in Nat : Good(n) => Good(n + 1)
  <2> SUFFICES ASSUME NEW n \in Nat, Good(n), n + 1 <= Len(s) PROVE g[1..(n + 1)] \in A
    OBVIOUS
  <2>1. n + 1 \in 1..Len(s) /\ (n + 1) - 1 = n /\ s[n + 1] \in B
    BY <1>0
  <2>2. g[1..n] \in A
    BY <1>0, <2>1
  <2>3. g[1..(n + 1)] = op[<<g[1..n], s[n + 1]>>]
    BY <1>2, <2>1, <2>2
  <2> QED BY <2>1, <2>2, <2>3
<1> HIDE DEF Good
<1>5. 0 \in P /\ \A n \in Nat : n \in P => n + 1 \in P
  BY <1>3, <1>4
<1> HIDE DEF P
<1>6. \A n \in Nat : n \in P
  BY <1>5, NatSets
<1>7. \A n \in 0..Len(s) : g[1..n] \in A
  BY <1>0, <1>6 DEF P, Good
<1>8. h \in [0..Len(s) -> A] /\ h[0] = base /\ g[1..Len(s)] = h[Len(s)]
  BY <1>0, <1>1, <1>7
<1>9. \A n \in 1..Len(s) : h[n] = op[<<h[n - 1], s[n]>>]
  <2> TAKE n \in 1..Len(s)
  <2>1. n \in 0..Len(s) /\ n - 1 \in 0..Len(s)
    BY <1>0
  <2> QED BY <1>2, <1>7, <2>1
<1> HIDE DEF h
<1> QED BY <1>8, <1>9 DEF FoldValue

\* The positions a fold looks at.
LEMMA FoldPlaces ==
  ASSUME NEW B, NEW s \in Seq(B), NEW t \in SUBSET (1..Len(s)), t # {}
  PROVE  t \ {Max(t)} \in SUBSET (1..Len(s)) /\ Max(t) \in 1..Len(s) /\ s[Max(t)] \in B
<1>1. Len(s) \in Nat /\ \A i \in 1..Len(s) : s[i] \in B
  BY LenProperties
<1>2. Max(t) \in t
  BY <1>1, MaxOf
<1> QED BY <1>1, <1>2

-----------------------------------------------------------------------------
(* Connectors.                                                             *)

\* The places after and before one that is not the last.
LEMMA NextPlace ==
  ASSUME NEW n \in Nat, NEW m \in Nat, n + 1 <= m
  PROVE  /\ n + 1 \in 1..m /\ n \in 0..m /\ (n + 1) - 1 = n /\ n <= m /\ n # m
         /\ n > 0 => n \in 1..m
OBVIOUS

Line == [of : 1..Len(Schemas), schema : STRING, torn : BOOLEAN]
ReplayResult == [yielded : Seq(1..Len(Schemas)), ended : {"end", "raised"}, len : Nat]

\* A replay, line by line: what the source has yielded after each.
LEMMA ReplaySteps ==
  ASSUME NEW s \in Seq(Line)
  PROVE  \E h \in [0..Len(s) -> ReplayResult] :
           /\ h[0] = [yielded |-> <<>>, ended |-> "end", len |-> Len(s)]
           /\ \A n \in 1..Len(s) : h[n] = ReplayLine(h[n - 1], s[n])
           /\ Replayed(s) = h[Len(s)]
<1> DEFINE op == [p \in ReplayResult \X Line |-> ReplayLine(p[1], p[2])]
           base == [yielded |-> <<>>, ended |-> "end", len |-> Len(s)]
           body(it) == [t \in SUBSET (1..Len(s)) |->
                     IF t = {} THEN base ELSE ReplayLine(it[t \ {Max(t)}], s[Max(t)])]
           iter == CHOOSE it : it = body(it)
<1>0. Len(s) \in Nat /\ DOMAIN s = 1..Len(s)
  BY LenProperties
<1>1. base \in ReplayResult /\ op \in [ReplayResult \X Line -> ReplayResult]
  <2>1. ASSUME NEW r \in ReplayResult, NEW l \in Line PROVE ReplayLine(r, l) \in ReplayResult
    <3>1. [r EXCEPT !.ended = "raised"] \in ReplayResult
      BY DEF ReplayResult
    <3>2. Append(r.yielded, l.of) \in Seq(1..Len(Schemas))
      BY DEF ReplayResult, Line
    <3>3. [r EXCEPT !.yielded = Append(r.yielded, l.of)] \in ReplayResult
      BY <3>2 DEF ReplayResult
    <3> QED BY <3>1, <3>3 DEF ReplayLine
  <2> QED BY <1>0, <2>1 DEF ReplayResult
<1>2. \A r \in ReplayResult, l \in Line : op[<<r, l>>] = ReplayLine(r, l)
  OBVIOUS
<1> HIDE DEF op, base
<1>3. PICK g \in [SUBSET (1..Len(s)) -> ReplayResult] : FoldsTo(g, s, base, op)
  BY <1>1, FoldExists
<1>4. g = body(g)
  <2>1. \A t \in SUBSET (1..Len(s)) :
          g[t] = IF t = {} THEN base ELSE ReplayLine(g[t \ {Max(t)}], s[Max(t)])
    BY <1>2, <1>3, FoldPlaces DEF FoldsTo
  <2> QED BY <2>1
<1>5. iter = body(iter)
  BY <1>4
<1>6. Replayed(s) = iter[1..Len(s)]
  BY <1>0 DEF Replayed, FoldLeft, MapThenFoldSet, base
<1> HIDE DEF iter
<1>7. FoldsWithin(iter, s, ReplayResult, base, op)
  <2>1. \A t \in SUBSET (1..Len(s)) :
          iter[t] = IF t = {} THEN base ELSE ReplayLine(iter[t \ {Max(t)}], s[Max(t)])
    BY <1>5
  <2> HIDE DEF body
  <2> QED BY <1>2, <2>1, FoldPlaces DEF FoldsWithin
<1> HIDE DEF body
<1>8. FoldValue(iter[1..Len(s)], s, ReplayResult, base, op)
  BY <1>1, <1>7, FoldSteps
<1>9. PICK h \in [0..Len(s) -> ReplayResult] :
        /\ h[0] = base
        /\ \A n \in 1..Len(s) : h[n] = op[<<h[n - 1], s[n]>>]
        /\ Replayed(s) = h[Len(s)]
  BY <1>6, <1>8 DEF FoldValue
<1>10. \A n \in 1..Len(s) : h[n] = ReplayLine(h[n - 1], s[n])
  <2> TAKE n \in 1..Len(s)
  <2>1. h[n - 1] \in ReplayResult /\ s[n] \in Line
    BY <1>0, <1>9
  <2> QED BY <1>2, <1>9, <2>1
<1> QED BY <1>9, <1>10 DEF base

\* y is the telemetry of the first n lines of f, in their order.
Shows(y, f, n) ==
  /\ ToSet(y) = {f[i].of : i \in {i \in 1..n : f[i].schema = "telemetry"}}
  /\ \A a, b \in DOMAIN y : a < b =>
       \E i, j \in 1..n : i < j /\ f[i].of = y[a] /\ f[j].of = y[b]

\* One more line of the file, and what was yielded shows that line too.
LEMMA ShowsNext ==
  ASSUME NEW T, NEW y \in Seq(T), NEW f, NEW n \in Nat, Shows(y, f, n), f[n + 1].of \in T,
         NEW z \in {y, Append(y, f[n + 1].of)},
         z = y <=> f[n + 1].schema # "telemetry"
  PROVE  Shows(z, f, n + 1)
<1>1. 1..(n + 1) = (1..n) \cup {n + 1}
  OBVIOUS
<1>2. CASE z = y
  BY <1>1, <1>2 DEF Shows
<1>3. CASE z = Append(y, f[n + 1].of) /\ z # y
  <2>1. /\ Len(y) \in Nat /\ DOMAIN y = 1..Len(y) /\ DOMAIN z = 1..(Len(y) + 1)
        /\ \A a \in 1..Len(y) : z[a] = y[a]
        /\ z[Len(y) + 1] = f[n + 1].of
    BY <1>3
  <2>2. ToSet(z) = ToSet(y) \cup {f[n + 1].of}
    <3>1. DOMAIN z = DOMAIN y \cup {Len(y) + 1}
      BY <2>1
    <3> QED BY <2>1, <3>1 DEF ToSet
  <2>3. ToSet(z) = {f[i].of : i \in {i \in 1..(n + 1) : f[i].schema = "telemetry"}}
    BY <1>1, <1>3, <2>2 DEF Shows
  <2>4. ASSUME NEW a \in DOMAIN z, NEW b \in DOMAIN z, a < b
        PROVE  \E i, j \in 1..(n + 1) : i < j /\ f[i].of = z[a] /\ f[j].of = z[b]
    <3>1. CASE b # Len(y) + 1
      <4>1. a \in DOMAIN y /\ b \in DOMAIN y
        BY <2>1, <2>4, <3>1
      <4> QED BY <1>1, <2>1, <2>4, <4>1 DEF Shows
    <3>2. CASE b = Len(y) + 1
      <4>1. a \in DOMAIN y /\ z[a] \in ToSet(y)
        BY <2>1, <2>4, <3>2 DEF ToSet
      <4>2. PICK i \in 1..n : f[i].of = z[a]
        BY <4>1 DEF Shows
      <4> QED BY <1>1, <2>1, <3>2, <4>2
    <3> QED BY <3>1, <3>2
  <2> QED BY <2>3, <2>4 DEF Shows
<1> QED BY <1>2, <1>3

\* Lines added at the end of the file change nothing that was shown.
LEMMA ShowsKept ==
  ASSUME NEW y, NEW f, NEW g, NEW n \in Nat, Shows(y, f, n),
         \A i \in 1..n : g[i].of = f[i].of /\ g[i].schema = f[i].schema
  PROVE  Shows(y, g, n)
<1>1. {g[i].of : i \in {i \in 1..n : g[i].schema = "telemetry"}}
        = {f[i].of : i \in {i \in 1..n : f[i].schema = "telemetry"}}
  OBVIOUS
<1>2. \A a, b \in DOMAIN y : a < b =>
        \E i, j \in 1..n : i < j /\ g[i].of = y[a] /\ g[j].of = y[b]
  BY DEF Shows
<1> QED BY <1>1, <1>2 DEF Shows

ThroughTo(r) == IF r.ended = "raised" THEN r.len - 1 ELSE r.len

TornLast(s) == \A i \in DOMAIN s : s[i].torn => i = Len(s)

\* A replay shows the lines before the first torn one, in their order.
LEMMA ReplayShows ==
  ASSUME NEW s \in Seq(Line), TornLast(s)
  PROVE  /\ Replayed(s) \in ReplayResult /\ Replayed(s).len = Len(s)
         /\ ThroughTo(Replayed(s)) \in 0..Len(s)
         /\ Shows(Replayed(s).yielded, s, ThroughTo(Replayed(s)))
<1>0. Len(s) \in Nat /\ DOMAIN s = 1..Len(s) /\ \A i \in 1..Len(s) : s[i] \in Line
  BY LenProperties
<1>1. PICK h \in [0..Len(s) -> ReplayResult] :
        /\ h[0] = [yielded |-> <<>>, ended |-> "end", len |-> Len(s)]
        /\ \A n \in 1..Len(s) : h[n] = ReplayLine(h[n - 1], s[n])
        /\ Replayed(s) = h[Len(s)]
  BY ReplaySteps
<1> DEFINE Good(n) == /\ h[n].ended = "end" /\ h[n].len = Len(s)
                      /\ Shows(h[n].yielded, s, n)
           Q(n) == n <= Len(s) /\ (n > 0 => ~s[n].torn) => Good(n)
           P == {n \in Nat : Q(n)}
<1>2. Q(0)
  <2>1. Shows(<<>>, s, 0)
    BY DEF Shows, ToSet
  <2> QED BY <1>1, <2>1
<1>3. ASSUME NEW n \in Nat, Q(n), n + 1 <= Len(s)
      PROVE  Good(n) /\ (~s[n + 1].torn => Good(n + 1))
  <2>0. n \in Nat /\ n + 1 <= Len(s)
    BY <1>3
  <2>1. /\ n + 1 \in 1..Len(s) /\ n \in 0..Len(s) /\ (n + 1) - 1 = n
        /\ n <= Len(s) /\ n # Len(s) /\ (n > 0 => n \in DOMAIN s)
    <3>1. Len(s) \in Nat /\ DOMAIN s = 1..Len(s)
      BY <1>0
    <3> QED BY <2>0, <3>1, NextPlace
  <2>2. n > 0 => ~s[n].torn
    BY <2>1 DEF TornLast
  <2>3. Good(n)
    BY <1>3, <2>1, <2>2
  <2>4. CASE ~s[n + 1].torn
    <3>1. h[n + 1] = IF s[n + 1].schema # "telemetry" THEN h[n]
                     ELSE [h[n] EXCEPT !.yielded = Append(h[n].yielded, s[n + 1].of)]
      BY <1>1, <2>1, <2>3, <2>4 DEF ReplayLine
    <3>2. h[n] \in ReplayResult /\ s[n + 1] \in Line
      BY <1>0, <1>1, <2>1
    <3>3. h[n + 1].ended = "end" /\ h[n + 1].len = Len(s)
      BY <2>3, <3>1, <3>2 DEF ReplayResult
    <3>4. h[n + 1].yielded = IF s[n + 1].schema # "telemetry" THEN h[n].yielded
                             ELSE Append(h[n].yielded, s[n + 1].of)
      BY <3>1, <3>2 DEF ReplayResult
    <3>5. h[n].yielded \in Seq(1..Len(Schemas)) /\ s[n + 1].of \in 1..Len(Schemas)
      BY <3>2 DEF ReplayResult, Line
    <3>6. Append(h[n].yielded, s[n + 1].of) # h[n].yielded
      BY <3>5
    <3>7. Shows(h[n + 1].yielded, s, n + 1)
      BY <2>3, <3>4, <3>5, <3>6, ShowsNext
    <3> QED BY <2>3, <2>4, <3>3, <3>7
  <2> QED BY <2>3, <2>4
<1>4. \A n \in Nat : Q(n) => Q(n + 1)
  BY <1>3
<1> HIDE DEF Q
<1>5. 0 \in P /\ \A n \in Nat : n \in P => n + 1 \in P
  BY <1>2, <1>4
<1> HIDE DEF P
<1>6. \A n \in Nat : Q(n)
  <2>1. \A n \in Nat : n \in P
    BY <1>5, NatSets
  <2> QED BY <2>1 DEF P
<1>7. Replayed(s) \in ReplayResult
  BY <1>0, <1>1
<1>8. CASE Len(s) = 0 \/ ~s[Len(s)].torn
  <2>1. Good(Len(s))
    BY <1>0, <1>6, <1>8 DEF Q
  <2> QED BY <1>0, <1>1, <1>7, <2>1 DEF ThroughTo
<1>9. CASE Len(s) # 0 /\ s[Len(s)].torn
  <2> DEFINE m == Len(s) - 1
  <2>1. m \in Nat /\ m + 1 = Len(s) /\ m \in 0..Len(s) /\ Len(s) \in 1..Len(s)
    BY <1>0, <1>9
  <2>2. Good(m)
    BY <1>3, <1>6, <2>1
  <2>3. h[Len(s)] = [h[m] EXCEPT !.ended = "raised"] /\ h[m] \in ReplayResult
    BY <1>1, <1>9, <2>1, <2>2 DEF ReplayLine
  <2>4. h[Len(s)].ended = "raised" /\ h[Len(s)].len = Len(s)
        /\ h[Len(s)].yielded = h[m].yielded
    BY <2>2, <2>3 DEF ReplayResult
  <2> QED BY <1>0, <1>1, <1>7, <2>1, <2>2, <2>4 DEF ThroughTo
<1> QED BY <1>0, <1>8, <1>9

-----------------------------------------------------------------------------
CnTyped ==
  /\ cnState \in [{"sink", "source"} -> {"init", "started", "degraded", "stopped"}]
  /\ cnFile \in Seq(Line)
  /\ cnWritten \in 0..Len(Schemas) /\ cnTask \in [Writers -> 0..cnWritten]
  /\ cnLock \in SUBSET Writers
  /\ cnOut.yielded \in Seq(1..Len(Schemas)) /\ cnOut.len \in Nat
  /\ htTry \in [made : Nat, is : {"calling", "returned", "raised"}] /\ htGot \in Nat

\* Who holds the lock writes the last line, and each message is one task's.
CnWriting ==
  /\ \A w, v \in cnLock : w = v
  /\ \A w \in cnLock : /\ cnTask[w] # 0 /\ cnFile # <<>>
                       /\ cnFile[Len(cnFile)].of = cnTask[w]
  /\ \A w, v \in Writers : cnTask[w] = cnTask[v] /\ cnTask[w] # 0 => w = v
  /\ \A i \in DOMAIN cnFile : cnFile[i].of <= cnWritten
  /\ \A w \in Writers : cnTask[w] # 0 /\ w \notin cnLock =>
       \A i \in DOMAIN cnFile : cnFile[i].of # cnTask[w]

CnFileWhole ==
  /\ \A i, j \in DOMAIN cnFile : cnFile[i].of = cnFile[j].of => i = j
  /\ \A i \in DOMAIN cnFile : cnFile[i].torn => i = Len(cnFile) /\ cnLock # {}
  /\ cnDone \subseteq {cnFile[i].of : i \in DOMAIN cnFile}

CnShown == ThroughTo(cnOut) \in 0..Len(cnFile) /\ Shows(cnOut.yielded, cnFile, ThroughTo(cnOut))

CnRetry == htTry.is = "calling" => htTry.made = 0 \/ htTry.made < MaxAttempts

CnInd == CnTyped /\ CnWriting /\ CnFileWhole /\ CnShown /\ RetryAccounted /\ CnRetry

\* It holds when nothing has been written.
LEMMA CnIndInit == CnInit => CnInd
<1> SUFFICES ASSUME CnInit PROVE CnInd
  OBVIOUS
<1>1. Len(Schemas) \in Nat
  BY ConnectorsAssumption
<1>2. Shows(<<>>, <<>>, 0)
  BY DEF Shows, ToSet
<1>3. CnTyped /\ CnWriting /\ CnFileWhole
  BY <1>1 DEF CnInit, CnTyped, CnWriting, CnFileWhole, NoReplay
<1>4. CnShown
  BY <1>2 DEF CnInit, CnShown, ThroughTo, NoReplay
<1>5. RetryAccounted /\ CnRetry
  BY ConnectorsAssumption DEF CnInit, RetryAccounted, CnRetry
<1> QED BY <1>3, <1>4, <1>5 DEF CnInd

\* It is kept by each step of a writer, of the reader and of a delivery.
LEMMA CnIndStep == CnInd /\ [CnNext]_cnVars => CnInd'
<1> SUFFICES ASSUME CnInd, [CnNext]_cnVars PROVE CnInd'
  OBVIOUS
<1>0. /\ Len(Schemas) \in Nat /\ MaxAttempts \in Nat /\ \A i \in 1..Len(Schemas) : Schemas[i] \in STRING
      /\ Len(cnFile) \in Nat /\ DOMAIN cnFile = 1..Len(cnFile)
  BY ConnectorsAssumption DEF CnInd, CnTyped
<1> USE DEF CnInd
<1>1. ASSUME UNCHANGED fileVars PROVE (CnTyped /\ CnWriting /\ CnFileWhole /\ CnShown)' \/ ~(htTry' \in [made : Nat, is : {"calling", "returned", "raised"}] /\ htGot' \in Nat)
  BY <1>1 DEF CnTyped, CnWriting, CnFileWhole, CnShown, fileVars, ThroughTo, Shows
<1>2. ASSUME UNCHANGED httpVars PROVE (RetryAccounted /\ CnRetry)'
  BY <1>2 DEF httpVars, RetryAccounted, CnRetry
<1>3. CASE UNCHANGED cnVars
  BY <1>1, <1>2, <1>3 DEF cnVars, fileVars, httpVars, CnTyped
<1>4. ASSUME NEW c \in {"sink", "source"}, Connect(c) \/ CloseConnector(c) PROVE CnInd'
  <2>1. UNCHANGED <<cnFile, cnLock, cnTask, cnWritten, cnDone, cnOut, httpVars>>
    BY <1>4 DEF Connect, CloseConnector
  <2>2. cnState' \in [{"sink", "source"} -> {"init", "started", "degraded", "stopped"}]
    BY <1>4 DEF Connect, CloseConnector, CnTyped
  <2>3. CnTyped' /\ CnWriting' /\ CnFileWhole'
    BY <2>1, <2>2 DEF CnTyped, CnWriting, CnFileWhole, httpVars
  <2>4. CnShown'
    BY <2>1 DEF CnShown, ThroughTo, Shows
  <2> QED BY <1>2, <2>1, <2>3, <2>4
<1>5. ASSUME NEW w \in Writers, WriteMessage(w) PROVE CnInd'
  <2>1. /\ UNCHANGED <<cnState, cnFile, cnLock, cnDone, cnOut, httpVars>>
        /\ cnWritten' = cnWritten + 1 /\ cnWritten' \in 0..Len(Schemas)
        /\ cnTask' = [cnTask EXCEPT ![w] = cnWritten + 1] /\ cnTask[w] = 0
    BY <1>0, <1>5 DEF WriteMessage, CnTyped
  <2>2. CnTyped'
    BY <2>1 DEF CnTyped, httpVars
  <2>3. CnWriting'
    <3>1. \A v \in Writers : /\ v # w => cnTask'[v] = cnTask[v] /\ cnTask[v] <= cnWritten
                             /\ v = w => cnTask'[v] = cnWritten + 1
      BY <2>1 DEF CnTyped
    <3>2. w \notin cnLock /\ cnWritten \in Nat
      BY <2>1 DEF CnWriting, CnTyped
    <3>3. \A i \in DOMAIN cnFile : cnFile[i].of <= cnWritten /\ cnFile[i].of \in Int
      <4>1. \A i \in DOMAIN cnFile : cnFile[i] \in Line
        BY <1>0 DEF CnTyped
      <4> QED BY <1>0, <4>1 DEF CnWriting, Line
    <3>4. \A v, u \in Writers : cnTask'[v] = cnTask'[u] /\ cnTask'[v] # 0 => v = u
      BY <3>1, <3>2 DEF CnWriting, CnTyped
    <3>5. \A v \in cnLock : /\ cnTask'[v] # 0 /\ cnFile # <<>>
                            /\ cnFile[Len(cnFile)].of = cnTask'[v]
      BY <3>1, <3>2 DEF CnWriting, CnTyped
    <3>6. \A i \in DOMAIN cnFile : cnFile[i].of <= cnWritten + 1
      BY <3>2, <3>3
    <3>7. \A v \in Writers : cnTask'[v] # 0 /\ v \notin cnLock =>
            \A i \in DOMAIN cnFile : cnFile[i].of # cnTask'[v]
      BY <3>1, <3>2, <3>3 DEF CnWriting
    <3> QED BY <2>1, <3>4, <3>5, <3>6, <3>7 DEF CnWriting
  <2>4. CnFileWhole'
    BY <2>1 DEF CnFileWhole
  <2>5. CnShown'
    BY <2>1 DEF CnShown, ThroughTo, Shows
  <2> QED BY <1>2, <2>1, <2>2, <2>3, <2>4, <2>5
<1>6. ASSUME NEW w \in Writers, TakeFile(w) PROVE CnInd'
  <2> DEFINE l == [of |-> cnTask[w], schema |-> Schemas[cnTask[w]], torn |-> TRUE]
  <2>1. /\ UNCHANGED <<cnState, cnTask, cnWritten, cnDone, cnOut, httpVars>>
        /\ cnTask[w] # 0 /\ cnLock = {} /\ cnLock' = {w}
        /\ cnFile' = Append(cnFile, l)
    BY <1>6 DEF TakeFile
  <2>2. cnTask[w] \in 1..Len(Schemas) /\ cnTask[w] <= cnWritten
    BY <1>0, <2>1 DEF CnTyped
  <2>3. l \in Line /\ l.of = cnTask[w]
    BY <1>0, <2>2 DEF Line
  <2> HIDE DEF l
  <2>4. /\ cnFile' \in Seq(Line) /\ Len(cnFile') = Len(cnFile) + 1
        /\ DOMAIN cnFile' = 1..(Len(cnFile) + 1)
        /\ cnFile'[Len(cnFile) + 1] = l
        /\ \A i \in 1..Len(cnFile) : cnFile'[i] = cnFile[i]
    BY <1>0, <2>1, <2>3 DEF CnTyped
  <2>5. CnTyped'
    BY <2>1, <2>4 DEF CnTyped, httpVars
  <2>6. CnWriting'
    <3>1. \A i \in DOMAIN cnFile' : cnFile'[i].of <= cnWritten'
      BY <1>0, <2>1, <2>2, <2>3, <2>4 DEF CnWriting
    <3>2. \A v \in Writers : cnTask'[v] # 0 /\ v \notin cnLock' =>
            \A i \in DOMAIN cnFile' : cnFile'[i].of # cnTask'[v]
      BY <1>0, <2>1, <2>3, <2>4 DEF CnWriting
    <3>3. cnFile' # <<>>
      BY <1>0, <2>4
    <3> QED BY <2>1, <2>3, <2>4, <3>1, <3>2, <3>3 DEF CnWriting
  <2>7. CnFileWhole'
    <3>1. \A i \in DOMAIN cnFile : ~cnFile[i].torn /\ cnFile[i].of # cnTask[w]
      BY <2>1 DEF CnFileWhole, CnWriting
    <3>2. \A i, j \in DOMAIN cnFile' : cnFile'[i].of = cnFile'[j].of => i = j
      BY <1>0, <2>3, <2>4, <3>1 DEF CnFileWhole
    <3>3. \A i \in DOMAIN cnFile' : cnFile'[i].torn => i = Len(cnFile') /\ cnLock' # {}
      BY <1>0, <2>1, <2>4, <3>1
    <3>4. cnDone' \subseteq {cnFile'[i].of : i \in DOMAIN cnFile'}
      BY <1>0, <2>1, <2>4 DEF CnFileWhole
    <3> QED BY <3>2, <3>3, <3>4 DEF CnFileWhole
  <2>8. CnShown'
    <3>1. ThroughTo(cnOut) \in 0..Len(cnFile) /\ Shows(cnOut.yielded, cnFile, ThroughTo(cnOut))
      BY DEF CnShown
    <3>2. \A i \in 1..ThroughTo(cnOut) : cnFile'[i].of = cnFile[i].of /\ cnFile'[i].schema = cnFile[i].schema
      BY <1>0, <2>4, <3>1
    <3>3. Shows(cnOut.yielded, cnFile', ThroughTo(cnOut))
      BY <1>0, <3>1, <3>2, ShowsKept
    <3> QED BY <1>0, <2>1, <2>4, <3>1, <3>3 DEF CnShown, ThroughTo
  <2> QED BY <1>2, <2>1, <2>5, <2>6, <2>7, <2>8
<1>7. ASSUME NEW w \in Writers, LineWritten(w) PROVE CnInd'
  <2>1. /\ UNCHANGED <<cnState, cnWritten, cnOut, httpVars>>
        /\ w \in cnLock /\ cnLock' = cnLock \ {w} /\ cnLock' = {}
        /\ cnTask' = [cnTask EXCEPT ![w] = 0]
        /\ cnDone' = cnDone \cup {cnTask[w]}
        /\ cnFile' = [i \in DOMAIN cnFile |-> IF i = Len(cnFile) THEN [cnFile[i] EXCEPT !.torn = FALSE]
                                              ELSE cnFile[i]]
    BY <1>7 DEF LineWritten, CnWriting
  <2>2. /\ \A i \in 1..Len(cnFile) : cnFile[i] \in Line
        /\ cnFile # <<>> /\ cnFile[Len(cnFile)].of = cnTask[w] /\ Len(cnFile) \in 1..Len(cnFile)
    BY <1>0, <2>1 DEF CnTyped, CnWriting
  <2>3. /\ cnFile' \in [1..Len(cnFile) -> Line]
        /\ \A i \in 1..Len(cnFile) :
             /\ cnFile'[i].of = cnFile[i].of /\ cnFile'[i].schema = cnFile[i].schema
             /\ cnFile'[i].torn = (i # Len(cnFile) /\ cnFile[i].torn)
    BY <1>0, <2>1, <2>2 DEF Line
  <2>4. cnFile' \in Seq(Line) /\ DOMAIN cnFile' = 1..Len(cnFile) /\ Len(cnFile') = Len(cnFile)
    <3> DEFINE m == Len(cnFile)
    <3>1. m \in Nat /\ cnFile' \in [1..m -> Line]
      BY <1>0, <2>3
    <3> HIDE DEF m
    <3>2. cnFile' \in Seq(Line) /\ DOMAIN cnFile' = 1..m
      BY <3>1
    <3>3. Len(cnFile') = m
      BY <3>1, <3>2, LenProperties
    <3> QED BY <3>2, <3>3 DEF m
  <2>5. CnTyped'
    BY <2>1, <2>4 DEF CnTyped, httpVars
  <2>6. CnWriting'
    <3>1. \A i \in DOMAIN cnFile' : cnFile'[i].of <= cnWritten'
      BY <1>0, <2>1, <2>3, <2>4 DEF CnWriting
    <3>2. \A v \in Writers : cnTask'[v] # 0 => v # w /\ v \notin cnLock /\ cnTask'[v] = cnTask[v]
      BY <2>1 DEF CnTyped, CnWriting
    <3>3. \A v \in Writers : cnTask'[v] # 0 =>
            \A i \in DOMAIN cnFile' : cnFile'[i].of # cnTask'[v]
      BY <1>0, <2>3, <2>4, <3>2 DEF CnWriting
    <3> QED BY <2>1, <3>1, <3>2, <3>3 DEF CnWriting
  <2>7. CnFileWhole'
    <3>1. \A i, j \in DOMAIN cnFile' : cnFile'[i].of = cnFile'[j].of => i = j
      BY <1>0, <2>3, <2>4 DEF CnFileWhole
    <3>2. \A i \in DOMAIN cnFile' : ~cnFile'[i].torn
      BY <1>0, <2>3, <2>4 DEF CnFileWhole
    <3>3. cnDone' \subseteq {cnFile'[i].of : i \in DOMAIN cnFile'}
      BY <1>0, <2>1, <2>2, <2>3, <2>4 DEF CnFileWhole
    <3> QED BY <3>1, <3>2, <3>3 DEF CnFileWhole
  <2>8. CnShown'
    <3>1. ThroughTo(cnOut) \in 0..Len(cnFile) /\ Shows(cnOut.yielded, cnFile, ThroughTo(cnOut))
      BY DEF CnShown
    <3>2. \A i \in 1..ThroughTo(cnOut) : cnFile'[i].of = cnFile[i].of /\ cnFile'[i].schema = cnFile[i].schema
      <4>1. \A i \in 1..ThroughTo(cnOut) : i \in 1..Len(cnFile)
        BY <1>0, <3>1
      <4> QED BY <2>3, <4>1
    <3>3. Shows(cnOut.yielded, cnFile', ThroughTo(cnOut))
      BY <1>0, <3>1, <3>2, ShowsKept
    <3> QED BY <1>0, <2>1, <2>4, <3>1, <3>3 DEF CnShown, ThroughTo
  <2> QED BY <1>2, <2>1, <2>5, <2>6, <2>7, <2>8
<1>8. ASSUME ReplayFile PROVE CnInd'
  <2>1. UNCHANGED <<cnState, cnFile, cnLock, cnTask, cnWritten, cnDone, httpVars>>
        /\ cnOut' = Replayed(cnFile)
    BY <1>8 DEF ReplayFile
  <2>2. /\ Replayed(cnFile) \in ReplayResult /\ Replayed(cnFile).len = Len(cnFile)
        /\ ThroughTo(Replayed(cnFile)) \in 0..Len(cnFile)
        /\ Shows(Replayed(cnFile).yielded, cnFile, ThroughTo(Replayed(cnFile)))
    <3>1. cnFile \in Seq(Line) /\ TornLast(cnFile)
      BY DEF CnTyped, CnFileWhole, TornLast
    <3> QED BY <3>1, ReplayShows
  <2>3. CnTyped' /\ CnWriting' /\ CnFileWhole'
    BY <2>1, <2>2 DEF CnTyped, CnWriting, CnFileWhole, httpVars, ReplayResult
  <2>4. CnShown'
    BY <2>1, <2>2 DEF CnShown, ThroughTo
  <2> QED BY <1>2, <2>1, <2>3, <2>4
<1>9. ASSUME NEW arrives \in BOOLEAN, NEW good \in BOOLEAN, Attempt(arrives, good) PROVE CnInd'
  <2>1. /\ UNCHANGED fileVars /\ htTry.is = "calling" /\ (good => arrives)
        /\ htGot' = IF arrives THEN htGot + 1 ELSE htGot
        /\ htTry' = [made |-> htTry.made + 1,
               is |-> IF good THEN "returned"
                      ELSE IF htTry.made + 1 >= MaxAttempts THEN "raised" ELSE "calling"]
    BY <1>9 DEF Attempt
  <2>2. htTry' \in [made : Nat, is : {"calling", "returned", "raised"}] /\ htGot' \in Nat
    BY <2>1 DEF CnTyped
  <2>3. (CnTyped /\ CnWriting /\ CnFileWhole /\ CnShown)'
    BY <1>1, <2>1, <2>2
  <2>4. htTry.made \in Nat /\ htGot \in Nat
    BY DEF CnTyped
  <2>5. RetryAccounted' /\ CnRetry'
    BY <1>0, <2>1, <2>4 DEF RetryAccounted, CnRetry
  <2> QED BY <2>3, <2>5
<1> QED BY <1>3, <1>4, <1>5, <1>6, <1>7, <1>8, <1>9 DEF CnNext

\* A message lost after every attempt is counted, never silently gone.
LEMMA CnIndDelivers == CnInd => DeliveryAccounted
BY DEF CnInd, DeliveryAccounted, ReplayFaithful, CnFileWhole, CnShown, Shows, WholeLines, ThroughTo

\* An HTTP delivery is reported delivered or raised, after as many attempts as it
\* was allowed and no more, and a replay yields the written messages in order,
\* whatever tasks share the file, for any schemas and any number of attempts.
THEOREM DeliveryAlwaysAccounted == CnSpec => []DeliveryAccounted
BY CnIndInit, CnIndStep, CnIndDelivers, PTL DEF CnSpec

\* A task holds the lock or waits for it, and a delivery is under way or over.
LEMMA CnIndTypes == CnInd => CnTypeOK
BY DEF CnInd, CnTyped, CnTypeOK

-----------------------------------------------------------------------------
(* The KPM bridge.                                                         *)

\* max() along the contributions after the first.
LEMMA WorstSteps ==
  ASSUME NEW b \in Int, NEW s \in Seq(Int)
  PROVE  \E h \in [0..Len(s) -> Int] :
           /\ h[0] = b
           /\ \A n \in 1..Len(s) : h[n] = Worse(h[n - 1], s[n])
           /\ FoldLeft(Worse, b, s) = h[Len(s)]
<1> DEFINE op == [p \in (Int) \X (Int) |-> Worse(p[1], p[2])]
           base == b
           body(it) == [t \in SUBSET (1..Len(s)) |->
                          IF t = {} THEN base
                          ELSE Worse(it[t \ {Max(t)}], s[Max(t)])]
           iter == CHOOSE it : it = body(it)
<1>0. Len(s) \in Nat /\ DOMAIN s = 1..Len(s) /\ s \in Seq(Int)
  BY LenProperties
<1>1. base \in Int /\ op \in [(Int) \X (Int) -> Int]
  <2>1. base \in Int
    OBVIOUS
  <2>2. ASSUME NEW x \in Int, NEW y \in Int PROVE Worse(x, y) \in Int
    BY DEF Worse
  <2> QED BY <2>1, <2>2
<1>2. \A x \in Int, y \in Int : op[<<x, y>>] = Worse(x, y)
  OBVIOUS
<1> HIDE DEF op, base
<1>3. PICK g \in [SUBSET (1..Len(s)) -> Int] : FoldsTo(g, s, base, op)
  BY <1>0, <1>1, FoldExists
<1>4. g = body(g)
  <2>1. \A t \in SUBSET (1..Len(s)) :
          g[t] = IF t = {} THEN base ELSE Worse(g[t \ {Max(t)}], s[Max(t)])
    BY <1>0, <1>2, <1>3, FoldPlaces DEF FoldsTo
  <2> QED BY <2>1
<1>5. iter = body(iter)
  BY <1>4
<1>6. FoldLeft(Worse, b, s) = iter[1..Len(s)]
  BY <1>0 DEF FoldLeft, MapThenFoldSet, base
<1> HIDE DEF iter
<1>7. FoldsWithin(iter, s, Int, base, op)
  <2>1. \A t \in SUBSET (1..Len(s)) :
          iter[t] = IF t = {} THEN base ELSE Worse(iter[t \ {Max(t)}], s[Max(t)])
    BY <1>5
  <2> HIDE DEF body
  <2> QED BY <1>0, <1>2, <2>1, FoldPlaces DEF FoldsWithin
<1> HIDE DEF body
<1>8. FoldValue(iter[1..Len(s)], s, Int, base, op)
  BY <1>0, <1>1, <1>7, FoldSteps
<1>9. PICK h \in [0..Len(s) -> Int] :
        /\ h[0] = base
        /\ \A n \in 1..Len(s) : h[n] = op[<<h[n - 1], s[n]>>]
        /\ FoldLeft(Worse, b, s) = h[Len(s)]
  BY <1>6, <1>8 DEF FoldValue
<1>10. \A n \in 1..Len(s) : h[n] = Worse(h[n - 1], s[n])
  <2> TAKE n \in 1..Len(s)
  <2>1. h[n - 1] \in Int /\ s[n] \in Int
    BY <1>0, <1>9
  <2> QED BY <1>2, <1>9, <2>1
<1> QED BY <1>9, <1>10 DEF base

Metrics == ToSet(KpmMetrics)
Report == [Metrics -> Int]

\* The metrics the risk is derived from, in the order of the code.
LEMMA MetricsOrdered == KpmMetrics \in Seq(Metrics) /\ Len(KpmMetrics) = 5
<1>1. DOMAIN KpmMetrics = 1..5 /\ Len(KpmMetrics) = 5
  BY DEF KpmMetrics
<1>2. \A i \in 1..5 : KpmMetrics[i] \in Metrics
  BY <1>1 DEF Metrics, ToSet
<1>3. KpmMetrics = [i \in 1..5 |-> KpmMetrics[i]]
  BY DEF KpmMetrics
<1> QED BY <1>1, <1>2, <1>3

\* The contributions, metric by metric.
LEMMA ContributionSteps ==
  ASSUME NEW report \in Report
  PROVE  \E h \in [0..Len(KpmMetrics) -> Seq(Int)] :
           /\ h[0] = <<>>
           /\ \A n \in 1..Len(KpmMetrics) : h[n] = (IF report[KpmMetrics[n]] = Absent THEN h[n - 1] ELSE Append(h[n - 1], Contribution(KpmMetrics[n], report[KpmMetrics[n]])))
           /\ RiskContributions(report) = h[Len(KpmMetrics)]
<1> DEFINE op == [p \in (Seq(Int)) \X (Metrics) |-> (IF report[p[2]] = Absent THEN p[1] ELSE Append(p[1], Contribution(p[2], report[p[2]])))]
           base == <<>>
           body(it) == [t \in SUBSET (1..Len(KpmMetrics)) |->
                          IF t = {} THEN base
                          ELSE (IF report[KpmMetrics[Max(t)]] = Absent THEN it[t \ {Max(t)}] ELSE Append(it[t \ {Max(t)}], Contribution(KpmMetrics[Max(t)], report[KpmMetrics[Max(t)]])))]
           iter == CHOOSE it : it = body(it)
<1>0. Len(KpmMetrics) \in Nat /\ DOMAIN KpmMetrics = 1..Len(KpmMetrics) /\ KpmMetrics \in Seq(Metrics)
  BY LenProperties, MetricsOrdered
<1>1. base \in Seq(Int) /\ op \in [(Seq(Int)) \X (Metrics) -> Seq(Int)]
  <2>1. base \in Seq(Int)
    OBVIOUS
  <2>2. ASSUME NEW x \in Seq(Int), NEW y \in Metrics PROVE (IF report[y] = Absent THEN x ELSE Append(x, Contribution(y, report[y]))) \in Seq(Int)
    <3>1. report[y] \in Int
      BY DEF Report
    <3>2. Contribution(y, report[y]) \in Int
      BY <3>1 DEF Contribution, Clamp01, NaN
    <3> QED BY <3>2
  <2> QED BY <2>1, <2>2
<1>2. \A x \in Seq(Int), y \in Metrics : op[<<x, y>>] = (IF report[y] = Absent THEN x ELSE Append(x, Contribution(y, report[y])))
  OBVIOUS
<1> HIDE DEF op, base
<1>3. PICK g \in [SUBSET (1..Len(KpmMetrics)) -> Seq(Int)] : FoldsTo(g, KpmMetrics, base, op)
  BY <1>0, <1>1, FoldExists
<1>4. g = body(g)
  <2>1. \A t \in SUBSET (1..Len(KpmMetrics)) :
          g[t] = IF t = {} THEN base ELSE (IF report[KpmMetrics[Max(t)]] = Absent THEN g[t \ {Max(t)}] ELSE Append(g[t \ {Max(t)}], Contribution(KpmMetrics[Max(t)], report[KpmMetrics[Max(t)]])))
    BY <1>0, <1>2, <1>3, FoldPlaces DEF FoldsTo
  <2> QED BY <2>1
<1>5. iter = body(iter)
  BY <1>4
<1>6. RiskContributions(report) = iter[1..Len(KpmMetrics)]
  BY <1>0 DEF RiskContributions, FoldLeft, MapThenFoldSet, base
<1> HIDE DEF iter
<1>7. FoldsWithin(iter, KpmMetrics, Seq(Int), base, op)
  <2>1. \A t \in SUBSET (1..Len(KpmMetrics)) :
          iter[t] = IF t = {} THEN base ELSE (IF report[KpmMetrics[Max(t)]] = Absent THEN iter[t \ {Max(t)}] ELSE Append(iter[t \ {Max(t)}], Contribution(KpmMetrics[Max(t)], report[KpmMetrics[Max(t)]])))
    BY <1>5
  <2> HIDE DEF body
  <2> QED BY <1>0, <1>2, <2>1, FoldPlaces DEF FoldsWithin
<1> HIDE DEF body
<1>8. FoldValue(iter[1..Len(KpmMetrics)], KpmMetrics, Seq(Int), base, op)
  BY <1>0, <1>1, <1>7, FoldSteps
<1>9. PICK h \in [0..Len(KpmMetrics) -> Seq(Int)] :
        /\ h[0] = base
        /\ \A n \in 1..Len(KpmMetrics) : h[n] = op[<<h[n - 1], KpmMetrics[n]>>]
        /\ RiskContributions(report) = h[Len(KpmMetrics)]
  BY <1>6, <1>8 DEF FoldValue
<1>10. \A n \in 1..Len(KpmMetrics) : h[n] = (IF report[KpmMetrics[n]] = Absent THEN h[n - 1] ELSE Append(h[n - 1], Contribution(KpmMetrics[n], report[KpmMetrics[n]])))
  <2> TAKE n \in 1..Len(KpmMetrics)
  <2>1. h[n - 1] \in Seq(Int) /\ KpmMetrics[n] \in Metrics
    BY <1>0, <1>9
  <2> QED BY <1>2, <1>9, <2>1
<1> QED BY <1>9, <1>10 DEF base

\* One more contribution leaves the worst one of those so far.
LEMMA WorseOfTwo ==
  ASSUME NEW n \in Nat, NEW cs, \A j \in 1..(n + 2) : cs[j] \in Int,
         NEW b \in Int, b # NaN, \E j \in 1..(n + 1) : b = cs[j],
         \A j \in 1..(n + 1) : cs[j] # NaN => b >= cs[j]
  PROVE  LET w == Worse(b, cs[n + 2])
         IN  /\ w # NaN
             /\ \E j \in 1..(n + 2) : w = cs[j]
             /\ \A j \in 1..(n + 2) : cs[j] # NaN => w >= cs[j]
<1>0. /\ n + 2 \in 1..(n + 2)
      /\ \A j \in 1..(n + 1) : j \in 1..(n + 2)
      /\ \A j \in 1..(n + 2) : j \in 1..(n + 1) \/ j = n + 2
  OBVIOUS
<1>1. CASE cs[n + 2] # NaN /\ cs[n + 2] > b
  <2>1. Worse(b, cs[n + 2]) = cs[n + 2]
    BY <1>1 DEF Worse
  <2>2. \A j \in 1..(n + 2) : cs[j] # NaN => cs[n + 2] >= cs[j]
    BY <1>0, <1>1
  <2> QED BY <1>0, <1>1, <2>1, <2>2
<1>2. CASE ~(cs[n + 2] # NaN /\ cs[n + 2] > b)
  <2>1. Worse(b, cs[n + 2]) = b
    BY <1>2 DEF Worse
  <2>2. \A j \in 1..(n + 2) : cs[j] # NaN => b >= cs[j]
    BY <1>0, <1>2
  <2> QED BY <1>0, <2>1, <2>2
<1> QED BY <1>1, <1>2

\* max() over contributions is the greatest, unless the first is not a number.
LEMMA WorstOfAll ==
  ASSUME NEW cs \in Seq(Int), cs # <<>>, Head(cs) # NaN
  PROVE  /\ DeriveSlaRisk(cs) \in ToSet(cs)
         /\ \A j \in DOMAIN cs : cs[j] # NaN => PlannedRisk(DeriveSlaRisk(cs)) >= cs[j]
<1> DEFINE t == Tail(cs)
<1>0. /\ Len(cs) \in Nat /\ Len(cs) >= 1 /\ DOMAIN cs = 1..Len(cs)
      /\ t \in Seq(Int) /\ Len(t) = Len(cs) - 1 /\ Len(t) \in Nat
      /\ \A i \in 1..Len(t) : t[i] = cs[i + 1]
      /\ Head(cs) = cs[1] /\ \A i \in 1..Len(cs) : cs[i] \in Int
  BY HeadTailProperties, LenProperties
<1> HIDE DEF t
<1>1. PICK h \in [0..Len(t) -> Int] :
        /\ h[0] = cs[1]
        /\ \A n \in 1..Len(t) : h[n] = Worse(h[n - 1], t[n])
        /\ FoldLeft(Worse, cs[1], t) = h[Len(t)]
  <2>1. cs[1] \in Int
    BY <1>0
  <2> QED BY <1>0, <2>1, WorstSteps
<1> DEFINE Q(n) == n <= Len(t) =>
                     /\ h[n] # NaN
                     /\ \E j \in 1..(n + 1) : h[n] = cs[j]
                     /\ \A j \in 1..(n + 1) : cs[j] # NaN => h[n] >= cs[j]
           P == {n \in Nat : Q(n)}
<1>2. Q(0)
  BY <1>0, <1>1
<1>3. \A n \in Nat : Q(n) => Q(n + 1)
  <2> SUFFICES ASSUME NEW n \in Nat, Q(n), n + 1 <= Len(t)
               PROVE  /\ h[n + 1] # NaN
                      /\ \E j \in 1..(n + 2) : h[n + 1] = cs[j]
                      /\ \A j \in 1..(n + 2) : cs[j] # NaN => h[n + 1] >= cs[j]
    OBVIOUS
  <2>1. n + 1 \in 1..Len(t) /\ n \in 0..Len(t) /\ (n + 1) - 1 = n /\ n <= Len(t) /\ n + 2 \in 1..Len(cs)
    BY <1>0
  <2>2. /\ h[n] # NaN /\ \E j \in 1..(n + 1) : h[n] = cs[j]
        /\ \A j \in 1..(n + 1) : cs[j] # NaN => h[n] >= cs[j]
    BY <2>1
  <2>3. h[n + 1] = Worse(h[n], cs[n + 2]) /\ h[n] \in Int /\ cs[n + 2] \in Int
    <3>1. (n + 1) + 1 = n + 2
      OBVIOUS
    <3> QED BY <1>0, <1>1, <2>1, <3>1
  <2>4. \A j \in 1..(n + 2) : cs[j] \in Int
    <3>1. \A j \in 1..(n + 2) : j \in 1..Len(cs)
      BY <1>0, <2>1
    <3> QED BY <1>0, <3>1
  <2> QED BY <2>2, <2>3, <2>4, WorseOfTwo
<1> HIDE DEF Q
<1>4. 0 \in P /\ \A n \in Nat : n \in P => n + 1 \in P
  BY <1>2, <1>3
<1> HIDE DEF P
<1>5. \A n \in Nat : n \in P
  BY <1>4, NatSets
<1>6. /\ h[Len(t)] # NaN
      /\ \E j \in 1..Len(cs) : h[Len(t)] = cs[j]
      /\ \A j \in 1..Len(cs) : cs[j] # NaN => h[Len(t)] >= cs[j]
  <2>1. Len(t) + 1 = Len(cs) /\ Len(t) <= Len(t)
    BY <1>0
  <2> QED BY <1>0, <1>5, <2>1 DEF P, Q
<1>7. DeriveSlaRisk(cs) = h[Len(t)]
  BY <1>0, <1>1 DEF DeriveSlaRisk, t
<1> QED BY <1>0, <1>6, <1>7 DEF ToSet, PlannedRisk

\* A collection time is read as one of the plausible times, or not at all.
LEMMA TimesRead ==
  ASSUME NEW header \in Headers, ~Ambiguous(header)
  PROVE  DecodeTimestamp(header.first, header.second) = header.time
<1>1. PICK hi \in HighWords, lo \in 0..(WordBase - 1), flex \in BOOLEAN :
        header = [first |-> IF flex THEN lo ELSE hi, second |-> IF flex THEN hi ELSE lo,
                  time |-> hi * WordBase + lo, flex |-> flex]
  BY DEF Headers
<1> DEFINE us == hi * WordBase + lo
           other == lo * WordBase + hi
<1>2. /\ hi \in Nat /\ WordBase \in Nat /\ lo \in Nat /\ lo < WordBase
      /\ WindowLow \in Nat /\ WindowEnd \in Nat /\ CalendarEnd \in Nat /\ CalendarEnd <= WindowEnd
      /\ WindowLow <= hi * WordBase /\ (hi + 1) * WordBase <= CalendarEnd
  BY KpmAssumption
<1>3. us \in Nat /\ us >= WindowLow /\ us < CalendarEnd
  <2>1. hi * WordBase \in Nat /\ (hi + 1) * WordBase = hi * WordBase + WordBase
    BY <1>2
  <2> QED BY <1>2, <2>1
<1> HIDE DEF us
<1>4. Plausible(us)
  BY <1>2, <1>3 DEF Plausible
<1>5. CASE flex
  <2>1. header.first = lo /\ header.second = hi /\ header.time = us /\ header.flex
    BY <1>1, <1>5 DEF us
  <2>2. ~Plausible(lo * WordBase + hi)
    BY <2>1 DEF Ambiguous
  <2> QED BY <1>3, <1>4, <2>1, <2>2 DEF DecodeTimestamp, us
<1>6. CASE ~flex
  <2>1. header.first = hi /\ header.second = lo /\ header.time = us
    BY <1>1, <1>6 DEF us
  <2> QED BY <1>3, <1>4, <2>1 DEF DecodeTimestamp, us
<1> QED BY <1>5, <1>6

\* Every event is what _build_event makes of the report and the header it names.
KpBuilt ==
  \A i \in DOMAIN kpEvents :
    \E report \in Report, header \in Headers \cup {NoHeader} :
      kpEvents[i] = BuildEvent(i, report, header)

KpInd ==
  /\ kpSeq \in Nat /\ kpEvents = [i \in 1..kpSeq |-> kpEvents[i]] /\ kpSeq <= MaxKpmEvents
  /\ kpFed \in 0..kpSeq /\ kpFailed \in BOOLEAN
  /\ KpBuilt

\* Events come one by one.
LEMMA KpLen ==
  ASSUME KpInd
  PROVE  Len(kpEvents) = kpSeq /\ DOMAIN kpEvents = 1..kpSeq
BY DEF KpInd

\* It holds before the first indication.
LEMMA KpIndInit == KpInit => KpInd
<1> SUFFICES ASSUME KpInit PROVE KpInd
  OBVIOUS
<1>1. kpSeq = 0 /\ kpEvents = <<>> /\ kpFed = 0 /\ kpFailed = FALSE
  BY DEF KpInit
<1>2. MaxKpmEvents \in Nat
  BY KpmAssumption
<1>3. DOMAIN kpEvents = {} /\ kpEvents = [i \in 1..kpSeq |-> kpEvents[i]]
  BY <1>1
<1>4. KpBuilt
  BY <1>3 DEF KpBuilt
<1>5. kpSeq \in Nat /\ kpSeq <= MaxKpmEvents /\ kpFed \in 0..kpSeq
  BY <1>1, <1>2
<1> QED BY <1>1, <1>3, <1>4, <1>5 DEF KpInd

\* Tuples of one and of two.
LEMMA OneTuple ==
  ASSUME NEW S, NEW x \in S
  PROVE  <<x>> \in [1..1 -> S] /\ <<x>> \in Seq(S)
OBVIOUS

\* A pair of values of a set is a sequence over it.
LEMMA TwoTuple ==
  ASSUME NEW S, NEW x \in S, NEW y \in S
  PROVE  <<x, y>> \in [1..2 -> S] /\ <<x, y>> \in Seq(S)
OBVIOUS

\* What a decoded report can be.
LEMMA KpReports ==
  /\ Reports \subseteq Report
  /\ Busy \in Report /\ Quiet \in Report
  /\ \A rows \in Seq(Report), format \in 1..3 : LatestRow(rows, format) \in Report
<1>0. Absent \in Int
  BY DEF Absent
<1>1. Reports \subseteq Report
  <2> SUFFICES ASSUME NEW f \in [KpmReported -> KpmValues \cup {Absent}]
               PROVE  [metric \in ToSet(KpmMetrics) |->
                         IF metric \in KpmReported THEN f[metric] ELSE Absent] \in Report
    BY DEF Reports
  <2>1. \A metric \in KpmReported : f[metric] \in Int
    BY <1>0, KpmAssumption
  <2> QED BY <1>0, <2>1 DEF Report, Metrics
<1>2. Busy \in Report /\ Quiet \in Report
  <2>1. Busy \in Report
    BY <1>0 DEF Busy, Report, Metrics
  <2>2. Quiet = [metric \in Metrics |-> IF metric = "RRU.PrbTotDl" THEN 1 ELSE Busy[metric]]
    BY <2>1 DEF Quiet, Report
  <2>3. \A metric \in Metrics : Busy[metric] \in Int
    BY <2>1 DEF Report
  <2> QED BY <2>1, <2>2, <2>3 DEF Report
<1>3. \A rows \in Seq(Report), format \in 1..3 : LatestRow(rows, format) \in Report
  <2> TAKE rows \in Seq(Report), format \in 1..3
  <2>1. CASE format = 2 \/ rows = <<>>
    BY <2>1 DEF LatestRow, Report, Metrics, Absent
  <2>2. CASE ~(format = 2 \/ rows = <<>>)
    <3>1. Len(rows) \in 1..Len(rows) /\ DOMAIN rows = 1..Len(rows)
      BY <2>2
    <3> QED BY <2>2, <3>1 DEF LatestRow, Last
  <2> QED BY <2>1, <2>2
<1> QED BY <1>1, <1>2, <1>3

\* What an indication can be, by its encoding.
LEMMA KpIndications ==
  ASSUME KpInd, NEW k \in 1..2, NEW rows \in [1..k -> Seq(Report)], NEW header \in Headers \cup {NoHeader},
         NEW format \in 1..3, FromIndication(rows, header, format)
  PROVE  KpInd'
<1> DEFINE new == [i \in 1..k |-> BuildEvent(kpSeq + i, LatestRow(rows[i], format), header)]
<1>0. rows \in Seq(Seq(Report)) /\ Len(rows) = k /\ DOMAIN rows = 1..k
  OBVIOUS
<1>1. /\ kpSeq + k <= MaxKpmEvents /\ kpSeq' = kpSeq + k
      /\ kpEvents' = kpEvents \o new
      /\ UNCHANGED <<kpFed, kpFailed>>
  BY <1>0, KpLen DEF FromIndication
<1>2. /\ kpSeq \in Nat /\ kpEvents = [i \in 1..kpSeq |-> kpEvents[i]] /\ Len(kpEvents) = kpSeq
      /\ DOMAIN kpEvents = 1..kpSeq
  BY KpLen DEF KpInd
<1>3. Len(new) = k
  OBVIOUS
<1>4. kpEvents' = [i \in 1..(kpSeq + k) |-> IF i <= kpSeq THEN kpEvents[i] ELSE new[i - kpSeq]]
  <2> HIDE DEF new
  <2> QED BY <1>1, <1>2, <1>3
<1>5. \A i \in 1..kpSeq : kpEvents'[i] = kpEvents[i]
  BY <1>2, <1>4
<1>6. \A i \in 1..k : kpEvents'[kpSeq + i] = BuildEvent(kpSeq + i, LatestRow(rows[i], format), header)
  BY <1>2, <1>4
<1>7. KpBuilt'
  <2> SUFFICES ASSUME NEW i \in 1..(kpSeq + k)
               PROVE  \E r \in Report, hd \in Headers \cup {NoHeader} : kpEvents'[i] = BuildEvent(i, r, hd)
    BY <1>4 DEF KpBuilt, BuildEvent
  <2>1. CASE i \in 1..kpSeq
    BY <1>2, <1>5, <2>1 DEF KpInd, KpBuilt
  <2>2. CASE i \notin 1..kpSeq
    <3>1. i - kpSeq \in 1..k /\ kpSeq + (i - kpSeq) = i
      BY <1>2, <2>2
    <3>2. LatestRow(rows[i - kpSeq], format) \in Report
      BY <3>1, KpReports
    <3> QED BY <1>6, <3>1, <3>2
  <2> QED BY <2>1, <2>2
<1> QED BY <1>1, <1>2, <1>4, <1>7 DEF KpInd

\* What a message can hold.
LEMMA KpMessages ==
  /\ <<<<Quiet, Busy>>>> \in [1..1 -> Seq(Report)]
  /\ <<<<Busy>>>> \in [1..1 -> Seq(Report)]
  /\ <<<<Busy>>, <<Quiet>>>> \in [1..2 -> Seq(Report)]
<1> DEFINE qb == <<Quiet, Busy>>
           b == <<Busy>>
           q == <<Quiet>>
<1>1. qb \in Seq(Report) /\ b \in Seq(Report) /\ q \in Seq(Report)
  BY KpReports, OneTuple, TwoTuple
<1> HIDE DEF qb, b, q
<1>2. <<qb>> \in [1..1 -> Seq(Report)] /\ <<b>> \in [1..1 -> Seq(Report)]
  BY <1>1, OneTuple
<1>3. <<b, q>> \in [1..2 -> Seq(Report)]
  BY <1>1, TwoTuple
<1> QED BY <1>2, <1>3, Zenon DEF qb, b, q

\* It is kept by each indication, refused or not.
LEMMA KpIndStep == KpInd /\ [KpNext]_kpVars => KpInd'
<1> SUFFICES ASSUME KpInd, [KpNext]_kpVars PROVE KpInd'
  OBVIOUS
<1>0. /\ kpSeq \in Nat /\ kpEvents = [i \in 1..kpSeq |-> kpEvents[i]] /\ Len(kpEvents) = kpSeq
      /\ DOMAIN kpEvents = 1..kpSeq
  BY KpLen DEF KpInd
<1>1. CASE UNCHANGED kpVars
  BY <1>1 DEF kpVars, KpInd, KpBuilt
<1>2. ASSUME NEW report \in Reports, FromFlexricJson(report) PROVE KpInd'
  <2> DEFINE e == BuildEvent(kpSeq + 1, report, NoHeader)
  <2>1. /\ kpSeq < MaxKpmEvents /\ kpSeq' = kpSeq + 1 /\ kpEvents' = Append(kpEvents, e)
        /\ UNCHANGED <<kpFed, kpFailed>>
    BY <1>0, <1>2 DEF FromFlexricJson
  <2> HIDE DEF e
  <2>2. kpEvents' = [i \in 1..(kpSeq + 1) |-> IF i = kpSeq + 1 THEN e ELSE kpEvents[i]]
    BY <1>0, <2>1
  <2>3. KpBuilt'
    <3> SUFFICES ASSUME NEW i \in 1..(kpSeq + 1)
                 PROVE  \E r \in Report, hd \in Headers \cup {NoHeader} : kpEvents'[i] = BuildEvent(i, r, hd)
      BY <2>2 DEF KpBuilt, BuildEvent
    <3>1. CASE i = kpSeq + 1
      BY <2>2, <3>1, KpReports DEF e
    <3>2. CASE i # kpSeq + 1
      <4>1. i \in 1..kpSeq
        BY <1>0, <3>2
      <4> QED BY <1>0, <2>2, <3>2, <4>1 DEF KpInd, KpBuilt
    <3> QED BY <3>1, <3>2
  <2> QED BY <1>0, <2>1, <2>2, <2>3, KpmAssumption DEF KpInd
<1>3. ASSUME NEW header \in Headers \cup {NoHeader}, FromIndication(<<<<Quiet, Busy>>>>, header, 1)
      PROVE  KpInd'
  BY <1>3, KpMessages, KpIndications
<1>4. ASSUME FromIndication(<<<<Busy>>>>, NoHeader, 2) PROVE KpInd'
  BY <1>4, KpMessages, KpIndications
<1>5. ASSUME FromIndication(<<<<Busy>>, <<Quiet>>>>, NoHeader, 3) PROVE KpInd'
  BY <1>5, KpMessages, KpIndications
<1>6. ASSUME NEW raises \in BOOLEAN, FeedPipeline(raises) PROVE KpInd'
  BY <1>0, <1>6 DEF FeedPipeline, KpInd, KpBuilt
<1> QED BY <1>1, <1>2, <1>3, <1>4, <1>5, <1>6 DEF KpNext

\* Each event then tells what its report said.
LEMMA KpIndFaithful == KpInd => EventsFaithful
<1> SUFFICES ASSUME KpInd, NEW i \in DOMAIN kpEvents
             PROVE  LET e == kpEvents[i]
                        cs == RiskContributions(e.report)
                    IN  /\ e.sequence = i /\ kpSeq = Len(kpEvents)
                        /\ cs # <<>> /\ Head(cs) # NaN =>
                             /\ e.risk \in ToSet(cs)
                             /\ \A j \in DOMAIN cs : cs[j] # NaN => PlannedRisk(e.risk) >= cs[j]
                        /\ e.header # NoHeader /\ ~Ambiguous(e.header) =>
                             e.ts = e.header.time
  BY DEF EventsFaithful
<1>1. PICK report \in Report, header \in Headers \cup {NoHeader} :
        kpEvents[i] = BuildEvent(i, report, header)
  BY DEF KpInd, KpBuilt
<1> DEFINE cs == RiskContributions(report)
<1>2. cs \in Seq(Int)
  <2>1. PICK h \in [0..Len(KpmMetrics) -> Seq(Int)] : cs = h[Len(KpmMetrics)]
    BY ContributionSteps
  <2>2. Len(KpmMetrics) \in 0..Len(KpmMetrics)
    BY MetricsOrdered
  <2> QED BY <2>1, <2>2
<1>3. /\ kpEvents[i].sequence = i /\ kpEvents[i].report = report /\ kpEvents[i].header = header
      /\ kpEvents[i].risk = DeriveSlaRisk(cs)
      /\ kpEvents[i].ts = IF header = NoHeader THEN NoTime ELSE DecodeTimestamp(header.first, header.second)
  BY <1>1 DEF BuildEvent
<1> HIDE DEF cs
<1>4. cs # <<>> /\ Head(cs) # NaN =>
        /\ DeriveSlaRisk(cs) \in ToSet(cs)
        /\ \A j \in DOMAIN cs : cs[j] # NaN => PlannedRisk(DeriveSlaRisk(cs)) >= cs[j]
  BY <1>2, WorstOfAll
<1>5. header # NoHeader /\ ~Ambiguous(header) => kpEvents[i].ts = header.time
  BY <1>3, TimesRead
<1> QED BY <1>3, <1>4, <1>5, KpLen DEF cs

\* An event carries the worst signal of its report and the report's own time, and
\* events are numbered without gaps, for any metrics, values, widths of a word
\* and windows of plausible time.
THEOREM EventsAlwaysFaithful == KpSpec => []EventsFaithful
BY KpIndInit, KpIndStep, KpIndFaithful, PTL DEF KpSpec

\* Events do not outnumber the bound, nor the events fed on the events built.
LEMMA KpIndTypes == KpInd => KpTypeOK
<1> SUFFICES ASSUME KpInd PROVE KpTypeOK
  OBVIOUS
<1>1. Len(kpEvents) = kpSeq
  BY KpLen
<1> QED BY <1>1 DEF KpInd, KpTypeOK

-----------------------------------------------------------------------------
(* The shadow executor.                                                    *)

\* An entry of the log.
ShEntries == [of : Nat, active : Readings, candidate : Readings,
              outcome : Readings \cup {NoOutcome}]

\* A log in the order of the calls, with the outcomes of their decisions.
ShOrdered(log) ==
  /\ log \in Seq(ShEntries) /\ Len(log) <= shCalled
  /\ \A i \in 1..Len(log) :
       log[i].of = i /\ log[i].outcome \in {NoOutcome, shTruth[i]}

ShTyped ==
  /\ shCalled \in Nat
  /\ shPreds \in Seq([active : Readings, candidate : Readings]) /\ Len(shPreds) = shCalled
  /\ shTruth \in Seq(Readings) /\ Len(shTruth) = shCalled
  /\ shBusy \in [Steppers -> 0..shCalled]
  /\ shLog \in Seq(ShEntries)
  /\ shOverlap \in BOOLEAN

\* The calls in hand, and those logged, once each.
ShPlaces ==
  /\ \A s, t \in Steppers : shBusy[s] # 0 /\ shBusy[s] = shBusy[t] => s = t
  /\ \A i, j \in 1..Len(shLog) : shLog[i].of = shLog[j].of => i = j
  /\ {shLog[i].of : i \in 1..Len(shLog)} = (1..shCalled) \ {shBusy[s] : s \in Steppers}

\* Without overlap one call at most is in hand, and it is the last.
ShAlone ==
  ~shOverlap =>
    /\ ShOrdered(shLog)
    /\ \A s, t \in Steppers : shBusy[s] # 0 /\ shBusy[t] # 0 => s = t
    /\ \A s \in Steppers : shBusy[s] # 0 => shCalled = Len(shLog) + 1 /\ shBusy[s] = shCalled
    /\ (\A s \in Steppers : shBusy[s] = 0) => shCalled = Len(shLog)

\* The advice is recommendation() of the two logs it was made from.
ShAdvised ==
  /\ shAdvice = NoAdvice \/ shAdvice.say = Recommend(shAdvice.first, shAdvice.second)
  /\ ~shOverlap /\ shAdvice # NoAdvice => ShOrdered(shAdvice.second)
  /\ shAdvice.first \in Seq(ShEntries) /\ \A log \in shAsked : log \in Seq(ShEntries)

ShInd == ShTyped /\ ShPlaces /\ ShAlone /\ ShAdvised

\* It holds before the first prediction.
LEMMA ShIndInit == ShInit => ShInd
<1> SUFFICES ASSUME ShInit PROVE ShInd
  OBVIOUS
<1>1. /\ shLog = <<>> /\ shCalled = 0 /\ shPreds = <<>> /\ shTruth = <<>> /\ shAdvice = NoAdvice
      /\ shAsked = {}
      /\ shOverlap = FALSE /\ shBusy = [s \in Steppers |-> 0]
  BY DEF ShInit
<1>2. ShTyped
  <2>1. shBusy \in [Steppers -> 0..shCalled]
    BY <1>1
  <2>2. /\ shPreds \in Seq([active : Readings, candidate : Readings]) /\ Len(shPreds) = 0
        /\ shTruth \in Seq(Readings) /\ Len(shTruth) = 0 /\ shLog \in Seq(ShEntries)
    BY <1>1
  <2> QED BY <1>1, <2>1, <2>2 DEF ShTyped
<1>3. ShPlaces
  BY <1>1 DEF ShPlaces
<1>4. ShOrdered(shLog)
  BY <1>1 DEF ShOrdered
<1>5. ShAlone
  BY <1>1, <1>4 DEF ShAlone
<1>6. ShAdvised
  BY <1>1 DEF ShAdvised, NoAdvice
<1> QED BY <1>2, <1>3, <1>5, <1>6 DEF ShInd

\* A log stays in order when another call begins.
LEMMA ShOrderedKept ==
  ASSUME ShTyped, NEW log, ShOrdered(log), shCalled' = shCalled + 1,
         NEW o \in Readings, shTruth' = Append(shTruth, o)
  PROVE  ShOrdered(log)'
<1>1. /\ shCalled \in Nat /\ shTruth \in Seq(Readings) /\ Len(shTruth) = shCalled
      /\ log \in Seq(ShEntries) /\ Len(log) <= shCalled /\ Len(log) \in Nat
  BY LenProperties DEF ShTyped, ShOrdered
<1>2. \A i \in 1..Len(log) : shTruth'[i] = shTruth[i]
  BY <1>1
<1>3. Len(log) <= shCalled'
  BY <1>1
<1> QED BY <1>1, <1>2, <1>3 DEF ShOrdered

\* Kept by the calls of a prediction, on whatever thread.
LEMMA ShIndPredict ==
  ASSUME ShInd, NEW s \in Steppers, NEW a \in Readings, NEW c \in Readings, NEW o \in Readings,
         Predict(s, a, c, o)
  PROVE  ShInd'
<1>0. ShTyped /\ ShPlaces /\ ShAlone /\ ShAdvised
  BY DEF ShInd
<1>1. /\ shBusy[s] = 0 /\ shCalled' = shCalled + 1
      /\ shBusy' = [shBusy EXCEPT ![s] = shCalled + 1]
      /\ shPreds' = Append(shPreds, [active |-> a, candidate |-> c])
      /\ shTruth' = Append(shTruth, o)
      /\ shOverlap' = (shOverlap \/ \E t \in Steppers : shBusy[t] # 0)
      /\ shLog' = shLog /\ shAsked' = shAsked /\ shAdvice' = shAdvice
  BY DEF Predict
<1>2. /\ shCalled \in Nat /\ shBusy \in [Steppers -> 0..shCalled] /\ shLog \in Seq(ShEntries)
      /\ shPreds \in Seq([active : Readings, candidate : Readings]) /\ Len(shPreds) = shCalled
      /\ shTruth \in Seq(Readings) /\ Len(shTruth) = shCalled /\ Len(shLog) \in Nat
  BY <1>0, LenProperties DEF ShTyped
<1>3. \A t \in Steppers : shBusy'[t] = IF t = s THEN shCalled + 1 ELSE shBusy[t]
  BY <1>1, <1>2
<1>4. ShTyped'
  <2>1. shCalled' \in Nat /\ shBusy' \in [Steppers -> 0..shCalled']
    BY <1>1, <1>2
  <2>2. shPreds' \in Seq([active : Readings, candidate : Readings]) /\ Len(shPreds') = shCalled'
    BY <1>1, <1>2
  <2>3. shTruth' \in Seq(Readings) /\ Len(shTruth') = shCalled'
    BY <1>1, <1>2
  <2> QED BY <1>0, <1>1, <2>1, <2>2, <2>3 DEF ShTyped
<1>5. ShPlaces'
  <2>1. \A t \in Steppers : shBusy[t] # shCalled + 1
    BY <1>2
  <2>2. \A t, u \in Steppers : shBusy'[t] # 0 /\ shBusy'[t] = shBusy'[u] => t = u
    BY <1>0, <1>3, <2>1 DEF ShPlaces
  <2>3. (1..(shCalled + 1)) \ {shBusy'[t] : t \in Steppers}
          = (1..shCalled) \ {shBusy[t] : t \in Steppers}
    <3>1. {shBusy'[t] : t \in Steppers} \subseteq {shBusy[t] : t \in Steppers} \cup {shCalled + 1}
      BY <1>3
    <3>2. \A t \in Steppers : shBusy[t] # 0 => shBusy[t] \in {shBusy'[u] : u \in Steppers}
      BY <1>1, <1>3
    <3>3. shCalled + 1 \in {shBusy'[t] : t \in Steppers}
      BY <1>3
    <3>4. \A k \in 1..(shCalled + 1) : k # shCalled + 1 => k \in 1..shCalled
      BY <1>2
    <3>5. \A k \in 1..shCalled : k \in 1..(shCalled + 1) /\ k # shCalled + 1 /\ k # 0
      BY <1>2
    <3> QED BY <3>1, <3>2, <3>3, <3>4, <3>5
  <2>4. /\ \A i, j \in 1..Len(shLog) : shLog[i].of = shLog[j].of => i = j
        /\ {shLog[i].of : i \in 1..Len(shLog)} = (1..shCalled) \ {shBusy[t] : t \in Steppers}
    BY <1>0 DEF ShPlaces
  <2>5. {shLog[i].of : i \in 1..Len(shLog)} = (1..(shCalled + 1)) \ {shBusy'[t] : t \in Steppers}
    BY <2>3, <2>4
  <2> QED BY <1>1, <2>2, <2>4, <2>5 DEF ShPlaces
<1>6. ShAlone'
  <2> SUFFICES ASSUME ~shOverlap'
               PROVE  /\ ShOrdered(shLog)'
                      /\ \A t, u \in Steppers : shBusy'[t] # 0 /\ shBusy'[u] # 0 => t = u
                      /\ \A t \in Steppers : shBusy'[t] # 0 => shCalled' = Len(shLog') + 1 /\ shBusy'[t] = shCalled'
                      /\ (\A t \in Steppers : shBusy'[t] = 0) => shCalled' = Len(shLog')
    BY DEF ShAlone
  <2>1. ~shOverlap /\ \A t \in Steppers : shBusy[t] = 0
    BY <1>1
  <2>2. ShOrdered(shLog) /\ shCalled = Len(shLog)
    BY <1>0, <2>1 DEF ShAlone
  <2>3. ShOrdered(shLog)'
    <3>1. \A log : ShOrdered(log) => ShOrdered(log)'
      BY <1>0, <1>1, ShOrderedKept
    <3> QED BY <1>1, <2>2, <3>1 DEF ShOrdered
  <2>4. \A t \in Steppers : shBusy'[t] # 0 => t = s
    BY <1>3, <2>1
  <2>5. shBusy'[s] = shCalled + 1 /\ shCalled + 1 # 0
    BY <1>2, <1>3
  <2> QED BY <1>1, <2>2, <2>3, <2>4, <2>5
<1>7. ShAdvised'
  <2>1. ~shOverlap' /\ shAdvice # NoAdvice => ShOrdered(shAdvice.second)'
    <3> SUFFICES ASSUME ~shOverlap', shAdvice # NoAdvice PROVE ShOrdered(shAdvice.second)'
      OBVIOUS
    <3>1. ShOrdered(shAdvice.second)
      BY <1>0, <1>1 DEF ShAdvised
    <3> DEFINE log == shAdvice.second
    <3>2. \A lg : ShOrdered(lg) => ShOrdered(lg)'
      BY <1>0, <1>1, ShOrderedKept
    <3> QED BY <1>1, <3>1, <3>2 DEF ShOrdered
  <2> QED BY <1>0, <1>1, <2>1 DEF ShAdvised
<1> QED BY <1>4, <1>5, <1>6, <1>7 DEF ShInd

\* Kept by the entry a prediction leaves.
LEMMA ShIndLog ==
  ASSUME ShInd, NEW s \in Steppers, LogStep(s)
  PROVE  ShInd'
<1> DEFINE k == shBusy[s]
           e == [of |-> k, active |-> shPreds[k].active, candidate |-> shPreds[k].candidate,
                 outcome |-> NoOutcome]
           n == Len(shLog)
<1>0. ShTyped /\ ShPlaces /\ ShAlone /\ ShAdvised
  BY DEF ShInd
<1>1. /\ k # 0 /\ shLog' = Append(shLog, e)
      /\ shBusy' = [shBusy EXCEPT ![s] = 0]
      /\ shCalled' = shCalled /\ shPreds' = shPreds /\ shTruth' = shTruth
      /\ shAsked' = shAsked /\ shAdvice' = shAdvice /\ shOverlap' = shOverlap
  BY DEF LogStep
<1>2. /\ shCalled \in Nat /\ shBusy \in [Steppers -> 0..shCalled] /\ shLog \in Seq(ShEntries)
      /\ shPreds \in Seq([active : Readings, candidate : Readings]) /\ Len(shPreds) = shCalled
      /\ n \in Nat
  BY <1>0, LenProperties DEF ShTyped
<1>3. k \in 1..shCalled
  BY <1>1, <1>2
<1>4. e \in ShEntries
  <2>1. shPreds[k] \in [active : Readings, candidate : Readings]
    <3> DEFINE R == [active : Readings, candidate : Readings]
    <3>1. \A i \in 1..Len(shPreds) : shPreds[i] \in R
      <4> HIDE DEF R
      <4>1. shPreds \in Seq(R)
        BY <1>2 DEF R
      <4> QED BY <4>1
    <3> QED BY <1>2, <1>3, <3>1
  <2> QED BY <1>2, <1>3, <2>1 DEF ShEntries
<1>5. e.of = k /\ e.outcome = NoOutcome
  OBVIOUS
<1>6. \A t \in Steppers : shBusy'[t] = IF t = s THEN 0 ELSE shBusy[t]
  BY <1>1, <1>2
<1> HIDE DEF e
<1>7. /\ shLog' \in Seq(ShEntries) /\ Len(shLog') = n + 1
      /\ \A i \in 1..(n + 1) : shLog'[i] = IF i = n + 1 THEN e ELSE shLog[i]
  BY <1>1, <1>2, <1>4, AppendProperties
<1>8. ShTyped'
  <2>1. shBusy' \in [Steppers -> 0..shCalled']
    BY <1>1, <1>2
  <2> QED BY <1>0, <1>1, <1>7, <2>1 DEF ShTyped
<1>9. ShPlaces'
  <2>0. /\ \A t, u \in Steppers : shBusy[t] # 0 /\ shBusy[t] = shBusy[u] => t = u
        /\ \A i, j \in 1..n : shLog[i].of = shLog[j].of => i = j
        /\ {shLog[i].of : i \in 1..n} = (1..shCalled) \ {shBusy[t] : t \in Steppers}
    BY <1>0 DEF ShPlaces
  <2>1. \A i \in 1..n : shLog[i].of # k
    <3> TAKE i \in 1..n
    <3>1. shLog[i].of \in (1..shCalled) \ {shBusy[t] : t \in Steppers}
      BY <2>0
    <3> QED BY <3>1
  <2>2. \A t, u \in Steppers : shBusy'[t] # 0 /\ shBusy'[t] = shBusy'[u] => t = u
    BY <1>6, <2>0
  <2>3. /\ \A i \in 1..(n + 1) : i = n + 1 \/ i \in 1..n
        /\ \A i \in 1..n : i \in 1..(n + 1) /\ i # n + 1
        /\ n + 1 \in 1..(n + 1)
    BY <1>2
  <2>4. \A i \in 1..(n + 1) : shLog'[i].of = IF i = n + 1 THEN k ELSE shLog[i].of
    BY <1>5, <1>7
  <2>5. \A i, j \in 1..(n + 1) : shLog'[i].of = shLog'[j].of => i = j
    BY <2>0, <2>1, <2>3, <2>4
  <2>6. {shLog'[i].of : i \in 1..(n + 1)} = {shLog[i].of : i \in 1..n} \cup {k}
    BY <2>3, <2>4
  <2>7. (1..shCalled) \ {shBusy'[t] : t \in Steppers}
          = ((1..shCalled) \ {shBusy[t] : t \in Steppers}) \cup {k}
    <3>1. \A t \in Steppers : t # s => shBusy[t] # k
      BY <1>1, <2>0
    <3>2. \A t \in Steppers : shBusy'[t] # k
      BY <1>1, <1>6, <3>1
    <3>3. \A x \in 1..shCalled : x # 0
      BY <1>2
    <3>4. \A x \in 1..shCalled : x \in {shBusy'[t] : t \in Steppers}
                                  => x \in {shBusy[t] : t \in Steppers} /\ x # k
      BY <1>6, <3>2, <3>3
    <3>5. \A x \in 1..shCalled : x \in {shBusy[t] : t \in Steppers} /\ x # k
                                  => x \in {shBusy'[t] : t \in Steppers}
      BY <1>6
    <3> QED BY <1>3, <3>4, <3>5
  <2>8. {shLog'[i].of : i \in 1..(n + 1)} = (1..shCalled) \ {shBusy'[t] : t \in Steppers}
    BY <2>0, <2>6, <2>7
  <2> QED BY <1>1, <1>7, <2>2, <2>5, <2>8 DEF ShPlaces
<1>10. ShAlone'
  <2> SUFFICES ASSUME ~shOverlap'
               PROVE  /\ ShOrdered(shLog)'
                      /\ \A t, u \in Steppers : shBusy'[t] # 0 /\ shBusy'[u] # 0 => t = u
                      /\ \A t \in Steppers : shBusy'[t] # 0 => shCalled' = Len(shLog') + 1 /\ shBusy'[t] = shCalled'
                      /\ (\A t \in Steppers : shBusy'[t] = 0) => shCalled' = Len(shLog')
    BY DEF ShAlone
  <2>1. /\ ShOrdered(shLog) /\ shCalled = n + 1 /\ k = shCalled
        /\ \A t \in Steppers : shBusy[t] # 0 => t = s
    BY <1>0, <1>1 DEF ShAlone
  <2>2. \A t \in Steppers : shBusy'[t] = 0
    BY <1>6, <2>1
  <2>3. \A i \in 1..(n + 1) : shLog'[i].of = i /\ shLog'[i].outcome \in {NoOutcome, shTruth[i]}
    <3> TAKE i \in 1..(n + 1)
    <3>1. CASE i = n + 1
      BY <1>5, <1>7, <2>1, <3>1
    <3>2. CASE i # n + 1
      <4>1. i \in 1..n
        BY <1>2, <3>2
      <4> QED BY <1>7, <2>1, <3>2, <4>1 DEF ShOrdered
    <3> QED BY <3>1, <3>2
  <2>4. ShOrdered(shLog)'
    <3>1. Len(shLog') <= shCalled'
      BY <1>1, <1>2, <1>7, <2>1
    <3> QED BY <1>1, <1>7, <2>3, <3>1 DEF ShOrdered
  <2> QED BY <1>1, <1>7, <2>1, <2>2, <2>4
<1>11. ShAdvised'
  BY <1>0, <1>1 DEF ShAdvised, ShOrdered
<1> QED BY <1>8, <1>9, <1>10, <1>11 DEF ShInd

\* Kept by an outcome annotated long after.
LEMMA ShIndAnnotate ==
  ASSUME ShInd, NEW n \in 1..MaxSteps, Annotate(n)
  PROVE  ShInd'
<1> DEFINE m == Len(shLog)
<1>0. ShTyped /\ ShPlaces /\ ShAlone /\ ShAdvised
  BY DEF ShInd
<1>1. /\ n <= shCalled
      /\ shLog' = [i \in 1..m |-> IF i <= n THEN [shLog[i] EXCEPT !.outcome = shTruth[i]]
                                  ELSE shLog[i]]
      /\ shCalled' = shCalled /\ shPreds' = shPreds /\ shTruth' = shTruth /\ shBusy' = shBusy
      /\ shAsked' = shAsked /\ shAdvice' = shAdvice /\ shOverlap' = shOverlap
  BY <1>0 DEF Annotate, ShTyped
<1>2. /\ shCalled \in Nat /\ shLog \in Seq(ShEntries) /\ m \in Nat /\ n \in Nat
      /\ shTruth \in Seq(Readings) /\ Len(shTruth) = shCalled
      /\ \A i \in 1..m : shLog[i] \in ShEntries
  <2>1. /\ shCalled \in Nat /\ shLog \in Seq(ShEntries)
        /\ shTruth \in Seq(Readings) /\ Len(shTruth) = shCalled
    BY <1>0 DEF ShTyped
  <2>2. m \in Nat /\ n \in Nat
    BY <2>1, LenProperties
  <2> QED BY <2>1, <2>2
<1> HIDE DEF m
<1>3. \A i \in 1..m :
        /\ shLog'[i] \in ShEntries /\ shLog'[i].of = shLog[i].of
        /\ shLog'[i].outcome = IF i <= n THEN shTruth[i] ELSE shLog[i].outcome
  <2> TAKE i \in 1..m
  <2>1. CASE i <= n
    <3>1. shTruth[i] \in Readings
      <4>1. i \in 1..Len(shTruth)
        BY <1>1, <1>2, <2>1
      <4> QED BY <1>2, <4>1
    <3>2. shLog'[i] = [shLog[i] EXCEPT !.outcome = shTruth[i]]
      BY <1>1, <2>1
    <3>3. shLog[i] \in ShEntries
      BY <1>2
    <3> QED BY <2>1, <3>1, <3>2, <3>3 DEF ShEntries
  <2>2. CASE ~(i <= n)
    BY <1>1, <1>2, <2>2
  <2> QED BY <2>1, <2>2
<1>4. shLog' \in Seq(ShEntries) /\ Len(shLog') = m
  <2>1. shLog' \in [1..m -> ShEntries]
    BY <1>1, <1>3
  <2> QED BY <1>2, <2>1
<1>5. ShTyped'
  BY <1>0, <1>1, <1>4 DEF ShTyped
<1>6. ShPlaces'
  <2>1. {shLog'[i].of : i \in 1..m} = {shLog[i].of : i \in 1..m}
    BY <1>3
  <2>2. /\ \A i, j \in 1..m : shLog[i].of = shLog[j].of => i = j
        /\ {shLog[i].of : i \in 1..m} = (1..shCalled) \ {shBusy[t] : t \in Steppers}
        /\ \A s, t \in Steppers : shBusy[s] # 0 /\ shBusy[s] = shBusy[t] => s = t
    BY <1>0 DEF ShPlaces, m
  <2>3. \A i, j \in 1..m : shLog'[i].of = shLog'[j].of => i = j
    BY <1>3, <2>2
  <2>4. {shLog'[i].of : i \in 1..m} = (1..shCalled) \ {shBusy[t] : t \in Steppers}
    BY <2>1, <2>2
  <2>5. {shLog'[i].of : i \in 1..Len(shLog')} = (1..shCalled') \ {shBusy'[t] : t \in Steppers}
    BY <1>1, <1>4, <2>4, Zenon
  <2>6. \A i, j \in 1..Len(shLog') : shLog'[i].of = shLog'[j].of => i = j
    BY <1>4, <2>3
  <2>7. \A s, t \in Steppers : shBusy'[s] # 0 /\ shBusy'[s] = shBusy'[t] => s = t
    BY <1>1, <2>2
  <2> QED BY <2>5, <2>6, <2>7, Zenon DEF ShPlaces
<1>7. ShAlone'
  <2> SUFFICES ASSUME ~shOverlap' PROVE ShOrdered(shLog)'
    BY <1>0, <1>1, <1>4 DEF ShAlone, m
  <2>1. ShOrdered(shLog)
    BY <1>0, <1>1 DEF ShAlone
  <2>2. m <= shCalled' /\ \A i \in 1..m : shLog[i].of = i /\ shLog[i].outcome \in {NoOutcome, shTruth[i]}
    BY <1>1, <2>1 DEF ShOrdered, m
  <2>3. \A i \in 1..m : shLog'[i].of = i /\ shLog'[i].outcome \in {NoOutcome, shTruth'[i]}
    BY <1>1, <1>3, <2>2
  <2> QED BY <1>4, <2>2, <2>3 DEF ShOrdered
<1>8. ShAdvised'
  BY <1>0, <1>1 DEF ShAdvised, ShOrdered
<1> QED BY <1>5, <1>6, <1>7, <1>8 DEF ShInd

\* Kept by every step.
LEMMA ShIndStep == ShInd /\ [ShNext]_shVars => ShInd'
<1> SUFFICES ASSUME ShInd, [ShNext]_shVars PROVE ShInd'
  OBVIOUS
<1>1. CASE UNCHANGED shVars
  BY <1>1 DEF shVars, ShInd, ShTyped, ShPlaces, ShAlone, ShAdvised, ShOrdered
<1>2. CASE AskAdvice
  <2>1. /\ UNCHANGED <<shLog, shBusy, shCalled, shPreds, shTruth, shAdvice, shOverlap>>
        /\ shAsked' = {shLog}
    BY <1>2 DEF AskAdvice
  <2>2. ShTyped' /\ ShPlaces' /\ ShAlone'
    <3>1. ShTyped'
      BY <2>1 DEF ShInd, ShTyped
    <3>2. ShPlaces'
      BY <2>1 DEF ShInd, ShPlaces
    <3>3. ShAlone'
      BY <2>1 DEF ShInd, ShAlone, ShOrdered
    <3> QED BY <3>1, <3>2, <3>3
  <2>3. ShAdvised'
    BY <2>1 DEF ShInd, ShTyped, ShAdvised, ShOrdered
  <2> QED BY <2>2, <2>3 DEF ShInd
<1>3. CASE GiveAdvice
  <2>1. PICK first \in shAsked :
          shAdvice' = [say |-> Recommend(first, shLog), first |-> first, second |-> shLog]
    BY <1>3 DEF GiveAdvice
  <2>2. UNCHANGED <<shLog, shBusy, shCalled, shPreds, shTruth, shOverlap>>
    BY <1>3 DEF GiveAdvice
  <2>3. ShTyped' /\ ShPlaces' /\ ShAlone'
    <3>1. ShTyped'
      BY <2>2 DEF ShInd, ShTyped
    <3>2. ShPlaces'
      BY <2>2 DEF ShInd, ShPlaces
    <3>3. ShAlone'
      BY <2>2 DEF ShInd, ShAlone, ShOrdered
    <3> QED BY <3>1, <3>2, <3>3
  <2>4. ShAdvised'
    <3>1. shAdvice'.say = Recommend(shAdvice'.first, shAdvice'.second) /\ shAdvice'.second = shLog'
      BY <2>1, <2>2
    <3>2. ~shOverlap' => ShOrdered(shLog)'
      BY <2>3 DEF ShAlone
    <3>3. shAdvice'.first = first /\ first \in Seq(ShEntries) /\ shAsked' = {}
      BY <1>3, <2>1 DEF ShInd, ShAdvised, GiveAdvice
    <3> QED BY <3>1, <3>2, <3>3 DEF ShAdvised, ShOrdered
  <2> QED BY <2>3, <2>4 DEF ShInd
<1> QED BY <1>1, <1>2, <1>3, ShIndPredict, ShIndLog, ShIndAnnotate DEF ShNext

\* The verdict then counts what the log holds, and the log what happened.
LEMMA ShIndTruth == ShInd => PromotedOnTruth
<1> SUFFICES ASSUME ShInd PROVE PromotedOnTruth
  OBVIOUS
<1>0. ShTyped /\ ShPlaces /\ ShAlone /\ ShAdvised
  BY DEF ShInd
<1>1. DOMAIN shLog = 1..Len(shLog)
  BY <1>0 DEF ShTyped
<1>2. /\ \A i, j \in DOMAIN shLog : shLog[i].of = shLog[j].of => i = j
      /\ {shLog[i].of : i \in DOMAIN shLog} = (1..shCalled) \ {shBusy[s] : s \in Steppers}
  BY <1>0, <1>1 DEF ShPlaces
<1>3. ASSUME ~shOverlap, shAdvice.say = "promote"
      PROVE  ~WorseCalibrated(Judged(shAdvice.second)) /\ Len(shAdvice.first) >= MinShadow
  <2> DEFINE log == shAdvice.second
  <2>1. shAdvice # NoAdvice
    BY <1>3 DEF NoAdvice
  <2>2. Recommend(shAdvice.first, log) = "promote" /\ ShOrdered(log)
    BY <1>0, <1>3, <2>1 DEF ShAdvised
  <2>3. ~(Len(shAdvice.first) < MinShadow) /\ ~WorseCalibrated(log)
    BY <2>2 DEF Recommend
  <2>4. Judged(log) = log
    <3>0. log \in Seq(ShEntries) /\ DOMAIN log = 1..Len(log)
          /\ \A i \in 1..Len(log) : log[i].of = i /\ log[i].outcome \in {NoOutcome, shTruth[i]}
      BY <2>2 DEF ShOrdered
    <3> HIDE DEF log
    <3>1. \A i \in DOMAIN log :
            (IF log[i].outcome = NoOutcome THEN log[i]
             ELSE [log[i] EXCEPT !.outcome = shTruth[log[i].of]]) = log[i]
      <4> TAKE i \in DOMAIN log
      <4>1. log[i] \in ShEntries
        BY <3>0
      <4>2. CASE log[i].outcome = NoOutcome
        BY <4>2
      <4>3. CASE log[i].outcome # NoOutcome
        <5>1. shTruth[log[i].of] = log[i].outcome
          BY <3>0, <4>3
        <5>2. \A r \in ShEntries : [r EXCEPT !.outcome = r.outcome] = r
          BY DEF ShEntries
        <5> QED BY <4>1, <4>3, <5>1, <5>2
      <4> QED BY <4>2, <4>3
    <3>2. log = [i \in DOMAIN log |-> log[i]]
      BY <3>0
    <3> QED BY <3>1, <3>2 DEF Judged
  <2>5. Len(shAdvice.first) >= MinShadow
    <3>1. Len(shAdvice.first) \in Nat /\ MinShadow \in Nat
      BY <1>0, LenProperties, ShadowAssumption DEF ShAdvised
    <3> QED BY <2>3, <3>1
  <2> QED BY <2>3, <2>4, <2>5
<1> QED BY <1>2, <1>3 DEF PromotedOnTruth

\* No more places than there are numbers to give them.
LEMMA DistinctNumbers ==
  ASSUME NEW n \in Nat, NEW m \in Nat, NEW f \in [1..n -> 1..m],
         \A i, j \in 1..n : f[i] = f[j] => i = j
  PROVE  n <= m
<1> SUFFICES ASSUME m < n PROVE FALSE
  OBVIOUS
<1>1. /\ IsFiniteSet(1..n) /\ IsFiniteSet(1..m)
      /\ Cardinality(1..n) = n /\ Cardinality(1..m) = m
  BY FS_Interval
<1>2. \E i, j \in 1..n : i # j /\ f[i] = f[j]
  BY <1>1, FS_PigeonHole
<1> QED BY <1>2

\* A list and the two parts of it that a test tells apart.
LEMMA TwoParts ==
  ASSUME NEW n \in Nat, NEW Z \in SUBSET (1..n)
  PROVE  Cardinality((1..n) \ Z) + Cardinality(Z) = n
<1> DEFINE Y == (1..n) \ Z
<1>1. IsFiniteSet(1..n) /\ Cardinality(1..n) = n
  BY FS_Interval
<1>2. IsFiniteSet(Z) /\ IsFiniteSet(Y)
  BY <1>1, FS_Subset
<1>3. Cardinality(Z) \in Nat /\ Cardinality(Y) \in Nat
  BY <1>2, FS_CardinalityType
<1>4. Y \cup Z = 1..n /\ Y \cap Z = {}
  OBVIOUS
<1>5. Cardinality(Y \cup Z) = Cardinality(Y) + Cardinality(Z) - Cardinality(Y \cap Z)
  BY <1>2, FS_Union
<1> HIDE DEF Y
<1>6. n = Cardinality(Y) + Cardinality(Z) - 0
  BY <1>1, <1>4, <1>5, FS_EmptySet
<1> QED BY <1>3, <1>6 DEF Y

\* Its numbers bound the log.
LEMMA ShIndTypes == ShInd => ShTypeOK
<1> SUFFICES ASSUME ShInd PROVE ShTypeOK
  OBVIOUS
<1> DEFINE n == Len(shLog)
<1>0. ShTyped /\ ShPlaces /\ ShAdvised
  BY DEF ShInd
<1>1. n \in Nat /\ DOMAIN shLog = 1..n /\ shCalled \in Nat
  BY <1>0, LenProperties DEF ShTyped
<1>2. n <= shCalled
  <2> DEFINE f == [i \in 1..n |-> shLog[i].of]
  <2>1. \A i \in 1..n : shLog[i].of \in 1..shCalled
    <3> TAKE i \in 1..n
    <3>1. shLog[i].of \in {shLog[j].of : j \in 1..n}
      OBVIOUS
    <3> QED BY <1>0, <3>1 DEF ShPlaces
  <2>2. f \in [1..n -> 1..shCalled]
    BY <2>1
  <2>3. \A i, j \in 1..n : f[i] = f[j] => i = j
    BY <1>0 DEF ShPlaces
  <2> HIDE DEF f, n
  <2> QED BY <1>1, <2>2, <2>3, DistinctNumbers
<1>3. shAdvice.say \in {"none", "promote", "reject", "insufficient-data"}
  BY <1>0 DEF ShAdvised, NoAdvice, Recommend
<1>4. Histogram(shLog)[0] + Histogram(shLog)[1] = n
  <2> DEFINE Far(i) == Distance(shLog[i].active, shLog[i].candidate) >= 5
             Z == {i \in 1..n : Far(i)}
  <2> HIDE DEF Far
  <2>0. 0 # 1
    OBVIOUS
  <2>1. {i \in 1..n : (IF Far(i) THEN 1 ELSE 0) = 1} = Z
    BY <2>0, Zenon
  <2>2. {i \in 1..n : (IF Far(i) THEN 1 ELSE 0) = 0} = (1..n) \ Z
    BY <2>0, Zenon
  <2>3. Histogram(shLog)[1] = Cardinality(Z) /\ Histogram(shLog)[0] = Cardinality((1..n) \ Z)
    BY <1>1, <2>1, <2>2 DEF Histogram, Far
  <2>4. Z \in SUBSET (1..n)
    OBVIOUS
  <2> HIDE DEF Z, n
  <2> QED BY <1>1, <2>3, <2>4, TwoParts
<1> QED BY <1>2, <1>3, <1>4 DEF ShTypeOK

-----------------------------------------------------------------------------
(* The environment of the learner.                                         *)

\* The greater and the smaller of two.
LEMMA MaxOfTwo ==
  ASSUME NEW x \in Int, NEW y \in Int
  PROVE  /\ Max({x, y}) = IF x >= y THEN x ELSE y
         /\ Min({x, y}) = IF x <= y THEN x ELSE y
<1>1. Max({x, y}) \in {x, y} /\ \A z \in {x, y} : Max({x, y}) >= z
  <2>1. \E m \in {x, y} : \A z \in {x, y} : m >= z
    OBVIOUS
  <2> QED BY <2>1 DEF Max
<1>2. Min({x, y}) \in {x, y} /\ \A z \in {x, y} : Min({x, y}) <= z
  <2>1. \E m \in {x, y} : \A z \in {x, y} : m <= z
    OBVIOUS
  <2> QED BY <2>1 DEF Min
<1> QED BY <1>1, <1>2

\* What the environment's constants are.
LEMMA EnvConstants ==
  /\ EnvLow \in Nat /\ EnvLow > 0 /\ EnvHigh \in Nat /\ EnvCap \in Int /\ AntennaGain \in Int
  /\ RequiredEirp \in Int /\ EnvCap - AntennaGain < Unbounded
  /\ ProposedMHz \subseteq Int /\ ProposedDbm \subseteq Int /\ MaxEnvRows \in Nat
BY EnvAssumption

\* What an agent may propose is numbers.
LEMMA ProposalNumbers ==
  ASSUME NEW a \in Proposals
  PROVE  a \in [mhz : Int, dbm : Int] /\ a.mhz \in Int /\ a.dbm \in Int
<1>1. a \in [mhz : ProposedMHz, dbm : ProposedDbm]
  BY DEF Proposals
<1>2. a.mhz \in Int /\ a.dbm \in Int /\ a = [mhz |-> a.mhz, dbm |-> a.dbm]
  BY <1>1, EnvConstants
<1> QED BY <1>2

\* A carrier lies in the band when its middle is half a width inside.
LEMMA HalfWidth ==
  ASSUME envWidth \in EnvWidths
  PROVE  /\ envWidth \in Nat /\ envWidth \div 2 \in Nat
         /\ envWidth = 2 * (envWidth \div 2)
<1>1. envWidth \in Nat /\ envWidth % 2 = 0
  BY EnvAssumption
<1> QED BY <1>1

\* What disposing of a proposal makes of it.
LEMMA Disposed ==
  ASSUME envWidth \in EnvWidths, NEW a \in Proposals
  PROVE  LET d == DisposeCarrier(a)
             half == envWidth \div 2
         IN  /\ d \in [safe : [mhz : Int, dbm : Int], refused : BOOLEAN]
             /\ ~SanePayload(a) \/ envWidth > EnvHigh - EnvLow =>
                  d.safe = a /\ d.refused
             /\ ~(~SanePayload(a) \/ envWidth > EnvHigh - EnvLow) =>
                  /\ ~d.refused
                  /\ d.safe.mhz = IF a.mhz < EnvLow + half THEN EnvLow + half
                                  ELSE IF a.mhz > EnvHigh - half THEN EnvHigh - half ELSE a.mhz
                  /\ d.safe.dbm = IF a.dbm <= EnvCap - AntennaGain THEN a.dbm
                                  ELSE EnvCap - AntennaGain
<1> DEFINE half == envWidth \div 2
           d == DisposeCarrier(a)
<1>0. half \in Nat /\ envWidth = 2 * half /\ envWidth \in Nat
  BY HalfWidth
<1> HIDE DEF half
<1>1. /\ a \in [mhz : Int, dbm : Int] /\ a.mhz \in Int /\ a.dbm \in Int
      /\ EnvLow \in Int /\ EnvHigh \in Int /\ EnvCap \in Int /\ AntennaGain \in Int
  BY EnvConstants, ProposalNumbers
<1>2. CASE ~SanePayload(a) \/ envWidth > EnvHigh - EnvLow
  <2>1. d = [safe |-> a, refused |-> TRUE]
    BY <1>2 DEF DisposeCarrier
  <2> QED BY <1>1, <1>2, <2>1
<1>3. CASE ~(~SanePayload(a) \/ envWidth > EnvHigh - EnvLow)
  <2> DEFINE x == Min({a.mhz, EnvHigh - half})
             y == Max({EnvLow + half, x})
             z == Min({a.dbm, EnvCap - AntennaGain})
  <2>1. d = [safe |-> [mhz |-> y, dbm |-> z], refused |-> FALSE]
    BY <1>3 DEF DisposeCarrier, half
  <2>2. x = IF a.mhz <= EnvHigh - half THEN a.mhz ELSE EnvHigh - half
    <3>1. EnvHigh - half \in Int
      BY <1>0, <1>1
    <3> QED BY <1>1, <3>1, MaxOfTwo
  <2>3. z = IF a.dbm <= EnvCap - AntennaGain THEN a.dbm ELSE EnvCap - AntennaGain
    BY <1>1, MaxOfTwo
  <2>4. x \in Int
    BY <1>0, <1>1, <2>2
  <2>5. y = IF EnvLow + half >= x THEN EnvLow + half ELSE x
    <3> HIDE DEF x
    <3> QED BY <1>0, <1>1, <2>4, MaxOfTwo
  <2> HIDE DEF x, y, z
  <2>6. EnvLow + half <= EnvHigh - half
    BY <1>0, <1>1, <1>3
  <2>7. y = IF a.mhz < EnvLow + half THEN EnvLow + half
            ELSE IF a.mhz > EnvHigh - half THEN EnvHigh - half ELSE a.mhz
    BY <1>0, <1>1, <2>2, <2>5, <2>6
  <2>8. y \in Int /\ z \in Int
    BY <1>0, <1>1, <2>3, <2>7
  <2> QED BY <1>3, <2>1, <2>3, <2>7, <2>8 DEF half
<1> QED BY <1>2, <1>3

\* The mask marks what the Shield passes unchanged.
LEMMA MaskTrue ==
  ASSUME envWidth \in EnvWidths, NEW a \in Proposals
  PROVE  /\ FeasibleMask(a) <=> IsFeasible(a)
         /\ FeasibleMask(a) <=> DisposeCarrier(a) = [safe |-> a, refused |-> FALSE]
<1> DEFINE half == envWidth \div 2
           d == DisposeCarrier(a)
<1>0. half \in Nat /\ envWidth = 2 * half /\ envWidth \in Nat
  BY HalfWidth
<1>1. /\ a \in [mhz : Int, dbm : Int] /\ a.mhz \in Int /\ a.dbm \in Int
      /\ EnvLow \in Int /\ EnvHigh \in Int /\ EnvCap \in Int /\ AntennaGain \in Int
      /\ EnvLow > 0
  BY EnvConstants, ProposalNumbers
<1>2. FeasibleMask(a) <=> IsFeasible(a)
  BY <1>1 DEF FeasibleMask, IsFeasible, SanePayload, OccupiedInBand, UnderCap, NotANumber
<1>3. /\ d \in [safe : [mhz : Int, dbm : Int], refused : BOOLEAN]
      /\ ~SanePayload(a) \/ envWidth > EnvHigh - EnvLow =>
           d.safe = a /\ d.refused
      /\ ~(~SanePayload(a) \/ envWidth > EnvHigh - EnvLow) =>
           /\ ~d.refused
           /\ d.safe.mhz = IF a.mhz < EnvLow + half THEN EnvLow + half
                           ELSE IF a.mhz > EnvHigh - half THEN EnvHigh - half ELSE a.mhz
           /\ d.safe.dbm = IF a.dbm <= EnvCap - AntennaGain THEN a.dbm
                           ELSE EnvCap - AntennaGain
  BY Disposed
<1> HIDE DEF half, d
<1>4. d = [safe |-> a, refused |-> FALSE] <=>
        ~d.refused /\ d.safe.mhz = a.mhz /\ d.safe.dbm = a.dbm
  BY <1>1, <1>3
<1>5. IsFeasible(a) => ~d.refused /\ d.safe.mhz = a.mhz /\ d.safe.dbm = a.dbm
  <2> SUFFICES ASSUME IsFeasible(a)
               PROVE  ~d.refused /\ d.safe.mhz = a.mhz /\ d.safe.dbm = a.dbm
    OBVIOUS
  <2>1. /\ SanePayload(a) /\ a.mhz * 2 - envWidth >= 2 * EnvLow
        /\ a.mhz * 2 + envWidth <= 2 * EnvHigh /\ a.dbm + AntennaGain <= EnvCap
    BY DEF IsFeasible, OccupiedInBand, UnderCap, Eirp
  <2>2. /\ a.mhz >= EnvLow + half /\ a.mhz <= EnvHigh - half /\ a.dbm <= EnvCap - AntennaGain
        /\ ~(envWidth > EnvHigh - EnvLow)
    BY <1>0, <1>1, <2>1
  <2> QED BY <1>0, <1>1, <1>3, <2>1, <2>2
<1>6. ~d.refused /\ d.safe.mhz = a.mhz /\ d.safe.dbm = a.dbm => IsFeasible(a)
  <2> SUFFICES ASSUME ~d.refused, d.safe.mhz = a.mhz, d.safe.dbm = a.dbm PROVE IsFeasible(a)
    OBVIOUS
  <2>1. SanePayload(a) /\ ~(envWidth > EnvHigh - EnvLow)
    BY <1>3
  <2>2. a.mhz >= EnvLow + half /\ a.mhz <= EnvHigh - half /\ a.dbm <= EnvCap - AntennaGain
    BY <1>0, <1>1, <1>3, <2>1
  <2>3. /\ a.mhz * 2 - envWidth >= 2 * EnvLow /\ a.mhz * 2 + envWidth <= 2 * EnvHigh
        /\ a.dbm + AntennaGain <= EnvCap
    BY <1>0, <1>1, <2>2
  <2> QED BY <2>1, <2>3 DEF IsFeasible, OccupiedInBand, UnderCap, Eirp
<1> QED BY <1>2, <1>4, <1>5, <1>6 DEF d

\* What is executed and not refused is inside the limits.
LEMMA ExecutedFeasible ==
  ASSUME envWidth \in EnvWidths, NEW a \in Proposals, ~DisposeCarrier(a).refused
  PROVE  IsFeasible(DisposeCarrier(a).safe)
<1> DEFINE half == envWidth \div 2
           d == DisposeCarrier(a)
<1>0. half \in Nat /\ envWidth = 2 * half /\ envWidth \in Nat
  BY HalfWidth
<1>1. /\ a \in [mhz : Int, dbm : Int] /\ a.mhz \in Int /\ a.dbm \in Int
      /\ EnvLow \in Int /\ EnvHigh \in Int /\ EnvCap \in Int /\ AntennaGain \in Int
      /\ EnvLow > 0 /\ EnvCap - AntennaGain < Unbounded
  BY EnvConstants, ProposalNumbers
<1>3. /\ SanePayload(a) /\ ~(envWidth > EnvHigh - EnvLow)
      /\ d.safe.mhz = IF a.mhz < EnvLow + half THEN EnvLow + half
                      ELSE IF a.mhz > EnvHigh - half THEN EnvHigh - half ELSE a.mhz
      /\ d.safe.dbm = IF a.dbm <= EnvCap - AntennaGain THEN a.dbm
                      ELSE EnvCap - AntennaGain
  BY Disposed
<1> HIDE DEF half, d
<1>4. envWidth > 0 /\ a.dbm # Unbounded
  BY <1>3 DEF SanePayload
<1>5. d.safe.mhz \in Int /\ d.safe.mhz >= EnvLow + half /\ d.safe.mhz <= EnvHigh - half
  BY <1>0, <1>1, <1>3
<1>6. d.safe.dbm \in Int /\ d.safe.dbm <= EnvCap - AntennaGain
  BY <1>1, <1>3
<1>7. d.safe.dbm # Unbounded
  BY <1>1, <1>6 DEF Unbounded
<1>8. d.safe.mhz > 0 /\ d.safe.mhz * 2 - envWidth >= 2 * EnvLow /\ d.safe.mhz * 2 + envWidth <= 2 * EnvHigh
  BY <1>0, <1>1, <1>5
<1>9. d.safe.dbm + AntennaGain <= EnvCap
  BY <1>1, <1>6
<1> QED BY <1>4, <1>7, <1>8, <1>9 DEF IsFeasible, SanePayload, OccupiedInBand, UnderCap, Eirp, d

\* The subband taken is the nearest, the first of those as near.
Away(b, mhz) == IF SubbandCentres[b] > mhz THEN SubbandCentres[b] - mhz ELSE mhz - SubbandCentres[b]

Nearest(b, mhz) ==
  \A c \in DOMAIN SubbandCentres :
    Away(b, mhz) < Away(c, mhz) \/ (Away(b, mhz) = Away(c, mhz) /\ b <= c)

\* The centre of a subband is in the band, for every width offered.
LEMMA CentresInBand ==
  /\ Len(SubbandCentres) \in Nat /\ Len(SubbandCentres) >= 1
  /\ DOMAIN SubbandCentres = 1..Len(SubbandCentres)
  /\ \A b \in DOMAIN SubbandCentres :
       SubbandCentres[b] \in Int /\ SubbandCentres[b] >= EnvLow /\ SubbandCentres[b] <= EnvHigh
<1>1. SubbandCentres # <<>> /\ SubbandCentres \in Seq(EnvLow..EnvHigh)
  BY EnvAssumption
<1>2. Len(SubbandCentres) \in Nat /\ Len(SubbandCentres) >= 1 /\ DOMAIN SubbandCentres = 1..Len(SubbandCentres)
  BY <1>1
<1>3. \A b \in DOMAIN SubbandCentres : SubbandCentres[b] \in EnvLow..EnvHigh
  BY <1>1, <1>2, ElementOfSeq
<1> QED BY <1>2, <1>3, EnvConstants

\* Some subband is the nearest.
LEMMA NearestExists ==
  ASSUME NEW mhz \in Int
  PROVE  \E b \in DOMAIN SubbandCentres : Nearest(b, mhz)
<1> DEFINE D == DOMAIN SubbandCentres
           S == {Away(b, mhz) : b \in D}
<1>0. /\ D = 1..Len(SubbandCentres) /\ Len(SubbandCentres) \in Nat /\ 1 \in D
      /\ \A b \in D : SubbandCentres[b] \in Int
  BY CentresInBand
<1> HIDE DEF D
<1>1. \A b \in D : Away(b, mhz) \in Nat
  BY <1>0 DEF Away
<1>2. S \in SUBSET Nat /\ S # {}
  BY <1>0, <1>1
<1>3. PICK d \in S : \A e \in S : d <= e
  BY <1>2, LeastPosition
<1> DEFINE T == {b \in D : Away(b, mhz) = d}
<1>4. T \in SUBSET Nat /\ T # {}
  BY <1>0, <1>3
<1>5. PICK b \in T : \A c \in T : b <= c
  BY <1>4, LeastPosition
<1>6. \A c \in D : Away(b, mhz) < Away(c, mhz) \/ (Away(b, mhz) = Away(c, mhz) /\ b <= c)
  <2> TAKE c \in D
  <2>1. d <= Away(c, mhz) /\ Away(b, mhz) = d /\ d \in Nat /\ Away(c, mhz) \in Nat
    BY <1>1, <1>2, <1>3, <1>5
  <2>2. Away(c, mhz) = d => b <= c
    BY <1>5
  <2> QED BY <2>1, <2>2
<1> QED BY <1>5, <1>6 DEF Nearest, D

\* _to_subband picks a nearest one.
LEMMA SubbandNearest ==
  ASSUME NEW mhz \in Int, mhz # NotANumber, EnvLow <= mhz, mhz <= EnvHigh
  PROVE  SubbandFor(mhz) \in DOMAIN SubbandCentres /\ Nearest(SubbandFor(mhz), mhz)
<1>1. SubbandFor(mhz) = CHOOSE b \in DOMAIN SubbandCentres : Nearest(b, mhz)
  <2>1. ~(mhz < EnvLow \/ mhz > EnvHigh)
    BY EnvConstants
  <2> QED BY <2>1 DEF SubbandFor, Nearest, Away
<1> QED BY <1>1, NearestExists

\* A centre is in the subband that is nearest to anything.
LEMMA CentreOfNearest ==
  ASSUME NEW mhz \in Int, NEW b \in DOMAIN SubbandCentres, Nearest(b, mhz)
  PROVE  SubbandFor(SubbandCentres[b]) = b
<1> DEFINE x == SubbandCentres[b]
           c == SubbandFor(x)
<1>1. x \in Int /\ x >= EnvLow /\ x <= EnvHigh /\ x # NotANumber
  BY CentresInBand, EnvConstants DEF NotANumber
<1> HIDE DEF x
<1>2. c \in DOMAIN SubbandCentres /\ Nearest(c, x)
  BY <1>1, SubbandNearest
<1> HIDE DEF c
<1>3. /\ SubbandCentres[c] \in Int /\ b \in Nat /\ c \in Nat
  BY <1>2, CentresInBand
<1>4. Away(b, x) = 0
  BY <1>1 DEF Away, x
<1>5. Away(c, x) < Away(b, x) \/ (Away(c, x) = Away(b, x) /\ c <= b)
  BY <1>2 DEF Nearest
<1>6. Away(c, x) = 0 /\ c <= b
  <2>1. Away(c, x) \in Nat
    BY <1>1, <1>3 DEF Away
  <2> QED BY <1>4, <1>5, <2>1
<1>7. SubbandCentres[c] = SubbandCentres[b]
  BY <1>1, <1>3, <1>6 DEF Away, x
<1>8. Away(c, mhz) = Away(b, mhz)
  BY <1>7 DEF Away
<1>9. Away(b, mhz) < Away(c, mhz) \/ (Away(b, mhz) = Away(c, mhz) /\ b <= c)
  BY <1>2 DEF Nearest
<1>10. Away(b, mhz) \in Int
  BY <1>1 DEF Away, x
<1>11. b <= c
  BY <1>8, <1>9, <1>10
<1> QED BY <1>3, <1>6, <1>11 DEF c, x

\* The receivers served in a subband at a power, and their number.
Served(b, eirp) == {r \in DOMAIN ChannelGains : eirp + ChannelGains[r][b] >= RequiredEirp}

\* As many receivers are served as there are, at most.
LEMMA ServedNumber ==
  /\ IsFiniteSet(DOMAIN ChannelGains) /\ Cardinality(DOMAIN ChannelGains) \in Nat
  /\ \A b, e : /\ IsFiniteSet(Served(b, e))
               /\ Cardinality(Served(b, e)) \in 0..Cardinality(DOMAIN ChannelGains)
<1>1. Len(ChannelGains) \in Nat /\ DOMAIN ChannelGains = 1..Len(ChannelGains)
  BY EnvAssumption, LenProperties
<1>2. IsFiniteSet(DOMAIN ChannelGains) /\ Cardinality(DOMAIN ChannelGains) \in Nat
  BY <1>1, FS_Interval, FS_CardinalityType
<1>3. ASSUME NEW b, NEW e
      PROVE  /\ IsFiniteSet(Served(b, e))
             /\ Cardinality(Served(b, e)) \in 0..Cardinality(DOMAIN ChannelGains)
  <2>1. Served(b, e) \in SUBSET (DOMAIN ChannelGains)
    BY DEF Served
  <2>2. IsFiniteSet(Served(b, e)) /\ Cardinality(Served(b, e)) <= Cardinality(DOMAIN ChannelGains)
    BY <1>2, <2>1, FS_Subset
  <2>3. Cardinality(Served(b, e)) \in Nat
    BY <2>2, FS_CardinalityType
  <2> QED BY <1>2, <2>2, <2>3
<1> QED BY <1>2, <1>3

\* The reward of a step is the number of receivers it serves.
LEMMA RewardServed ==
  ASSUME NEW a
  PROVE  Reward(a) = IF SubbandFor(a.mhz) = 0 THEN -1
                     ELSE Cardinality(Served(SubbandFor(a.mhz), Eirp(a)))
BY DEF Reward, Served

\* It is a number of receivers.
LEMMA RewardRange ==
  ASSUME NEW a, Reward(a) # -1
  PROVE  Reward(a) \in 0..Cardinality(DOMAIN ChannelGains)
BY RewardServed, ServedNumber

\* The gain of a receiver in a subband.
LEMMA GainNumbers ==
  ASSUME NEW r \in DOMAIN ChannelGains, NEW b \in DOMAIN SubbandCentres
  PROVE  ChannelGains[r][b] \in Int
<1>1. ChannelGains \in Seq([DOMAIN SubbandCentres -> Int])
  BY EnvAssumption
<1>2. ChannelGains[r] \in [DOMAIN SubbandCentres -> Int]
  BY <1>1
<1> QED BY <1>2

\* The reward of what is within the limits is at most the optimum.
LEMMA OptimumBounds ==
  ASSUME envWidth \in EnvWidths, NEW a \in [mhz : Int, dbm : Int], IsFeasible(a)
  PROVE  Reward(a) <= OptimalFeasibleReward
<1> DEFINE b == SubbandFor(a.mhz)
           best == [mhz |-> SubbandCentres[b], dbm |-> EnvCap - AntennaGain]
           rewards == {Reward([mhz |-> SubbandCentres[c], dbm |-> EnvCap - AntennaGain]) :
                         c \in DOMAIN SubbandCentres} \cup {0}
           n == Cardinality(DOMAIN ChannelGains)
<1>0. /\ a.mhz \in Int /\ a.dbm \in Int /\ EnvLow \in Nat /\ EnvLow > 0 /\ EnvHigh \in Nat
      /\ EnvCap \in Int /\ AntennaGain \in Int /\ RequiredEirp \in Int
  BY EnvConstants
<1>1. a.mhz # NotANumber /\ EnvLow <= a.mhz /\ a.mhz <= EnvHigh /\ a.dbm + AntennaGain <= EnvCap
  <2>1. /\ a.mhz * 2 - envWidth >= 2 * EnvLow /\ a.mhz * 2 + envWidth <= 2 * EnvHigh
        /\ a.mhz > 0 /\ a.dbm + AntennaGain <= EnvCap
    BY DEF IsFeasible, SanePayload, OccupiedInBand, UnderCap, Eirp
  <2>2. envWidth \in Nat
    BY HalfWidth
  <2> QED BY <1>0, <2>1, <2>2 DEF NotANumber
<1>2. b \in DOMAIN SubbandCentres /\ Nearest(b, a.mhz)
  BY <1>0, <1>1, SubbandNearest
<1> HIDE DEF b
<1>3. b # 0
  BY <1>2, CentresInBand
<1>4. Reward(a) = Cardinality(Served(b, Eirp(a)))
  BY <1>3, RewardServed DEF b
<1>5. Reward(best) = Cardinality(Served(b, EnvCap))
  <2>1. SubbandFor(best.mhz) = b
    BY <1>0, <1>2, CentreOfNearest
  <2>2. Eirp(best) = EnvCap
    BY <1>0 DEF Eirp
  <2> QED BY <1>3, <2>1, <2>2, RewardServed
<1>6. Served(b, Eirp(a)) \in SUBSET Served(b, EnvCap)
  <2> SUFFICES ASSUME NEW r \in DOMAIN ChannelGains, Eirp(a) + ChannelGains[r][b] >= RequiredEirp
               PROVE  EnvCap + ChannelGains[r][b] >= RequiredEirp
    BY DEF Served
  <2>1. ChannelGains[r][b] \in Int
    BY <1>2, GainNumbers
  <2> QED BY <1>0, <1>1, <2>1 DEF Eirp
<1>7. Reward(a) <= Reward(best)
  BY <1>4, <1>5, <1>6, ServedNumber, FS_Subset
<1>8. \A c \in DOMAIN SubbandCentres :
        Reward([mhz |-> SubbandCentres[c], dbm |-> EnvCap - AntennaGain]) \in 0..n
  <2> TAKE c \in DOMAIN SubbandCentres
  <2> DEFINE x == [mhz |-> SubbandCentres[c], dbm |-> EnvCap - AntennaGain]
  <2>1. SubbandFor(SubbandCentres[c]) \in DOMAIN SubbandCentres
    <3>1. /\ SubbandCentres[c] \in Int /\ SubbandCentres[c] # NotANumber
          /\ EnvLow <= SubbandCentres[c] /\ SubbandCentres[c] <= EnvHigh
      BY <1>0, CentresInBand DEF NotANumber
    <3> QED BY <3>1, SubbandNearest
  <2>2. SubbandFor(x.mhz) # 0
    BY <2>1, CentresInBand
  <2> QED BY <2>2, RewardServed, ServedNumber
<1>9. n \in Nat /\ rewards \in SUBSET (0..n) /\ rewards # {} /\ Reward(best) \in rewards
  <2>1. n \in Nat /\ 0 \in 0..n
    BY ServedNumber
  <2>2. rewards \in SUBSET (0..n)
    <3> HIDE DEF n
    <3> QED BY <1>8, <2>1
  <2> QED BY <1>2, <2>1, <2>2
<1>10. OptimalFeasibleReward = Max(rewards)
  BY DEF OptimalFeasibleReward
<1> HIDE DEF rewards, n, best
<1>11. Max(rewards) \in rewards /\ \A y \in rewards : y <= Max(rewards)
  BY <1>9, MaxUpTo
<1>12. Reward(a) \in Int /\ Reward(best) \in Int /\ Max(rewards) \in Int /\ Reward(best) <= Max(rewards)
  <2>1. \A y \in 0..n : y \in Int
    OBVIOUS
  <2>2. Reward(a) \in Int
    BY <1>4, ServedNumber
  <2>3. \A y \in rewards : y \in Int
    BY <1>9, <2>1
  <2> QED BY <1>9, <1>11, <2>2, <2>3
<1> QED BY <1>7, <1>10, <1>12

-----------------------------------------------------------------------------
\* A row that step() recorded, of an action that has a reward.
TrueRows == {row \in {StepRow(a) : a \in Proposals} : row.reward # -1}

\* One whose reward was changed.
EditedRows == {[row EXCEPT !.reward = row.reward + 1] : row \in TrueRows}

OtherRows == {[kind |-> "other"]}

\* The transitions, row by row.
LEMMA TransitionSteps ==
  ASSUME NEW store \in Seq(TrueRows \cup OtherRows)
  PROVE  \E h \in [0..Len(store) -> Seq(TrueRows)] :
           /\ h[0] = <<>>
           /\ \A n \in 1..Len(store) : h[n] = NextTransition(h[n - 1], store[n])
           /\ FoldLeft(NextTransition, <<>>, store) = h[Len(store)]
<1> DEFINE op == [p \in (Seq(TrueRows)) \X (TrueRows \cup OtherRows) |-> NextTransition(p[1], p[2])]
           base == <<>>
           body(it) == [t \in SUBSET (1..Len(store)) |->
                          IF t = {} THEN base
                          ELSE NextTransition(it[t \ {Max(t)}], store[Max(t)])]
           iter == CHOOSE it : it = body(it)
<1>0. Len(store) \in Nat /\ DOMAIN store = 1..Len(store) /\ store \in Seq(TrueRows \cup OtherRows)
  BY LenProperties
<1>1. base \in Seq(TrueRows) /\ op \in [(Seq(TrueRows)) \X (TrueRows \cup OtherRows) -> Seq(TrueRows)]
  <2>1. base \in Seq(TrueRows)
    OBVIOUS
  <2>2. ASSUME NEW x \in Seq(TrueRows), NEW y \in TrueRows \cup OtherRows PROVE NextTransition(x, y) \in Seq(TrueRows)
    <3>1. y.kind = "step" => y \in TrueRows
      BY DEF OtherRows
    <3> QED BY <3>1 DEF NextTransition
  <2> QED BY <2>1, <2>2
<1>2. \A x \in Seq(TrueRows), y \in TrueRows \cup OtherRows : op[<<x, y>>] = NextTransition(x, y)
  OBVIOUS
<1> HIDE DEF op, base
<1>3. PICK g \in [SUBSET (1..Len(store)) -> Seq(TrueRows)] : FoldsTo(g, store, base, op)
  BY <1>0, <1>1, FoldExists
<1>4. g = body(g)
  <2>1. \A t \in SUBSET (1..Len(store)) :
          g[t] = IF t = {} THEN base ELSE NextTransition(g[t \ {Max(t)}], store[Max(t)])
    BY <1>0, <1>2, <1>3, FoldPlaces DEF FoldsTo
  <2> QED BY <2>1
<1>5. iter = body(iter)
  BY <1>4
<1>6. FoldLeft(NextTransition, <<>>, store) = iter[1..Len(store)]
  BY <1>0 DEF FoldLeft, MapThenFoldSet, base
<1> HIDE DEF iter
<1>7. FoldsWithin(iter, store, Seq(TrueRows), base, op)
  <2>1. \A t \in SUBSET (1..Len(store)) :
          iter[t] = IF t = {} THEN base ELSE NextTransition(iter[t \ {Max(t)}], store[Max(t)])
    BY <1>5
  <2> HIDE DEF body
  <2> QED BY <1>0, <1>2, <2>1, FoldPlaces DEF FoldsWithin
<1> HIDE DEF body
<1>8. FoldValue(iter[1..Len(store)], store, Seq(TrueRows), base, op)
  BY <1>0, <1>1, <1>7, FoldSteps
<1>9. PICK h \in [0..Len(store) -> Seq(TrueRows)] :
        /\ h[0] = base
        /\ \A n \in 1..Len(store) : h[n] = op[<<h[n - 1], store[n]>>]
        /\ FoldLeft(NextTransition, <<>>, store) = h[Len(store)]
  BY <1>6, <1>8 DEF FoldValue
<1>10. \A n \in 1..Len(store) : h[n] = NextTransition(h[n - 1], store[n])
  <2> TAKE n \in 1..Len(store)
  <2>1. h[n - 1] \in Seq(TrueRows) /\ store[n] \in TrueRows \cup OtherRows
    BY <1>0, <1>9
  <2> QED BY <1>2, <1>9, <2>1
<1> QED BY <1>9, <1>10 DEF base

\* The three kinds of rows tell each other apart.
LEMMA RowKinds ==
  /\ \A row \in TrueRows \cup EditedRows : row.kind = "step"
  /\ \A row \in OtherRows : row.kind = "other"
<1>1. \A row \in TrueRows :
        /\ row.kind = "step"
        /\ [row EXCEPT !.reward = row.reward + 1].kind = "step"
  BY DEF TrueRows, StepRow
<1>2. \A row \in EditedRows : row.kind = "step"
  BY <1>1 DEF EditedRows
<1>3. \A row \in OtherRows : row.kind = "other"
  BY DEF OtherRows
<1> QED BY <1>1, <1>2, <1>3

CleanRows == TrueRows \cup OtherRows
AllRows == TrueRows \cup EditedRows \cup OtherRows

\* The store holds what was recorded, an edit apart; what was replayed, the
\* records of a store nobody had edited.
EnvInd ==
  /\ envWidth \in EnvWidths /\ envEdited \in BOOLEAN
  /\ envStore \in Seq(AllRows)
  /\ ~envEdited => envStore \in Seq(CleanRows)
  /\ Len(envStore) <= MaxEnvRows
  /\ envReplay.outcome \in {"none", "loaded", "refused"}
  /\ envReplay.transitions \in Seq(TrueRows)

\* It holds in the first state of an environment.
LEMMA EnvIndInit == EnvInit => EnvInd
<1> SUFFICES ASSUME EnvInit PROVE EnvInd
  OBVIOUS
<1>1. /\ envWidth \in EnvWidths /\ envEdited = FALSE /\ envStore = <<>>
      /\ envReplay.outcome = "none" /\ envReplay.transitions = <<>>
  BY DEF EnvInit, NoReplayYet
<1>2. Len(envStore) <= MaxEnvRows
  BY <1>1, EnvConstants
<1>3. \A S : envStore \in Seq(S) /\ envReplay.transitions \in Seq(S)
  BY <1>1
<1> QED BY <1>1, <1>2, <1>3 DEF EnvInd

\* The width never changes, and with it what step() would record.
LEMMA RowsStay ==
  ASSUME envWidth' = envWidth
  PROVE  TrueRows' = TrueRows /\ CleanRows' = CleanRows /\ AllRows' = AllRows
BY DEF CleanRows, AllRows, OtherRows, TrueRows, EditedRows, StepRow, DisposeCarrier, SanePayload

\* Kept by every step, edit and load.
LEMMA EnvIndStep == EnvInd /\ [EnvNext]_envVars => EnvInd'
<1> SUFFICES ASSUME EnvInd, [EnvNext]_envVars PROVE EnvInd'
  OBVIOUS
<1> DEFINE All == AllRows
           Clean == CleanRows
<1>0. /\ envWidth \in EnvWidths /\ envEdited \in BOOLEAN
      /\ envStore \in Seq(All) /\ Len(envStore) \in Nat
      /\ ~envEdited => envStore \in Seq(Clean)
      /\ Len(envStore) <= MaxEnvRows
      /\ envReplay.outcome \in {"none", "loaded", "refused"}
      /\ envReplay.transitions \in Seq(TrueRows) /\ MaxEnvRows \in Nat
  BY LenProperties, EnvConstants DEF EnvInd
<1>w. envWidth' = envWidth
  BY DEF envVars, EnvNext, StepEnv, OtherRow, EditReward, LoadTransitions
<1>r. TrueRows' = TrueRows /\ Clean' = Clean /\ All' = All
  BY <1>w, RowsStay
<1> DEFINE RowKept ==
                  /\ envEdited' \in BOOLEAN
                  /\ envStore' \in Seq(All)
                  /\ ~envEdited' => envStore' \in Seq(Clean)
                  /\ Len(envStore') <= MaxEnvRows
                  /\ envReplay'.outcome \in {"none", "loaded", "refused"}
                  /\ envReplay'.transitions \in Seq(TrueRows)
<1> SUFFICES RowKept
  BY <1>0, <1>w, <1>r DEF EnvInd
<1>1. CASE UNCHANGED envVars
  BY <1>0, <1>1 DEF envVars
<1>2. ASSUME NEW row \in Clean, Len(envStore) < MaxEnvRows, envStore' = Append(envStore, row),
             UNCHANGED <<envWidth, envEdited, envReplay>>
      PROVE  RowKept
  <2>1. row \in All
    BY <1>2 DEF AllRows, CleanRows
  <2> HIDE DEF All, Clean
  <2>2. Len(envStore') = Len(envStore) + 1 /\ envStore' \in Seq(All)
    BY <1>0, <1>2, <2>1, AppendProperties
  <2>3. ~envEdited' => envStore' \in Seq(Clean)
    BY <1>0, <1>2, AppendProperties
  <2>4. Len(envStore') <= MaxEnvRows
    BY <1>0, <1>2, <2>2
  <2> QED BY <1>0, <1>2, <2>2, <2>3, <2>4
<1>3. ASSUME NEW a \in Proposals, StepEnv(a) PROVE RowKept
  <2>1. StepRow(a) \in Clean
    BY <1>3 DEF StepEnv, TrueRows, CleanRows
  <2> HIDE DEF RowKept, Clean
  <2> QED BY <1>2, <1>3, <2>1 DEF StepEnv
<1>4. CASE OtherRow
  <2>1. [kind |-> "other"] \in Clean
    BY DEF OtherRows, CleanRows
  <2> HIDE DEF RowKept, Clean
  <2> QED BY <1>2, <1>4, <2>1 DEF OtherRow
<1>5. ASSUME NEW i \in DOMAIN envStore, EditReward(i) PROVE RowKept
  <2> DEFINE row == envStore[i]
             new == [row EXCEPT !.reward = row.reward + 1]
  <2>1. /\ row.kind = "step" /\ ~envEdited /\ envEdited' = TRUE /\ envReplay' = envReplay
        /\ envStore' = [envStore EXCEPT ![i] = new]
    BY <1>5 DEF EditReward
  <2>2. row \in Clean
    <3> HIDE DEF Clean
    <3>1. envStore \in Seq(Clean) /\ i \in 1..Len(envStore)
      BY <1>0, <2>1
    <3> QED BY <3>1, ElementOfSeq
  <2>3. row \in TrueRows
    BY <2>1, <2>2, RowKinds DEF CleanRows
  <2>4. new \in All
    BY <2>3 DEF EditedRows, AllRows
  <2> HIDE DEF All, Clean, new
  <2>5. envStore' \in Seq(All) /\ Len(envStore') = Len(envStore)
    BY <1>0, <2>1, <2>4, ExceptSeq
  <2> QED BY <1>0, <2>1, <2>5
<1>6. CASE LoadTransitions
  <2>1. /\ envStore' = envStore /\ envEdited' = envEdited
        /\ envReplay' = IF envEdited THEN [outcome |-> "refused", transitions |-> <<>>]
                        ELSE [outcome |-> "loaded",
                              transitions |-> FoldLeft(NextTransition, <<>>, envStore)]
    BY <1>6 DEF LoadTransitions
  <2>2. ~envEdited => FoldLeft(NextTransition, <<>>, envStore) \in Seq(TrueRows)
    <3> SUFFICES ASSUME ~envEdited PROVE FoldLeft(NextTransition, <<>>, envStore) \in Seq(TrueRows)
      OBVIOUS
    <3>1. PICK h \in [0..Len(envStore) -> Seq(TrueRows)] :
            FoldLeft(NextTransition, <<>>, envStore) = h[Len(envStore)]
      BY <1>0, TransitionSteps DEF CleanRows
    <3>2. Len(envStore) \in 0..Len(envStore)
      BY <1>0
    <3> QED BY <3>1, <3>2
  <2>3. envReplay'.outcome \in {"none", "loaded", "refused"} /\ envReplay'.transitions \in Seq(TrueRows)
    BY <2>1, <2>2
  <2> HIDE DEF All, Clean
  <2> QED BY <1>0, <2>1, <2>3
<1> HIDE DEF RowKept
<1> QED BY <1>1, <1>3, <1>4, <1>5, <1>6 DEF EnvNext

\* The learner is then told what was executed and what it earned.
LEMMA EnvIndTruth == EnvInd => LearnerToldTruth
<1> SUFFICES ASSUME EnvInd PROVE LearnerToldTruth
  OBVIOUS
<1>0. envWidth \in EnvWidths /\ envReplay.transitions \in Seq(TrueRows)
  BY DEF EnvInd
<1>1. \A a \in Proposals :
        /\ FeasibleMask(a) <=> IsFeasible(a)
        /\ FeasibleMask(a) <=> DisposeCarrier(a) = [safe |-> a, refused |-> FALSE]
  BY <1>0, MaskTrue
<1>2. ASSUME NEW t \in TrueRows
      PROVE  /\ t.reward = Reward(t.executed)
             /\ ~t.refused => /\ IsFeasible(t.executed)
                              /\ t.reward <= OptimalFeasibleReward
             /\ t.projected <=> t.executed # t.proposed
  <2>1. PICK a \in Proposals : t = StepRow(a)
    BY <1>2 DEF TrueRows
  <2> DEFINE d == DisposeCarrier(a)
  <2>2. /\ t.proposed = a /\ t.executed = d.safe /\ t.reward = Reward(d.safe)
        /\ t.refused = d.refused
        /\ t.projected = (d.safe.mhz # a.mhz \/ Eirp(d.safe) < Eirp(a))
    BY <2>1 DEF StepRow
  <2>3. /\ d \in [safe : [mhz : Int, dbm : Int], refused : BOOLEAN]
        /\ ~SanePayload(a) \/ envWidth > EnvHigh - EnvLow => d.safe = a
        /\ ~(~SanePayload(a) \/ envWidth > EnvHigh - EnvLow) =>
             d.safe.dbm = IF a.dbm <= EnvCap - AntennaGain THEN a.dbm ELSE EnvCap - AntennaGain
    BY <1>0, Disposed
  <2>4. ~d.refused => IsFeasible(d.safe)
    BY <1>0, ExecutedFeasible
  <2> HIDE DEF d
  <2>5. d.safe \in [mhz : Int, dbm : Int]
    BY <2>3
  <2>6. ~d.refused => Reward(d.safe) <= OptimalFeasibleReward
    BY <1>0, <2>4, <2>5, OptimumBounds
  <2>7. a \in [mhz : Int, dbm : Int] /\ EnvCap \in Int /\ AntennaGain \in Int
    BY ProposalNumbers, EnvConstants
  <2>8. d.safe.dbm <= a.dbm
    BY <2>3, <2>7
  <2>9. (d.safe.mhz # a.mhz \/ Eirp(d.safe) < Eirp(a)) <=> d.safe # a
    <3>1. Eirp(d.safe) < Eirp(a) <=> d.safe.dbm # a.dbm
      BY <2>5, <2>7, <2>8 DEF Eirp
    <3>2. d.safe = [mhz |-> d.safe.mhz, dbm |-> d.safe.dbm] /\ a = [mhz |-> a.mhz, dbm |-> a.dbm]
      BY <2>5, <2>7
    <3>3. d.safe = a <=> d.safe.mhz = a.mhz /\ d.safe.dbm = a.dbm
      BY <3>2
    <3> QED BY <3>1, <3>3
  <2> QED BY <2>2, <2>4, <2>6, <2>9
<1>3. \A i \in DOMAIN envReplay.transitions : envReplay.transitions[i] \in TrueRows
  BY <1>0, ElementOfSeq
<1> QED BY <1>1, <1>2, <1>3 DEF LearnerToldTruth

\* Its rows are of the known kinds.
LEMMA EnvIndTypes == EnvInd => EnvTypeOK
<1> SUFFICES ASSUME EnvInd PROVE EnvTypeOK
  OBVIOUS
<1> DEFINE All == AllRows
           n == Cardinality(DOMAIN ChannelGains)
<1>0. /\ envStore \in Seq(All) /\ Len(envStore) \in Nat /\ Len(envStore) <= MaxEnvRows
      /\ MaxEnvRows \in Nat /\ n \in Nat
  BY LenProperties, EnvConstants, ServedNumber DEF EnvInd
<1>1. \A row \in TrueRows : row.reward \in 0..n
  <2> TAKE row \in TrueRows
  <2>1. PICK a \in Proposals : row = StepRow(a) /\ row.reward # -1
    BY DEF TrueRows
  <2>2. row.reward = Reward(DisposeCarrier(a).safe)
    BY <2>1 DEF StepRow
  <2> QED BY <2>1, <2>2, RewardRange
<1>2. \A row \in EditedRows : row.reward \in 0..(n + 1)
  <2> TAKE row \in EditedRows
  <2>1. PICK r \in TrueRows : row = [r EXCEPT !.reward = r.reward + 1]
    BY DEF EditedRows
  <2>2. row.reward = r.reward + 1
    BY <2>1 DEF TrueRows, StepRow
  <2> QED BY <1>0, <1>1, <2>2
<1>3. \A i \in DOMAIN envStore : envStore[i].kind = "step" => envStore[i].reward \in 0..(n + MaxEnvRows)
  <2> TAKE i \in DOMAIN envStore
  <2> HIDE DEF n
  <2>1. envStore[i] \in All /\ MaxEnvRows >= 1
    <3> HIDE DEF All
    <3>1. i \in 1..Len(envStore)
      BY <1>0
    <3> QED BY <1>0, <3>1, ElementOfSeq
  <2>2. CASE envStore[i] \in TrueRows
    BY <1>0, <1>1, <2>1, <2>2
  <2>3. CASE envStore[i] \in EditedRows
    BY <1>0, <1>2, <2>1, <2>3
  <2> QED BY <2>1, <2>2, <2>3, RowKinds DEF AllRows
<1> QED BY <1>0, <1>3 DEF EnvTypeOK, EnvInd

-----------------------------------------------------------------------------
(* The federation.                                                         *)

\* Numbers of a sequence have a least and a greatest one.
LEMMA LeastOf ==
  ASSUME NEW s \in Seq(Int), NEW W \in SUBSET ToSet(s), W # {}
  PROVE  /\ \E v \in W : \A w \in W : v <= w
         /\ \E v \in W : \A w \in W : v >= w
<1> DEFINE Among(n) == {w \in W : \E i \in 1..n : s[i] = w}
           Ends(S) == /\ \E v \in S : \A w \in S : v <= w
                      /\ \E v \in S : \A w \in S : v >= w
           Good(n) == n <= Len(s) => Among(n) = {} \/ Ends(Among(n))
           P == {n \in Nat : Good(n)}
<1>0. Len(s) \in Nat /\ DOMAIN s = 1..Len(s) /\ \A i \in 1..Len(s) : s[i] \in Int
  BY LenProperties
<1>1. Good(0)
  OBVIOUS
<1>2. \A n \in Nat : Good(n) => Good(n + 1)
  <2> SUFFICES ASSUME NEW n \in Nat, Good(n), n + 1 <= Len(s) PROVE Among(n + 1) = {} \/ Ends(Among(n + 1))
    OBVIOUS
  <2>0. n <= Len(s) /\ n + 1 \in 1..Len(s) /\ s[n + 1] \in Int /\ \A i \in 1..n : i \in 1..Len(s)
    BY <1>0
  <2>1. Among(n) \subseteq Int
    BY <1>0, <2>0
  <2>2. CASE s[n + 1] \notin W
    <3>1. \A i \in 1..(n + 1) : i \in 1..n \/ i = n + 1
      OBVIOUS
    <3>2. Among(n + 1) = Among(n)
      BY <2>2, <3>1
    <3> QED BY <2>0, <3>2
  <2>3. CASE s[n + 1] \in W
    <3>1. \A i \in 1..(n + 1) : i \in 1..n \/ i = n + 1
      OBVIOUS
    <3>2. Among(n + 1) = Among(n) \cup {s[n + 1]}
      BY <2>3, <3>1
    <3>3. CASE Among(n) = {}
      BY <2>0, <3>2, <3>3
    <3>4. CASE Ends(Among(n))
      <4> HIDE DEF Among
      <4>1. PICK v \in Among(n) : \A w \in Among(n) : v <= w
        BY <3>4
      <4>2. PICK u \in Among(n) : \A w \in Among(n) : u >= w
        BY <3>4
      <4>3. \E x \in Among(n + 1) : \A w \in Among(n + 1) : x <= w
        <5>1. CASE v <= s[n + 1]
          BY <2>0, <2>1, <3>2, <4>1, <5>1
        <5>2. CASE s[n + 1] <= v
          BY <2>0, <2>1, <3>2, <4>1, <5>2
        <5> QED BY <2>0, <2>1, <5>1, <5>2
      <4>4. \E x \in Among(n + 1) : \A w \in Among(n + 1) : x >= w
        <5>1. CASE u >= s[n + 1]
          BY <2>0, <2>1, <3>2, <4>2, <5>1
        <5>2. CASE s[n + 1] >= u
          BY <2>0, <2>1, <3>2, <4>2, <5>2
        <5> QED BY <2>0, <2>1, <5>1, <5>2
      <4> QED BY <4>3, <4>4
    <3> QED BY <2>0, <3>3, <3>4
  <2> QED BY <2>2, <2>3
<1> HIDE DEF Good
<1>3. 0 \in P /\ \A n \in Nat : n \in P => n + 1 \in P
  BY <1>1, <1>2
<1> HIDE DEF P
<1>4. \A n \in Nat : n \in P
  BY <1>3, NatSets
<1>5. Good(Len(s))
  BY <1>0, <1>4 DEF P
<1>6. Among(Len(s)) = W
  BY <1>0 DEF ToSet
<1> HIDE DEF Among
<1> QED BY <1>0, <1>5, <1>6 DEF Good

\* The places of what lies below v, and of what does not exceed it.
Below(s, v) == {i \in DOMAIN s : s[i] < v}
UpTo(s, v) == {i \in DOMAIN s : s[i] <= v}

\* Places of a sequence are finitely many.
LEMMA PlacesFinite ==
  ASSUME NEW s \in Seq(Int), NEW A \in SUBSET (DOMAIN s)
  PROVE  IsFiniteSet(A) /\ Cardinality(A) \in 0..Len(s)
<1>1. Len(s) \in Nat /\ DOMAIN s = 1..Len(s)
  BY LenProperties
<1> DEFINE n == Len(s)
<1> HIDE DEF n
<1>2. n \in Nat /\ A \in SUBSET (1..n)
  BY <1>1 DEF n
<1>3. IsFiniteSet(1..n) /\ Cardinality(1..n) = n
  BY <1>2, FS_Interval
<1>4. IsFiniteSet(A) /\ Cardinality(A) <= n
  BY <1>2, <1>3, FS_Subset
<1>5. Cardinality(A) \in Nat
  BY <1>4, FS_CardinalityType
<1> QED BY <1>2, <1>4, <1>5 DEF n

\* The number of places that are not among these.
LEMMA PlacesLeft ==
  ASSUME NEW s \in Seq(Int), NEW A \in SUBSET (DOMAIN s)
  PROVE  Cardinality((DOMAIN s) \ A) = Len(s) - Cardinality(A)
<1>1. Len(s) \in Nat /\ DOMAIN s = 1..Len(s)
  BY LenProperties
<1> DEFINE n == Len(s)
           B == (DOMAIN s) \ A
<1>2. /\ IsFiniteSet(A) /\ Cardinality(A) \in Nat
      /\ IsFiniteSet(B) /\ Cardinality(B) \in Nat
  BY PlacesFinite
<1>3. A \cup B = 1..n /\ A \cap B = {}
  BY <1>1
<1> HIDE DEF n, B
<1>4. Cardinality(A \cup B) = Cardinality(A) + Cardinality(B) - Cardinality(A \cap B)
  BY <1>2, FS_Union
<1>5. Cardinality(A \cap B) = 0
  BY <1>3, FS_EmptySet
<1>6. n \in Nat
  BY <1>1 DEF n
<1>7. Cardinality(1..n) = n
  BY <1>6, FS_Interval
<1>8. n = Cardinality(A) + Cardinality(B)
  <2>1. Cardinality(A \cup B) = n
    BY <1>3, <1>7
  <2> QED BY <1>2, <1>4, <1>5, <2>1
<1>9. Cardinality(B) = n - Cardinality(A)
  BY <1>2, <1>6, <1>8
<1> QED BY <1>9 DEF n, B

\* Among two places or more one is not p.
LEMMA AnotherPlace ==
  ASSUME NEW s \in Seq(Int), NEW A \in SUBSET (DOMAIN s), Cardinality(A) >= 2, NEW p \in Nat
  PROVE  \E i \in A : i # p
<1> SUFFICES ASSUME \A i \in A : i = p PROVE FALSE
  OBVIOUS
<1>1. IsFiniteSet({p}) /\ Cardinality({p}) = 1
  BY FS_Singleton
<1>2. Cardinality(A) <= 1
  <2>1. A \in SUBSET {p}
    OBVIOUS
  <2> QED BY <1>1, <2>1, FS_Subset
<1>3. Cardinality(A) \in Nat
  BY PlacesFinite
<1> QED BY <1>2, <1>3

\* numpy.sort: there is such a value for every place.
LEMMA SortedPlace ==
  ASSUME NEW s \in Seq(Int), NEW k \in 1..Len(s)
  PROVE  /\ Sorted(s)[k] \in ToSet(s)
         /\ Cardinality(Below(s, Sorted(s)[k])) < k
         /\ k <= Cardinality(UpTo(s, Sorted(s)[k]))
<1>0. Len(s) \in Nat /\ DOMAIN s = 1..Len(s) /\ k \in Nat /\ ToSet(s) \subseteq Int
  BY LenProperties DEF ToSet
<1>a. \A v : Below(s, v) \in SUBSET (DOMAIN s) /\ UpTo(s, v) \in SUBSET (DOMAIN s)
  BY DEF Below, UpTo
<1> DEFINE W == {v \in ToSet(s) : k <= Cardinality(UpTo(s, v))}
<1>1. W # {}
  <2>1. s[1] \in ToSet(s)
    BY <1>0 DEF ToSet
  <2>2. PICK v \in ToSet(s) : \A w \in ToSet(s) : v >= w
    BY <2>1, LeastOf
  <2>3. UpTo(s, v) = DOMAIN s
    <3>1. \A i \in DOMAIN s : s[i] <= v
      BY <1>0, <2>2 DEF ToSet
    <3> QED BY <3>1 DEF UpTo
  <2>4. Cardinality(DOMAIN s) = Len(s)
    <3>1. Cardinality((DOMAIN s) \ {}) = Len(s) - Cardinality({}) /\ Cardinality({}) = 0
      BY PlacesLeft, FS_EmptySet
    <3> QED BY <1>0, <3>1
  <2> QED BY <1>0, <2>2, <2>3, <2>4
<1>2. PICK v \in W : \A w \in W : v <= w
  <2>1. W \in SUBSET ToSet(s)
    OBVIOUS
  <2> HIDE DEF W
  <2> QED BY <1>1, <2>1, LeastOf
<1>3. v \in ToSet(s) /\ v \in Int /\ k <= Cardinality(UpTo(s, v))
  BY <1>0
<1>4. Cardinality(Below(s, v)) < k
  <2> SUFFICES ASSUME ~(Cardinality(Below(s, v)) < k) PROVE FALSE
    OBVIOUS
  <2>1. Cardinality(Below(s, v)) >= k /\ Cardinality(Below(s, v)) \in Nat
    BY <1>0, <1>a, PlacesFinite
  <2> DEFINE S == {w \in ToSet(s) : w < v}
  <2>2. S # {}
    <3>1. Below(s, v) # {}
      <4>1. Cardinality({}) = 0
        BY FS_EmptySet
      <4>2. Cardinality(Below(s, v)) # 0
        BY <1>0, <2>1
      <4> QED BY <4>1, <4>2
    <3> QED BY <1>0, <3>1 DEF Below, ToSet
  <2>3. PICK x \in S : \A w \in S : x >= w
    <3>1. S \in SUBSET ToSet(s)
      OBVIOUS
    <3> HIDE DEF S
    <3> QED BY <2>2, <3>1, LeastOf
  <2>4. x < v /\ x \in ToSet(s) /\ x \in Int
    BY <1>0
  <2>5. Below(s, v) = UpTo(s, x)
    <3>1. \A i \in DOMAIN s : s[i] \in ToSet(s) /\ s[i] \in Int
      BY <1>0 DEF ToSet
    <3>2. \A i \in DOMAIN s : s[i] < v <=> s[i] <= x
      BY <1>3, <2>3, <2>4, <3>1
    <3> QED BY <3>2 DEF Below, UpTo
  <2>6. x \in W
    BY <2>1, <2>4, <2>5
  <2> QED BY <1>2, <1>3, <2>4, <2>6
<1>5. Sorted(s)[k] = CHOOSE u \in ToSet(s) : Cardinality(Below(s, u)) < k /\ k <= Cardinality(UpTo(s, u))
  BY DEF Sorted, Below, UpTo
<1> HIDE DEF W
<1> QED BY <1>3, <1>4, <1>5

\* What is sorted is as long, and lies where the numbers lie.
LEMMA SortedWithin ==
  ASSUME NEW s \in Seq(Int), NEW lo \in Int, NEW hi \in Int,
         \A i \in DOMAIN s : lo <= s[i] /\ s[i] <= hi
  PROVE  /\ Len(Sorted(s)) = Len(s) /\ Sorted(s) \in Seq(Int)
         /\ \A k \in 1..Len(s) : Sorted(s)[k] \in Int /\ lo <= Sorted(s)[k] /\ Sorted(s)[k] <= hi
<1>1. Len(s) \in Nat /\ DOMAIN s = 1..Len(s) /\ \A i \in DOMAIN s : s[i] \in Int
  BY LenProperties
<1>2. \A k \in 1..Len(s) : Sorted(s)[k] \in Int /\ lo <= Sorted(s)[k] /\ Sorted(s)[k] <= hi
  <2> TAKE k \in 1..Len(s)
  <2>1. PICK i \in DOMAIN s : Sorted(s)[k] = s[i]
    BY SortedPlace DEF ToSet
  <2> QED BY <1>1, <2>1
<1>3. DOMAIN Sorted(s) = 1..Len(s) /\ Sorted(s) = [k \in 1..Len(s) |-> Sorted(s)[k]]
  <2> DEFINE at(k) == CHOOSE v \in ToSet(s) : /\ Cardinality({i \in DOMAIN s : s[i] < v}) < k
                                              /\ k <= Cardinality({i \in DOMAIN s : s[i] <= v})
  <2>1. Sorted(s) = [k \in 1..Len(s) |-> at(k)]
    BY DEF Sorted
  <2> HIDE DEF at
  <2> QED BY <2>1
<1>4. Sorted(s) \in [1..Len(s) -> Int]
  BY <1>2, <1>3
<1> QED BY <1>1, <1>2, <1>4

\* One number apart, the others lie on both sides of what is neither first nor
\* last.
LEMMA SortedBetween ==
  ASSUME NEW s \in Seq(Int), NEW k \in 2..(Len(s) - 1), NEW p \in Nat
  PROVE  \E i, j \in DOMAIN s : i # p /\ j # p /\ s[i] <= Sorted(s)[k] /\ Sorted(s)[k] <= s[j]
<1>0. Len(s) \in Nat /\ DOMAIN s = 1..Len(s) /\ k \in 1..Len(s) /\ \A i \in DOMAIN s : s[i] \in Int
  BY LenProperties
<1> DEFINE v == Sorted(s)[k]
           A == UpTo(s, v)
           B == (DOMAIN s) \ Below(s, v)
<1>1. v \in Int /\ Cardinality(Below(s, v)) < k /\ k <= Cardinality(A)
  BY <1>0, SortedPlace DEF ToSet
<1>2. Below(s, v) \in SUBSET (DOMAIN s) /\ A \in SUBSET (DOMAIN s) /\ B \in SUBSET (DOMAIN s)
  BY DEF Below, UpTo
<1>3. Cardinality(Below(s, v)) \in Nat /\ Cardinality(A) \in Nat
  BY <1>2, PlacesFinite
<1>4. Cardinality(A) >= 2 /\ Cardinality(B) >= 2
  <2>1. Cardinality(B) = Len(s) - Cardinality(Below(s, v))
    BY <1>2, PlacesLeft
  <2> HIDE DEF A, B
  <2> QED BY <1>0, <1>1, <1>3, <2>1
<1> HIDE DEF A, B
<1>5. PICK i \in A : i # p
  <2>1. A \in SUBSET (DOMAIN s) /\ Cardinality(A) >= 2
    BY <1>2, <1>4
  <2> QED BY <2>1, AnotherPlace
<1>6. PICK j \in B : j # p
  <2>1. B \in SUBSET (DOMAIN s) /\ Cardinality(B) >= 2
    BY <1>2, <1>4
  <2> QED BY <2>1, AnotherPlace
<1>7. s[i] <= v /\ i \in DOMAIN s
  BY DEF A, UpTo
<1>8. v <= s[j] /\ j \in DOMAIN s
  BY <1>0, <1>1 DEF B, Below
<1> QED BY <1>5, <1>6, <1>7, <1>8

\* A sum, number by number.
LEMMA TotalSteps ==
  ASSUME NEW s \in Seq(Int)
  PROVE  \E h \in [0..Len(s) -> Int] :
           /\ h[0] = 0
           /\ \A n \in 1..Len(s) : h[n] = (h[n - 1] + s[n])
           /\ TotalOf(s) = h[Len(s)]
<1> DEFINE op == [p \in (Int) \X (Int) |-> (p[1] + p[2])]
           base == 0
           body(it) == [t \in SUBSET (1..Len(s)) |->
                          IF t = {} THEN base
                          ELSE (it[t \ {Max(t)}] + s[Max(t)])]
           iter == CHOOSE it : it = body(it)
<1>0. Len(s) \in Nat /\ DOMAIN s = 1..Len(s) /\ s \in Seq(Int)
  BY LenProperties
<1>1. base \in Int /\ op \in [(Int) \X (Int) -> Int]
  <2>1. base \in Int
    OBVIOUS
  <2>2. ASSUME NEW x \in Int, NEW y \in Int PROVE (x + y) \in Int
    OBVIOUS
  <2> QED BY <2>1, <2>2
<1>2. \A x \in Int, y \in Int : op[<<x, y>>] = (x + y)
  OBVIOUS
<1> HIDE DEF op, base
<1>3. PICK g \in [SUBSET (1..Len(s)) -> Int] : FoldsTo(g, s, base, op)
  BY <1>0, <1>1, FoldExists
<1>4. g = body(g)
  <2>1. \A t \in SUBSET (1..Len(s)) :
          g[t] = IF t = {} THEN base ELSE (g[t \ {Max(t)}] + s[Max(t)])
    BY <1>0, <1>2, <1>3, FoldPlaces DEF FoldsTo
  <2> QED BY <2>1
<1>5. iter = body(iter)
  BY <1>4
<1>6. TotalOf(s) = iter[1..Len(s)]
  BY <1>0 DEF TotalOf, FoldLeft, MapThenFoldSet, base
<1> HIDE DEF iter
<1>7. FoldsWithin(iter, s, Int, base, op)
  <2>1. \A t \in SUBSET (1..Len(s)) :
          iter[t] = IF t = {} THEN base ELSE (iter[t \ {Max(t)}] + s[Max(t)])
    BY <1>5
  <2> HIDE DEF body
  <2> QED BY <1>0, <1>2, <2>1, FoldPlaces DEF FoldsWithin
<1> HIDE DEF body
<1>8. FoldValue(iter[1..Len(s)], s, Int, base, op)
  BY <1>0, <1>1, <1>7, FoldSteps
<1>9. PICK h \in [0..Len(s) -> Int] :
        /\ h[0] = base
        /\ \A n \in 1..Len(s) : h[n] = op[<<h[n - 1], s[n]>>]
        /\ TotalOf(s) = h[Len(s)]
  BY <1>6, <1>8 DEF FoldValue
<1>10. \A n \in 1..Len(s) : h[n] = (h[n - 1] + s[n])
  <2> TAKE n \in 1..Len(s)
  <2>0. n - 1 \in 0..Len(s) /\ n \in 1..Len(s)
    BY <1>0
  <2>1. h[n - 1] \in Int
    BY <2>0
  <2>2. s[n] \in Int
    BY <1>0, <2>0
  <2> QED BY <1>2, <1>9, <2>1, <2>2
<1> QED BY <1>9, <1>10 DEF base

\* A sum lies between as many times the least and the greatest of its numbers.
LEMMA TotalWithin ==
  ASSUME NEW s \in Seq(Int), NEW lo \in Int, NEW hi \in Int,
         \A i \in DOMAIN s : lo <= s[i] /\ s[i] <= hi
  PROVE  TotalOf(s) \in Int /\ Len(s) * lo <= TotalOf(s) /\ TotalOf(s) <= Len(s) * hi
<1>0. Len(s) \in Nat /\ DOMAIN s = 1..Len(s) /\ \A i \in 1..Len(s) : s[i] \in Int /\ lo <= s[i] /\ s[i] <= hi
  BY LenProperties
<1>1. PICK h \in [0..Len(s) -> Int] :
        /\ h[0] = 0
        /\ \A n \in 1..Len(s) : h[n] = (h[n - 1] + s[n])
        /\ TotalOf(s) = h[Len(s)]
  BY TotalSteps
<1> DEFINE Good(n) == n <= Len(s) => n * lo <= h[n] /\ h[n] <= n * hi
           P == {n \in Nat : Good(n)}
<1>2. Good(0)
  BY <1>1
<1>3. \A n \in Nat : Good(n) => Good(n + 1)
  <2> SUFFICES ASSUME NEW n \in Nat, Good(n), n + 1 <= Len(s)
               PROVE  (n + 1) * lo <= h[n + 1] /\ h[n + 1] <= (n + 1) * hi
    OBVIOUS
  <2>1. n + 1 \in 1..Len(s) /\ (n + 1) - 1 = n /\ n \in 0..Len(s) /\ n <= Len(s)
    BY <1>0
  <2>2. h[n + 1] = h[n] + s[n + 1] /\ h[n] \in Int /\ s[n + 1] \in Int /\ lo <= s[n + 1] /\ s[n + 1] <= hi
    BY <1>0, <1>1, <2>1
  <2>3. (n + 1) * lo = n * lo + lo /\ (n + 1) * hi = n * hi + hi /\ n * lo \in Int /\ n * hi \in Int
    OBVIOUS
  <2>4. n * lo <= h[n] /\ h[n] <= n * hi
    BY <2>1
  <2> HIDE DEF Good
  <2> QED BY <2>2, <2>3, <2>4
<1> HIDE DEF Good
<1>4. 0 \in P /\ \A n \in Nat : n \in P => n + 1 \in P
  BY <1>2, <1>3
<1> HIDE DEF P
<1>5. \A n \in Nat : n \in P
  BY <1>4, NatSets
<1>6. Good(Len(s))
  BY <1>0, <1>5 DEF P
<1> QED BY <1>0, <1>1, <1>6 DEF Good

\* A mean that is rounded down.
LEMMA Rounded ==
  ASSUME NEW n \in Nat, n > 0, NEW t \in Int, NEW lo \in Int, NEW hi \in Int, n * lo <= t, t <= n * hi
  PROVE  t \div n \in Int /\ lo <= t \div n /\ t \div n <= hi
<1> DEFINE q == t \div n
           r == t % n
<1>1. q \in Int /\ r \in Int /\ t = n * q + r /\ 0 <= r /\ r < n
  OBVIOUS
<1> HIDE DEF q, r
<1>2. lo <= q
  <2> SUFFICES ASSUME q + 1 <= lo PROVE FALSE
    BY <1>1
  <2>1. n * (q + 1) <= n * lo
    BY <1>1
  <2>2. n * (q + 1) = n * q + n /\ n * q \in Int /\ n * lo \in Int
    BY <1>1
  <2> QED BY <1>1, <2>1, <2>2
<1>3. q <= hi
  <2> SUFFICES ASSUME hi + 1 <= q PROVE FALSE
    BY <1>1
  <2>1. n * (hi + 1) <= n * q
    BY <1>1
  <2>2. n * (hi + 1) = n * hi + n /\ n * q \in Int /\ n * hi \in Int
    BY <1>1
  <2> QED BY <1>1, <2>1, <2>2
<1> QED BY <1>1, <1>2, <1>3 DEF q

\* fedavg: the mean lies where the numbers lie.
LEMMA MeanWithin ==
  ASSUME NEW s \in Seq(Int), Len(s) > 0, NEW lo \in Int, NEW hi \in Int,
         \A i \in DOMAIN s : lo <= s[i] /\ s[i] <= hi
  PROVE  \E x \in Int : Fedavg(s) = <<x>> /\ lo <= x /\ x <= hi
<1>1. Len(s) \in Nat
  BY LenProperties
<1>2. TotalOf(s) \in Int /\ Len(s) * lo <= TotalOf(s) /\ TotalOf(s) <= Len(s) * hi
  BY TotalWithin
<1> DEFINE x == TotalOf(s) \div Len(s)
<1>3. x \in Int /\ lo <= x /\ x <= hi
  BY <1>1, <1>2, Rounded
<1>4. Fedavg(s) = <<x>>
  BY DEF Fedavg
<1> HIDE DEF x
<1> QED BY <1>3, <1>4

\* The two middle places of n.
LEMMA MiddlePlaces ==
  ASSUME NEW n \in Nat, n > 0
  PROVE  /\ (n + 1) \div 2 \in 1..n /\ n \div 2 + 1 \in 1..n
         /\ n >= 3 => (n + 1) \div 2 \in 2..(n - 1) /\ n \div 2 + 1 \in 2..(n - 1)
OBVIOUS

\* numpy.median: half of the two middle numbers.
LEMMA MedianWithin ==
  ASSUME NEW u \in Seq(Int), Len(u) > 0, NEW lo \in Int, NEW hi \in Int,
         \A k \in {(Len(u) + 1) \div 2, Len(u) \div 2 + 1} :
           Sorted(u)[k] \in Int /\ lo <= Sorted(u)[k] /\ Sorted(u)[k] <= hi
  PROVE  \E x \in Int : CoordinateMedian(u) = <<x>> /\ lo <= x /\ x <= hi
<1> DEFINE a == Sorted(u)[(Len(u) + 1) \div 2]
           b == Sorted(u)[Len(u) \div 2 + 1]
<1>1. CoordinateMedian(u) = <<(a + b) \div 2>>
  BY DEF CoordinateMedian
<1>2. a \in Int /\ b \in Int /\ lo <= a /\ a <= hi /\ lo <= b /\ b <= hi
  OBVIOUS
<1> HIDE DEF a, b
<1>3. (a + b) \div 2 \in Int /\ lo <= (a + b) \div 2 /\ (a + b) \div 2 <= hi
  BY <1>2
<1> DEFINE x == (a + b) \div 2
<1>4. x \in Int /\ lo <= x /\ x <= hi /\ CoordinateMedian(u) = <<x>>
  BY <1>1, <1>3
<1> HIDE DEF x
<1> QED BY <1>4

\* trimmed_mean, one number dropped at each end.
LEMMA TrimmedWithin ==
  ASSUME NEW u \in Seq(Int), Len(u) > 2, NEW lo \in Int, NEW hi \in Int,
         \A k \in 2..(Len(u) - 1) :
           Sorted(u)[k] \in Int /\ lo <= Sorted(u)[k] /\ Sorted(u)[k] <= hi
  PROVE  \E x \in Int : TrimmedMean(u, 1) = <<x>> /\ lo <= x /\ x <= hi
<1> DEFINE n == Len(u)
           s == Sorted(u)
           t == SubSeq(s, 2, n - 1)
<1>0. n \in Nat /\ n > 2
  BY LenProperties
<1>1. TrimmedMean(u, 1) = Fedavg(t)
  <2>1. ~(n <= 2 * 1) /\ 1 + 1 = 2
    BY <1>0
  <2> QED BY <2>1 DEF TrimmedMean
<1>2. \A k \in 2..(n - 1) : s[k] \in Int /\ lo <= s[k] /\ s[k] <= hi
  OBVIOUS
<1> HIDE DEF s, n
<1>3. /\ t \in Seq(Int) /\ Len(t) = n - 2
      /\ \A i \in 1..(n - 2) : t[i] = s[i + 1]
  <2>1. /\ t \in Seq(Int)
        /\ Len(t) = IF 2 <= n - 1 THEN (n - 1) - 2 + 1 ELSE 0
        /\ \A i \in 1..((n - 1) - 2 + 1) : t[i] = s[2 + i - 1]
    BY <1>0, <1>2, SubSeqProperties
  <2>2. Len(t) = n - 2 /\ (n - 1) - 2 + 1 = n - 2
    BY <1>0, <2>1
  <2>3. \A i \in 1..(n - 2) : 2 + i - 1 = i + 1
    BY <1>0
  <2> HIDE DEF t
  <2> QED BY <2>1, <2>2, <2>3
<1> HIDE DEF t
<1>4. \A i \in DOMAIN t : lo <= t[i] /\ t[i] <= hi
  <2> TAKE i \in DOMAIN t
  <2>1. i \in 1..(n - 2) /\ i + 1 \in 2..(n - 1)
    BY <1>0, <1>3
  <2> QED BY <1>2, <1>3, <2>1
<1>5. Len(t) > 0
  BY <1>0, <1>3
<1> QED BY <1>1, <1>3, <1>4, <1>5, MeanWithin

\* krum: the score of a client, whose own distance is left out.
Distances(u, i) == [j \in 1..Len(u) |-> (u[i] - u[j]) * (u[i] - u[j])]

\* The squared distances of one update to the others.
LEMMA DistancesNumbers ==
  ASSUME NEW u \in Seq(Int), NEW i \in DOMAIN u
  PROVE  /\ Distances(u, i) \in Seq(Int) /\ Len(Distances(u, i)) = Len(u)
         /\ DOMAIN Distances(u, i) = DOMAIN u /\ Distances(u, i)[i] = 0
         /\ \A j \in DOMAIN u : Distances(u, i)[j] = (u[i] - u[j]) * (u[i] - u[j])
<1>1. Len(u) \in Nat /\ DOMAIN u = 1..Len(u) /\ \A j \in 1..Len(u) : u[j] \in Int
  BY LenProperties
<1>2. \A j \in 1..Len(u) : (u[i] - u[j]) * (u[i] - u[j]) \in Int
  BY <1>1
<1>3. DOMAIN Distances(u, i) = 1..Len(u)
  BY DEF Distances
<1>4. Distances(u, i) \in [1..Len(u) -> Int]
  BY <1>2 DEF Distances
<1>5. Distances(u, i) \in Seq(Int) /\ Len(Distances(u, i)) = Len(u)
  BY <1>1, <1>3, <1>4
<1>6. \A j \in DOMAIN u : Distances(u, i)[j] = (u[i] - u[j]) * (u[i] - u[j])
  BY <1>1 DEF Distances
<1>7. Distances(u, i)[i] = 0
  <2>1. u[i] \in Int /\ Distances(u, i)[i] = (u[i] - u[i]) * (u[i] - u[i])
    BY <1>1, <1>6
  <2>2. u[i] - u[i] = 0
    BY <2>1
  <2> QED BY <2>1, <2>2
<1> QED BY <1>1, <1>3, <1>5, <1>6, <1>7

\* Where its summands lie.
LEMMA ScoreWithin ==
  ASSUME NEW u \in Seq(Int), NEW f \in 0..1, Len(u) > 2 * f + 2, NEW i \in DOMAIN u,
         NEW lo \in Int, NEW hi \in Int,
         \A k \in 2..(Len(u) - f - 1) :
           lo <= Sorted(Distances(u, i))[k] /\ Sorted(Distances(u, i))[k] <= hi
  PROVE  /\ KrumScore(u, f, i) \in Int
         /\ (Len(u) - f - 2) * lo <= KrumScore(u, f, i)
         /\ KrumScore(u, f, i) <= (Len(u) - f - 2) * hi
<1> DEFINE n == Len(u)
           d == Distances(u, i)
           s == Sorted(d)
           t == SubSeq(s, 2, n - f - 1)
<1>0. n \in Nat /\ n > 2 * f + 2 /\ f \in Nat
  BY LenProperties
<1>1. KrumScore(u, f, i) = TotalOf(t)
  <2>1. n - f - 2 + 1 = n - f - 1
    BY <1>0
  <2> QED BY <2>1 DEF KrumScore, Distances
<1>2. \A k \in 2..(n - f - 1) : s[k] \in Int /\ lo <= s[k] /\ s[k] <= hi
  <2> TAKE k \in 2..(n - f - 1)
  <2>1. d \in Seq(Int) /\ Len(d) = n
    BY DistancesNumbers
  <2>2. k \in 1..Len(d)
    BY <1>0, <2>1
  <2>4. ToSet(d) \subseteq Int
    BY <2>1 DEF ToSet
  <2>5. lo <= s[k] /\ s[k] <= hi
    OBVIOUS
  <2> HIDE DEF d
  <2>3. s[k] \in ToSet(d)
    BY <2>1, <2>2, SortedPlace
  <2> HIDE DEF s
  <2> QED BY <2>3, <2>4, <2>5
<1> HIDE DEF s, n
<1>3. /\ t \in Seq(Int) /\ Len(t) = n - f - 2
      /\ \A j \in 1..(n - f - 2) : t[j] = s[j + 1]
  <2>0. n - f - 1 \in Int /\ 2 <= n - f - 1
    BY <1>0
  <2>1. /\ t \in Seq(Int)
        /\ Len(t) = IF 2 <= n - f - 1 THEN (n - f - 1) - 2 + 1 ELSE 0
        /\ \A j \in 1..((n - f - 1) - 2 + 1) : t[j] = s[2 + j - 1]
    BY <1>2, <2>0, SubSeqProperties
  <2>2. Len(t) = n - f - 2 /\ (n - f - 1) - 2 + 1 = n - f - 2
    BY <1>0, <2>0, <2>1
  <2>3. \A j \in 1..(n - f - 2) : 2 + j - 1 = j + 1
    BY <1>0
  <2> HIDE DEF t
  <2> QED BY <2>1, <2>2, <2>3
<1> HIDE DEF t
<1>4. \A j \in DOMAIN t : lo <= t[j] /\ t[j] <= hi
  <2> TAKE j \in DOMAIN t
  <2>0. DOMAIN t = 1..Len(t) /\ n - f - 2 \in Nat /\ n - f - 1 = (n - f - 2) + 1
    BY <1>0, <1>3, LenProperties
  <2>1. j \in 1..(n - f - 2) /\ j + 1 \in 2..(n - f - 1)
    BY <1>3, <2>0
  <2> QED BY <1>2, <1>3, <2>1
<1>5. TotalOf(t) \in Int /\ Len(t) * lo <= TotalOf(t) /\ TotalOf(t) <= Len(t) * hi
  BY <1>3, <1>4, TotalWithin
<1> QED BY <1>1, <1>3, <1>5 DEF n

\* Numbers of a sequence have bounds.
LEMMA Bounded ==
  ASSUME NEW s \in Seq(Int)
  PROVE  \E lo, hi \in Int : \A i \in DOMAIN s : lo <= s[i] /\ s[i] <= hi
<1>1. Len(s) \in Nat /\ DOMAIN s = 1..Len(s) /\ ToSet(s) \subseteq Int
      /\ \A i \in DOMAIN s : s[i] \in ToSet(s)
  BY LenProperties DEF ToSet
<1>2. CASE ToSet(s) = {}
  BY <1>1, <1>2
<1>3. CASE ToSet(s) # {}
  <2>1. PICK v \in ToSet(s) : \A w \in ToSet(s) : v <= w
    BY <1>3, LeastOf
  <2>2. PICK u \in ToSet(s) : \A w \in ToSet(s) : u >= w
    BY <1>3, LeastOf
  <2>3. v \in Int /\ u \in Int /\ \A i \in DOMAIN s : v <= s[i] /\ s[i] <= u
    <3>1. \A w \in ToSet(s) : w \in Int /\ u \in Int
      BY <1>1
    <3>2. \A w \in ToSet(s) : w <= u
      BY <2>2, <3>1
    <3> QED BY <1>1, <2>1, <2>2, <3>2
  <2> QED BY <2>3
<1> QED BY <1>2, <1>3

\* A Krum score is a number.
LEMMA ScoreNumber ==
  ASSUME NEW u \in Seq(Int), NEW f \in 0..1, Len(u) > 2 * f + 2, NEW i \in DOMAIN u
  PROVE  KrumScore(u, f, i) \in Int
<1>0. Len(u) \in Nat /\ f \in Nat
  BY LenProperties
<1>1. Distances(u, i) \in Seq(Int) /\ Len(Distances(u, i)) = Len(u)
  BY DistancesNumbers
<1>2. PICK lo, hi \in Int : \A j \in DOMAIN Distances(u, i) : lo <= Distances(u, i)[j] /\ Distances(u, i)[j] <= hi
  BY <1>1, Bounded
<1>3. \A k \in 1..Len(u) : lo <= Sorted(Distances(u, i))[k] /\ Sorted(Distances(u, i))[k] <= hi
  BY <1>1, <1>2, SortedWithin
<1>4. \A k \in 2..(Len(u) - f - 1) : k \in 1..Len(u)
  BY <1>0
<1> QED BY <1>3, <1>4, ScoreWithin

\* krum: the upload of a client with the least score.
LEMMA KrumChoice ==
  ASSUME NEW u \in Seq(Int), NEW f \in 0..1, Len(u) > 2 * f + 2
  PROVE  \E c \in DOMAIN u :
           /\ Krum(u, f) = <<u[c]>>
           /\ \A i \in DOMAIN u : KrumScore(u, f, c) <= KrumScore(u, f, i)
<1> DEFINE n == Len(u)
           scores == [i \in 1..n |-> KrumScore(u, f, i)]
           S == {KrumScore(u, f, i) : i \in 1..n}
<1>0. n \in Nat /\ n > 2 * f + 2 /\ n > 0 /\ DOMAIN u = 1..n
  BY LenProperties
<1>1. \A i \in 1..n : KrumScore(u, f, i) \in Int
  BY <1>0, ScoreNumber
<1>2. scores \in Seq(Int) /\ ToSet(scores) = S
  <2>1. scores \in [1..n -> Int]
    BY <1>1
  <2>2. DOMAIN scores = 1..n
    OBVIOUS
  <2>3. ToSet(scores) = S
    BY <2>2 DEF ToSet
  <2>4. scores \in Seq(Int)
    BY <1>0, <2>1
  <2> QED BY <2>3, <2>4
<1>3. S # {}
  BY <1>0
<1>4. PICK v \in S : \A w \in S : v <= w
  <2> HIDE DEF S, scores
  <2> QED BY <1>2, <1>3, LeastOf
<1>5. Min(S) \in S /\ \A w \in S : Min(S) <= w
  <2> HIDE DEF S
  <2> QED BY <1>4 DEF Min
<1> DEFINE I == {i \in 1..n : KrumScore(u, f, i) = Min(S)}
<1>6. I \in SUBSET Nat /\ I # {}
  <2>1. \A i \in 1..n : i \in Nat
    BY <1>0
  <2>2. PICK i \in 1..n : Min(S) = KrumScore(u, f, i)
    <3> DEFINE m == Min(S)
    <3>1. m \in S
      BY <1>5
    <3> HIDE DEF m
    <3>2. \E i \in 1..n : m = KrumScore(u, f, i)
      BY <3>1
    <3> QED BY <3>2 DEF m
  <2> HIDE DEF S
  <2>3. i \in I
    BY <2>2
  <2>4. \A x \in I : x \in 1..n
    OBVIOUS
  <2> QED BY <2>1, <2>3, <2>4
<1>7. Min(I) \in I
  <2> HIDE DEF I
  <2>1. PICK i \in I : \A j \in I : i <= j
    BY <1>6, LeastPosition
  <2> QED BY <2>1 DEF Min
<1>8. Krum(u, f) = <<u[Min(I)]>>
  BY <1>0 DEF Krum
<1>9. \A i \in DOMAIN u : KrumScore(u, f, Min(I)) <= KrumScore(u, f, i)
  BY <1>0, <1>5, <1>7
<1> DEFINE c == Min(I)
<1>10. c \in DOMAIN u
  BY <1>0, <1>7
<1> HIDE DEF I, c, S
<1> QED BY <1>8, <1>9, <1>10 DEF c

ModelWithin(model, lo, hi) ==
  model = NoModel \/ \E x \in Int : model = <<x>> /\ lo <= x /\ x <= hi

\* Every aggregator stays where the uploads lie.
LEMMA AggregateWithin ==
  ASSUME NEW method \in FedMethods, NEW u \in Seq(Int), Len(u) > 0, NEW f \in 0..1,
         NEW lo \in Int, NEW hi \in Int, \A i \in DOMAIN u : lo <= u[i] /\ u[i] <= hi
  PROVE  ModelWithin(AggregateBy(method, u, f), lo, hi)
<1> DEFINE g == AggregateBy(method, u, f)
<1> SUFFICES g = NoModel \/ \E x \in Int : g = <<x>> /\ lo <= x /\ x <= hi
  BY DEF ModelWithin
<1>0. Len(u) \in Nat /\ DOMAIN u = 1..Len(u) /\ \A i \in DOMAIN u : u[i] \in Int
  BY LenProperties
<1>1. \A k \in 1..Len(u) : Sorted(u)[k] \in Int /\ lo <= Sorted(u)[k] /\ Sorted(u)[k] <= hi
  BY SortedWithin
<1>2. method \in {"fedavg", "median", "trimmed_mean", "krum"}
  BY FedAssumption
<1>3. CASE method = "fedavg"
  <2>1. AggregateBy(method, u, f) = Fedavg(u)
    BY <1>3 DEF AggregateBy
  <2> QED BY <2>1, MeanWithin
<1>4. CASE method = "median"
  <2>1. AggregateBy(method, u, f) = CoordinateMedian(u)
    BY <1>4 DEF AggregateBy
  <2>2. \A k \in {(Len(u) + 1) \div 2, Len(u) \div 2 + 1} : k \in 1..Len(u)
    BY <1>0, MiddlePlaces
  <2>3. \E x \in Int : CoordinateMedian(u) = <<x>> /\ lo <= x /\ x <= hi
    BY <1>1, <2>2, MedianWithin
  <2> QED BY <2>1, <2>3
<1>5. CASE method = "trimmed_mean"
  <2>1. AggregateBy(method, u, f) = TrimmedMean(u, 1)
    <3>1. (IF f > 1 THEN f ELSE 1) = 1
      OBVIOUS
    <3> QED BY <1>5, <3>1 DEF AggregateBy
  <2>2. CASE Len(u) <= 2
    <3>1. Len(u) <= 2 * 1
      BY <1>0, <2>2
    <3> QED BY <2>1, <3>1 DEF TrimmedMean
  <2>3. CASE Len(u) > 2
    <3>1. \A k \in 2..(Len(u) - 1) : k \in 1..Len(u)
      BY <1>0
    <3>2. \E x \in Int : TrimmedMean(u, 1) = <<x>> /\ lo <= x /\ x <= hi
      BY <1>1, <2>3, <3>1, TrimmedWithin
    <3> QED BY <2>1, <3>2
  <2> QED BY <1>0, <2>2, <2>3
<1>6. CASE method = "krum"
  <2>1. AggregateBy(method, u, f) = Krum(u, f)
    BY <1>6 DEF AggregateBy
  <2>2. CASE Len(u) <= 2 * f + 2
    BY <2>1, <2>2 DEF Krum
  <2>3. CASE Len(u) > 2 * f + 2
    <3>1. PICK c \in DOMAIN u : Krum(u, f) = <<u[c]>>
      BY <2>3, KrumChoice
    <3> QED BY <1>0, <2>1, <3>1
  <2> QED BY <1>0, <2>2, <2>3
<1> QED BY <1>2, <1>3, <1>4, <1>5, <1>6

\* The square of a distance.
LEMMA Squares ==
  ASSUME NEW a \in Int, NEW b \in Int, -b <= a, a <= b
  PROVE  0 <= a * a /\ a * a <= b * b
<1>1. CASE a >= 0
  <2>1. 0 <= a * a /\ a * a <= a * b /\ a * b <= b * b
    BY <1>1
  <2> QED BY <2>1
<1>2. CASE a <= 0
  <2> DEFINE c == -a
  <2>1. c \in Int /\ c >= 0 /\ c <= b /\ a * a = c * c
    BY <1>2
  <2> HIDE DEF c
  <2>2. 0 <= c * c /\ c * c <= c * b /\ c * b <= b * b
    BY <2>1
  <2> QED BY <2>1, <2>2
<1> QED BY <1>1, <1>2

\* All uploads but the one of p are of the honest clients in H, which lie
\* between lo and hi.
AllButOne(u, H, p, lo, hi) ==
  /\ H \in SUBSET (DOMAIN u) /\ (DOMAIN u) \ {p} \subseteq H
  /\ \A i \in H : lo <= u[i] /\ u[i] <= hi

\* Then the middle places are too.
LEMMA MiddleHonest ==
  ASSUME NEW u \in Seq(Int), NEW p \in Nat, NEW H, NEW lo \in Int, NEW hi \in Int,
         AllButOne(u, H, p, lo, hi), NEW k \in 2..(Len(u) - 1)
  PROVE  Sorted(u)[k] \in Int /\ lo <= Sorted(u)[k] /\ Sorted(u)[k] <= hi
<1>0. Len(u) \in Nat /\ DOMAIN u = 1..Len(u) /\ \A i \in DOMAIN u : u[i] \in Int
  BY LenProperties
<1>1. Sorted(u)[k] \in Int
  <2>1. k \in 1..Len(u)
    BY <1>0
  <2> QED BY <1>0, <2>1, SortedPlace DEF ToSet
<1>2. PICK i, j \in DOMAIN u : i # p /\ j # p /\ u[i] <= Sorted(u)[k] /\ Sorted(u)[k] <= u[j]
  BY SortedBetween
<1>3. i \in H /\ j \in H
  BY <1>2 DEF AllButOne
<1>4. lo <= u[i] /\ u[j] <= hi /\ u[i] \in Int /\ u[j] \in Int
  BY <1>0, <1>3 DEF AllButOne
<1> QED BY <1>1, <1>2, <1>4

\* So do median and trimmed mean, of three uploads or more.
LEMMA RobustWithin ==
  ASSUME NEW u \in Seq(Int), Len(u) >= 3, NEW p \in Nat, NEW H, NEW lo \in Int, NEW hi \in Int,
         AllButOne(u, H, p, lo, hi)
  PROVE  /\ \E x \in Int : CoordinateMedian(u) = <<x>> /\ lo <= x /\ x <= hi
         /\ \E x \in Int : TrimmedMean(u, 1) = <<x>> /\ lo <= x /\ x <= hi
<1>0. Len(u) \in Nat /\ Len(u) > 0 /\ Len(u) > 2
  BY LenProperties
<1>1. \A k \in 2..(Len(u) - 1) : Sorted(u)[k] \in Int /\ lo <= Sorted(u)[k] /\ Sorted(u)[k] <= hi
  BY MiddleHonest
<1>2. \A k \in {(Len(u) + 1) \div 2, Len(u) \div 2 + 1} :
        Sorted(u)[k] \in Int /\ lo <= Sorted(u)[k] /\ Sorted(u)[k] <= hi
  <2>1. (Len(u) + 1) \div 2 \in 2..(Len(u) - 1) /\ Len(u) \div 2 + 1 \in 2..(Len(u) - 1)
    BY <1>0, MiddlePlaces
  <2> QED BY <1>1, <2>1
<1> QED BY <1>0, <1>1, <1>2, MedianWithin, TrimmedWithin

\* krum's score of an honest client, and of one that is not.
LEMMA HonestScore ==
  ASSUME NEW u \in Seq(Int), Len(u) > 4, NEW p \in Nat, NEW H, NEW lo \in Int, NEW hi \in Int,
         AllButOne(u, H, p, lo, hi), NEW h \in H
  PROVE  KrumScore(u, 1, h) <= (Len(u) - 3) * ((hi - lo) * (hi - lo))
<1> DEFINE d == Distances(u, h)
           s2 == (hi - lo) * (hi - lo)
<1>0. /\ Len(u) \in Nat /\ DOMAIN u = 1..Len(u) /\ \A i \in DOMAIN u : u[i] \in Int
      /\ h \in DOMAIN u /\ H \subseteq DOMAIN u
  BY LenProperties DEF AllButOne
<1>1. d \in Seq(Int) /\ Len(d) = Len(u) /\ DOMAIN d = DOMAIN u
      /\ \A j \in DOMAIN u : d[j] = (u[h] - u[j]) * (u[h] - u[j])
  BY <1>0, DistancesNumbers
<1>2. \A j \in H : 0 <= d[j] /\ d[j] <= s2
  <2> TAKE j \in H
  <2>1. /\ u[h] \in Int /\ u[j] \in Int /\ lo <= u[h] /\ u[h] <= hi /\ lo <= u[j] /\ u[j] <= hi
    BY <1>0 DEF AllButOne
  <2>2. d[j] = (u[h] - u[j]) * (u[h] - u[j])
    BY <1>0, <1>1
  <2>3. u[h] - u[j] \in Int /\ hi - lo \in Int /\ -(hi - lo) <= u[h] - u[j] /\ u[h] - u[j] <= hi - lo
    BY <2>1
  <2> HIDE DEF d
  <2> QED BY <2>2, <2>3, Squares
<1>3. s2 \in Int
  OBVIOUS
<1>4. AllButOne(d, H, p, 0, s2)
  BY <1>1, <1>2 DEF AllButOne
<1> HIDE DEF s2
<1>5. \A k \in 2..(Len(u) - 1 - 1) : 0 <= Sorted(d)[k] /\ Sorted(d)[k] <= s2
  <2> TAKE k \in 2..(Len(u) - 1 - 1)
  <2>1. k \in 2..(Len(d) - 1)
    BY <1>0, <1>1
  <2>2. d \in Seq(Int) /\ 0 \in Int /\ s2 \in Int /\ p \in Nat
    BY <1>1, <1>3
  <2> HIDE DEF d
  <2>3. Sorted(d)[k] \in Int /\ 0 <= Sorted(d)[k] /\ Sorted(d)[k] <= s2
    BY <1>4, <2>1, <2>2, MiddleHonest
  <2> QED BY <2>3
<1>6. KrumScore(u, 1, h) <= (Len(u) - 1 - 2) * s2
  <2>1. Len(u) > 2 * 1 + 2 /\ 1 \in 0..1 /\ h \in DOMAIN u /\ 0 \in Int /\ s2 \in Int
    BY <1>0, <1>3
  <2> QED BY <1>5, <2>1, ScoreWithin
<1>7. Len(u) - 1 - 2 = Len(u) - 3
  BY <1>0
<1> QED BY <1>6, <1>7 DEF s2

\* An update far from the honest ones has a score no less than its distance to
\* the nearest of them, as often as neighbours are counted.
LEMMA OtherScore ==
  ASSUME NEW u \in Seq(Int), Len(u) > 4, NEW p \in DOMAIN u, NEW H \in SUBSET (DOMAIN u),
         (DOMAIN u) \ {p} \subseteq H, NEW least \in Int,
         \A j \in H : least <= (u[p] - u[j]) * (u[p] - u[j])
  PROVE  (Len(u) - 3) * least <= KrumScore(u, 1, p)
<1> DEFINE d == Distances(u, p)
<1>0. Len(u) \in Nat /\ DOMAIN u = 1..Len(u) /\ p \in Nat
  BY LenProperties
<1>1. d \in Seq(Int) /\ Len(d) = Len(u) /\ DOMAIN d = DOMAIN u
      /\ \A j \in DOMAIN u : d[j] = (u[p] - u[j]) * (u[p] - u[j])
  BY <1>0, DistancesNumbers
<1>2. PICK lo, hi \in Int : \A j \in DOMAIN d : lo <= d[j] /\ d[j] <= hi
  BY <1>1, Bounded
<1>3. AllButOne(d, H, p, least, hi)
  BY <1>1, <1>2 DEF AllButOne
<1>4. \A k \in 2..(Len(u) - 1 - 1) : least <= Sorted(d)[k] /\ Sorted(d)[k] <= hi
  <2> TAKE k \in 2..(Len(u) - 1 - 1)
  <2>1. k \in 2..(Len(d) - 1)
    BY <1>0, <1>1
  <2> HIDE DEF d
  <2> QED BY <1>0, <1>1, <1>3, <2>1, MiddleHonest
<1>5. (Len(u) - 1 - 2) * least <= KrumScore(u, 1, p)
  <2>1. Len(u) > 2 * 1 + 2 /\ 1 \in 0..1
    BY <1>0
  <2> QED BY <1>0, <1>4, <2>1, ScoreWithin
<1>6. Len(u) - 1 - 2 = Len(u) - 3
  BY <1>0
<1> QED BY <1>5, <1>6

\* krum's choice is near an honest upload: with f poisoners assumed, and no more
\* there.
LEMMA KrumNear ==
  ASSUME NEW u \in Seq(Int), NEW f \in 0..1, Len(u) > 2 * f + 2,
         NEW p \in Nat, NEW H, NEW lo \in Int, NEW hi \in Int, lo <= hi,
         AllButOne(u, H, p, lo, hi), f = 0 => H = DOMAIN u
  PROVE  \E g \in Int, h \in H :
           /\ Krum(u, f) = <<g>>
           /\ (g - u[h]) * (g - u[h]) * (Len(u) - 2 * f - 1)
                <= (Len(u) - f - 2) * (hi - lo) * (hi - lo)
<1>0. /\ Len(u) \in Nat /\ DOMAIN u = 1..Len(u) /\ \A i \in DOMAIN u : u[i] \in Int
      /\ H \in SUBSET (DOMAIN u) /\ f \in Nat
  BY LenProperties DEF AllButOne
<1>1. PICK c \in DOMAIN u :
        /\ Krum(u, f) = <<u[c]>>
        /\ \A i \in DOMAIN u : KrumScore(u, f, c) <= KrumScore(u, f, i)
  BY KrumChoice
<1>2. CASE c \in H
  <2>1. (u[c] - u[c]) * (u[c] - u[c]) * (Len(u) - 2 * f - 1) = 0
    <3>1. u[c] - u[c] = 0
      BY <1>0
    <3>2. 0 * 0 * (Len(u) - 2 * f - 1) = 0
      BY <1>0
    <3> QED BY <3>1, <3>2
  <2>2. 0 <= (Len(u) - f - 2) * (hi - lo) * (hi - lo)
    <3> DEFINE m == Len(u) - f - 2
               w == hi - lo
    <3>1. m \in Nat /\ w \in Nat
      BY <1>0
    <3> HIDE DEF m, w
    <3>2. m * w \in Nat
      BY <3>1
    <3>3. m * w * w \in Nat
      BY <3>1, <3>2
    <3>4. 0 <= m * w * w
      BY <3>3
    <3> QED BY <3>4 DEF m, w
  <2>3. (u[c] - u[c]) * (u[c] - u[c]) * (Len(u) - 2 * f - 1) <= (Len(u) - f - 2) * (hi - lo) * (hi - lo)
    BY <2>1, <2>2
  <2> QED BY <1>0, <1>1, <1>2, <2>3
<1>3. CASE c \notin H
  <2>1. f = 1 /\ c = p /\ Len(u) > 4
    BY <1>0, <1>3 DEF AllButOne
  <2> DEFINE d == Distances(u, c)
             W == {d[j] : j \in H}
  <2>2. d \in Seq(Int) /\ DOMAIN d = DOMAIN u
        /\ \A j \in DOMAIN u : d[j] = (u[c] - u[j]) * (u[c] - u[j])
    BY DistancesNumbers
  <2>3. H # {}
    <3>1. 1 \in DOMAIN u /\ 2 \in DOMAIN u
      BY <1>0, <2>1
    <3> QED BY <3>1 DEF AllButOne
  <2>4. W \in SUBSET ToSet(d) /\ W # {}
    <3>1. \A j \in H : d[j] \in ToSet(d)
      BY <1>0, <2>2 DEF ToSet
    <3> HIDE DEF d
    <3> QED BY <2>3, <3>1
  <2>5. PICK h \in H : \A j \in H : d[h] <= d[j]
    <3> HIDE DEF d
    <3>1. \E v \in W : \A w \in W : v <= w
      <4> HIDE DEF W
      <4> QED BY <2>2, <2>4, LeastOf
    <3> QED BY <3>1
  <2> DEFINE least == (u[c] - u[h]) * (u[c] - u[h])
             m == Len(u) - 3
             s2 == (hi - lo) * (hi - lo)
  <2>6. least \in Int /\ \A j \in H : least <= (u[c] - u[j]) * (u[c] - u[j])
    <3>1. d[h] = least /\ \A j \in H : d[j] = (u[c] - u[j]) * (u[c] - u[j])
      BY <1>0, <2>2
    <3>2. u[c] \in Int /\ u[h] \in Int
      BY <1>0
    <3>3. least \in Int
      BY <3>2
    <3> HIDE DEF d, least
    <3> QED BY <2>5, <3>1, <3>3
  <2>7. m * least <= KrumScore(u, 1, c)
    <3>1. (DOMAIN u) \ {c} \subseteq H
      BY <2>1 DEF AllButOne
    <3> HIDE DEF least
    <3> QED BY <1>0, <2>1, <2>6, <3>1, OtherScore
  <2>8. KrumScore(u, 1, c) <= KrumScore(u, 1, h)
    BY <1>0, <1>1, <2>1
  <2>9. KrumScore(u, 1, h) <= m * s2
    BY <2>1, HonestScore
  <2>10. m * least <= m * s2
    <3>1. KrumScore(u, 1, c) \in Int /\ KrumScore(u, 1, h) \in Int
      <4>1. Len(u) > 2 * 1 + 2 /\ 1 \in 0..1 /\ h \in DOMAIN u
        BY <1>0, <2>1
      <4> QED BY <4>1, ScoreNumber
    <3>2. m * least \in Int /\ m * s2 \in Int
      <4>1. m \in Int /\ s2 \in Int
        BY <1>0
      <4> HIDE DEF m, s2, least
      <4> QED BY <2>6, <4>1
    <3> HIDE DEF m, s2, least
    <3> QED BY <2>7, <2>8, <2>9, <3>1, <3>2
  <2>11. Len(u) - 2 * f - 1 = m /\ Len(u) - f - 2 = m /\ m \in Int
    BY <1>0, <2>1
  <2>12. least * m = m * least /\ m * (hi - lo) * (hi - lo) = m * s2
    <3> DEFINE w == hi - lo
    <3>1. w \in Int /\ m \in Int
      BY <2>11
    <3> HIDE DEF w, m, least
    <3>2. m * w * w = m * (w * w)
      BY <3>1
    <3>3. least * m = m * least
      BY <2>6, <3>1
    <3> QED BY <3>2, <3>3 DEF w
  <2>13. (u[c] - u[h]) * (u[c] - u[h]) * (Len(u) - 2 * f - 1) <= (Len(u) - f - 2) * (hi - lo) * (hi - lo)
    <3>1. least * (Len(u) - 2 * f - 1) = m * least
      BY <2>11, <2>12
    <3>2. (Len(u) - f - 2) * (hi - lo) * (hi - lo) = m * s2
      BY <2>11, <2>12
    <3> QED BY <2>10, <3>1, <3>2
  <2> QED BY <1>0, <1>1, <2>13
<1> QED BY <1>2, <1>3

\* Distances to a point between two ends: of another between them, and of one
\* further from both than they are from each other.
LEMMA BetweenEnds ==
  ASSUME NEW lo \in Int, NEW hi \in Int, NEW x \in Int, lo <= x, x <= hi, NEW v \in Int
  PROVE  /\ lo <= v /\ v <= hi => Magnitude(v - x) <= hi - lo
         /\ Magnitude(v - lo) > hi - lo /\ Magnitude(v - hi) > hi - lo =>
              Magnitude(v - x) > hi - lo
BY DEF Magnitude

\* An upload further from every honest one than those are from each other is
\* flagged, whatever is flagged with it.
LEMMA Flagged ==
  ASSUME NEW u \in Seq(Int), Len(u) >= 3, NEW p \in DOMAIN u, NEW H, NEW lo \in Int, NEW hi \in Int,
         AllButOne(u, H, p, lo, hi),
         Magnitude(u[p] - lo) > hi - lo, Magnitude(u[p] - hi) > hi - lo,
         NEW k \in 1..2, NEW R \in DetectOutliers(u, k)
  PROVE  p \in R
<1>0. /\ Len(u) \in Nat /\ DOMAIN u = 1..Len(u) /\ \A i \in DOMAIN u : u[i] \in Int
      /\ p \in Nat
  BY LenProperties
<1>1. PICK x \in Int : CoordinateMedian(u) = <<x>> /\ lo <= x /\ x <= hi
  BY <1>0, RobustWithin
<1>2. /\ R \subseteq 1..Len(u) /\ Cardinality(R) = k
      /\ \A i \in R, j \in (1..Len(u)) \ R : Magnitude(u[i] - x) >= Magnitude(u[j] - x)
  BY <1>1 DEF DetectOutliers, kSubset
<1>3. R # {}
  <2>1. Cardinality({}) = 0
    BY FS_EmptySet
  <2>2. Cardinality(R) # 0
    BY <1>2
  <2> QED BY <2>1, <2>2
<1> SUFFICES ASSUME p \notin R PROVE FALSE
  OBVIOUS
<1>4. PICK i \in R : TRUE
  BY <1>3
<1>5. i \in H /\ u[i] \in Int /\ lo <= u[i] /\ u[i] <= hi
  BY <1>0, <1>2, <1>4 DEF AllButOne
<1>6. Magnitude(u[i] - x) >= Magnitude(u[p] - x)
  BY <1>0, <1>2
<1>7. Magnitude(u[i] - x) <= hi - lo
  BY <1>1, <1>5, BetweenEnds
<1>8. u[p] \in Int
  BY <1>0
<1>9. Magnitude(u[p] - x) > hi - lo
  BY <1>1, <1>8, BetweenEnds
<1>10. Magnitude(u[i] - x) \in Int /\ Magnitude(u[p] - x) \in Int
  <2>1. \A d \in Int : Magnitude(d) \in Int
    BY DEF Magnitude
  <2>2. u[i] - x \in Int /\ u[p] - x \in Int
    BY <1>1, <1>5, <1>8
  <2> QED BY <2>1, <2>2
<1> QED BY <1>6, <1>7, <1>9, <1>10

\* What is kept is named by its places alone.
KeptPlaces(n, removed) == Sorted(SetToSeq((1..n) \ removed))

\* The places left when some are removed.
LEMMA KeptAt ==
  ASSUME NEW n \in Nat, NEW removed
  PROVE  /\ KeptPlaces(n, removed) \in Seq(Int)
         /\ \A k \in DOMAIN KeptPlaces(n, removed) :
              KeptPlaces(n, removed)[k] \in (1..n) \ removed
<1> DEFINE S == (1..n) \ removed
           t == SetToSeq(S)
<1>1. IsFiniteSet(S)
  <2>1. IsFiniteSet(1..n)
    BY FS_Interval
  <2> QED BY <2>1, FS_Subset
<1>2. t \in Seq(S) /\ ToSet(t) = S
  BY <1>1, SetInOrder
<1>3. t \in Seq(Int) /\ \A i \in DOMAIN t : t[i] \in 0..n
  <2>1. S \subseteq Int /\ S \subseteq 0..n
    OBVIOUS
  <2>2. \A i \in DOMAIN t : t[i] \in S
    BY <1>2, LenProperties
  <2> HIDE DEF S, t
  <2>3. t \in Seq(Int)
    <3>1. Len(t) \in Nat /\ t \in [1..Len(t) -> S]
      BY <1>2, LenProperties
    <3>2. t \in [1..Len(t) -> Int]
      BY <2>1, <3>1
    <3> QED BY <3>1, <3>2, SeqDef
  <2> QED BY <2>1, <2>2, <2>3
<1> HIDE DEF t, S
<1>4. \A i \in DOMAIN t : 0 <= t[i] /\ t[i] <= n
  BY <1>3
<1>5. Len(Sorted(t)) = Len(t) /\ Sorted(t) \in Seq(Int)
  BY <1>3, <1>4, SortedWithin
<1>6. \A k \in 1..Len(t) : Sorted(t)[k] \in S
  BY <1>2, <1>3, SortedPlace
<1>7. DOMAIN Sorted(t) = 1..Len(t)
  BY <1>5, LenProperties
<1> QED BY <1>5, <1>6, <1>7 DEF KeptPlaces, t, S

\* What is kept of a sequence is what stood at those places.
LEMMA KeptWhat ==
  ASSUME NEW B, NEW s \in Seq(B), NEW removed
  PROVE  /\ Kept(s, removed) \in Seq(B)
         /\ Len(Kept(s, removed)) = Len(KeptPlaces(Len(s), removed))
         /\ \A k \in DOMAIN Kept(s, removed) :
              /\ KeptPlaces(Len(s), removed)[k] \in (DOMAIN s) \ removed
              /\ Kept(s, removed)[k] = s[KeptPlaces(Len(s), removed)[k]]
<1> DEFINE at == KeptPlaces(Len(s), removed)
<1>0. Len(s) \in Nat /\ DOMAIN s = 1..Len(s) /\ \A i \in DOMAIN s : s[i] \in B
  BY LenProperties
<1>1. at \in Seq(Int) /\ \A k \in DOMAIN at : at[k] \in (1..Len(s)) \ removed
  BY <1>0, KeptAt
<1>2. Kept(s, removed) = [i \in 1..Len(at) |-> s[at[i]]]
  BY DEF Kept, KeptPlaces
<1> HIDE DEF at
<1>3. Len(at) \in Nat /\ DOMAIN at = 1..Len(at)
  BY <1>1, LenProperties
<1>4. \A i \in 1..Len(at) : at[i] \in DOMAIN s /\ s[at[i]] \in B
  BY <1>0, <1>1, <1>3
<1>5. Kept(s, removed) \in Seq(B) /\ Len(Kept(s, removed)) = Len(at)
  BY <1>2, <1>3, <1>4, IsASeq, LenProperties
<1>6. DOMAIN Kept(s, removed) = 1..Len(at)
  BY <1>2
<1> QED BY <1>0, <1>1, <1>2, <1>3, <1>5, <1>6 DEF at

\* What a client uploads is a number.
Client == [opt : Int, role : {"honest"} \cup PoisonRoles]
Models == {NoModel} \cup {<<x>> : x \in Int}

\* A round has one upload per client.
LEMMA UploadNumbers ==
  ASSUME NEW clients \in Seq(Client), NEW global \in Models
  PROVE  /\ UploadsOf(clients, global) \in Seq(Int)
         /\ Len(UploadsOf(clients, global)) = Len(clients)
<1>0. Len(clients) \in Nat /\ \A i \in 1..Len(clients) : clients[i] \in Client
  BY LenProperties
<1>1. \A c \in Client : LocalUpdate(c, global) \in Int
  <2> TAKE c \in Client
  <2>1. c.opt \in Int
    BY DEF Client
  <2> DEFINE from == IF global = NoModel THEN 0 ELSE global[1]
             goal == IF c.role = "honest" THEN c.opt ELSE -c.opt
  <2>2. from \in Int
    <3>1. CASE global = NoModel
      BY <3>1
    <3>2. CASE global # NoModel
      <4>1. PICK x \in Int : global = <<x>>
        BY <3>2 DEF Models
      <4> QED BY <3>2, <4>1
    <3> QED BY <3>1, <3>2
  <2>3. goal \in Int
    BY <2>1
  <2>4. LocalUpdate(c, global) = IF c.role = "qtable_target" THEN TargetQ ELSE from + ((goal - from) \div 2)
    BY DEF LocalUpdate
  <2> HIDE DEF from, goal
  <2>5. from + ((goal - from) \div 2) \in Int
    BY <2>2, <2>3
  <2> QED BY <2>4, <2>5, FedAssumption
<1>2. \A i \in 1..Len(clients) : LocalUpdate(clients[i], global) \in Int
  BY <1>0, <1>1
<1> QED BY <1>0, <1>2, IsASeq, LenProperties DEF UploadsOf

\* The uploads kept are the uploads of the clients kept.
LEMMA KeptUploads ==
  ASSUME NEW clients \in Seq(Client), NEW global \in Models, NEW removed
  PROVE  Kept(UploadsOf(clients, global), removed) = UploadsOf(Kept(clients, removed), global)
<1> DEFINE u == UploadsOf(clients, global)
           at == KeptPlaces(Len(clients), removed)
           c == Kept(clients, removed)
<1>0. /\ u \in Seq(Int) /\ Len(u) = Len(clients)
      /\ Len(clients) \in Nat /\ DOMAIN clients = 1..Len(clients)
  BY UploadNumbers, LenProperties
<1>1. /\ c \in Seq(Client) /\ Len(c) = Len(at)
      /\ \A k \in DOMAIN c : at[k] \in 1..Len(clients) /\ c[k] = clients[at[k]]
  BY <1>0, KeptWhat
<1>2. Kept(u, removed) = [i \in 1..Len(at) |-> u[at[i]]]
  BY <1>0 DEF Kept, KeptPlaces
<1>3. UploadsOf(c, global) = [i \in 1..Len(c) |-> LocalUpdate(c[i], global)]
  BY DEF UploadsOf
<1>4. \A i \in 1..Len(clients) : u[i] = LocalUpdate(clients[i], global)
  BY DEF UploadsOf
<1>5. DOMAIN c = 1..Len(c)
  BY <1>1, LenProperties
<1> HIDE DEF u, at, c
<1>6. \A i \in 1..Len(at) : u[at[i]] = LocalUpdate(c[i], global)
  BY <1>1, <1>4, <1>5
<1> QED BY <1>1, <1>2, <1>3, <1>6 DEF u, c

\* An aggregate is a model.
LEMMA AggregateModel ==
  ASSUME NEW method \in FedMethods, NEW u \in Seq(Int), Len(u) > 0, NEW f \in 0..1
  PROVE  AggregateBy(method, u, f) \in Models
<1>1. PICK lo, hi \in Int : \A i \in DOMAIN u : lo <= u[i] /\ u[i] <= hi
  BY Bounded
<1>2. \A a, b \in Int : (\A i \in DOMAIN u : a <= u[i] /\ u[i] <= b) =>
        AggregateBy(method, u, f) \in Models
  <2> SUFFICES ASSUME NEW a \in Int, NEW b \in Int, \A i \in DOMAIN u : a <= u[i] /\ u[i] <= b
               PROVE  AggregateBy(method, u, f) \in Models
    OBVIOUS
  <2>1. ModelWithin(AggregateBy(method, u, f), a, b)
    BY AggregateWithin
  <2> QED BY <2>1 DEF Models, ModelWithin
<1> QED BY <1>1, <1>2

\* A round of clients gives a model, whatever the aggregator.
LEMMA RoundModel ==
  ASSUME NEW method \in FedMethods, NEW clients \in Seq(Client), clients # <<>>,
         NEW global \in Models
  PROVE  AggregateBy(method, UploadsOf(clients, global), 0) \in Models
<1> DEFINE u == UploadsOf(clients, global)
<1>1. u \in Seq(Int) /\ Len(u) = Len(clients)
  BY UploadNumbers
<1>2. Len(clients) > 0
  BY EmptySeq
<1> HIDE DEF u
<1>3. AggregateBy(method, u, 0) \in Models
  BY <1>1, <1>2, AggregateModel
<1> QED BY <1>3 DEF u

\* Retraining, round by round.
RetrainedFrom(method, clients, rounds) ==
  FoldLeft(LAMBDA g, r : AggregateBy(method, UploadsOf(clients, g), 0), NoModel, rounds)

\* The global model of a retraining, round by round.
LEMMA RetrainSteps ==
  ASSUME NEW method \in FedMethods, NEW rounds \in Seq(Seq(Int)), NEW clients \in Seq(Client), clients # <<>>
  PROVE  \E h \in [0..Len(rounds) -> Models] :
           /\ h[0] = NoModel
           /\ \A n \in 1..Len(rounds) : h[n] = AggregateBy(method, UploadsOf(clients, h[n - 1]), 0)
           /\ RetrainedFrom(method, clients, rounds) = h[Len(rounds)]
<1> DEFINE op == [p \in (Models) \X (Seq(Int)) |-> AggregateBy(method, UploadsOf(clients, p[1]), 0)]
           base == NoModel
           body(it) == [t \in SUBSET (1..Len(rounds)) |->
                          IF t = {} THEN base
                          ELSE AggregateBy(method, UploadsOf(clients, it[t \ {Max(t)}]), 0)]
           iter == CHOOSE it : it = body(it)
<1>0. Len(rounds) \in Nat /\ DOMAIN rounds = 1..Len(rounds) /\ rounds \in Seq(Seq(Int))
  BY LenProperties
<1>1. base \in Models /\ op \in [(Models) \X (Seq(Int)) -> Models]
  <2>1. base \in Models
    BY DEF Models
  <2>2. ASSUME NEW x \in Models, NEW y \in Seq(Int) PROVE AggregateBy(method, UploadsOf(clients, x), 0) \in Models
    BY <2>2, RoundModel
  <2> QED BY <2>1, <2>2
<1>2. \A x \in Models, y \in Seq(Int) : op[<<x, y>>] = AggregateBy(method, UploadsOf(clients, x), 0)
  OBVIOUS
<1> HIDE DEF op, base
<1>3. PICK g \in [SUBSET (1..Len(rounds)) -> Models] : FoldsTo(g, rounds, base, op)
  BY <1>0, <1>1, FoldExists
<1>4. g = body(g)
  <2>1. \A t \in SUBSET (1..Len(rounds)) :
          g[t] = IF t = {} THEN base ELSE AggregateBy(method, UploadsOf(clients, g[t \ {Max(t)}]), 0)
    BY <1>0, <1>2, <1>3, FoldPlaces DEF FoldsTo
  <2> QED BY <2>1
<1>5. iter = body(iter)
  BY <1>4
<1>6. RetrainedFrom(method, clients, rounds) = iter[1..Len(rounds)]
  BY <1>0 DEF RetrainedFrom, FoldLeft, MapThenFoldSet, base
<1> HIDE DEF iter
<1>7. FoldsWithin(iter, rounds, Models, base, op)
  <2>1. \A t \in SUBSET (1..Len(rounds)) :
          iter[t] = IF t = {} THEN base ELSE AggregateBy(method, UploadsOf(clients, iter[t \ {Max(t)}]), 0)
    BY <1>5
  <2> HIDE DEF body
  <2> QED BY <1>0, <1>2, <2>1, FoldPlaces DEF FoldsWithin
<1> HIDE DEF body
<1>8. FoldValue(iter[1..Len(rounds)], rounds, Models, base, op)
  BY <1>0, <1>1, <1>7, FoldSteps
<1>9. PICK h \in [0..Len(rounds) -> Models] :
        /\ h[0] = base
        /\ \A n \in 1..Len(rounds) : h[n] = op[<<h[n - 1], rounds[n]>>]
        /\ RetrainedFrom(method, clients, rounds) = h[Len(rounds)]
  BY <1>6, <1>8 DEF FoldValue
<1>10. \A n \in 1..Len(rounds) : h[n] = AggregateBy(method, UploadsOf(clients, h[n - 1]), 0)
  <2> TAKE n \in 1..Len(rounds)
  <2>0. n - 1 \in 0..Len(rounds) /\ n \in 1..Len(rounds)
    BY <1>0
  <2>1. h[n - 1] \in Models
    BY <2>0
  <2>2. rounds[n] \in Seq(Int)
    BY <1>0, <2>0
  <2> QED BY <1>2, <1>9, <2>1, <2>2
<1> QED BY <1>9, <1>10 DEF base

\* Among one round: the clients' first uploads, aggregated.
LEMMA RetrainedOnce ==
  ASSUME NEW method \in FedMethods, NEW rounds \in Seq(Seq(Int)), Len(rounds) = 1,
         NEW clients \in Seq(Client), clients # <<>>
  PROVE  RetrainedFrom(method, clients, rounds)
           = AggregateBy(method, UploadsOf(clients, NoModel), 0)
<1>1. PICK h \in [0..Len(rounds) -> Models] :
        /\ h[0] = NoModel
        /\ \A n \in 1..Len(rounds) : h[n] = AggregateBy(method, UploadsOf(clients, h[n - 1]), 0)
        /\ RetrainedFrom(method, clients, rounds) = h[Len(rounds)]
  BY RetrainSteps
<1>2. h[1] = AggregateBy(method, UploadsOf(clients, h[1 - 1]), 0)
  <2>1. 1 \in 1..Len(rounds)
    OBVIOUS
  <2> QED BY <1>1, <2>1
<1>3. 1 - 1 = 0
  OBVIOUS
<1> QED BY <1>1, <1>2, <1>3

\* So do several rounds.
LEMMA RetrainedModel ==
  ASSUME NEW method \in FedMethods, NEW rounds \in Seq(Seq(Int)),
         NEW clients \in Seq(Client), clients # <<>>
  PROVE  RetrainedFrom(method, clients, rounds) \in Models
<1>1. PICK h \in [0..Len(rounds) -> Models] : RetrainedFrom(method, clients, rounds) = h[Len(rounds)]
  BY RetrainSteps
<1>2. Len(rounds) \in 0..Len(rounds)
  BY LenProperties
<1> QED BY <1>1, <1>2

\* A client's log.
LogEntry == [subject : Subjects, reward : Rewards]

Trained(q, t) == q + ((t.reward - q) \div 2)

\* Training, transition by transition.
LEMMA TrainSteps ==
  ASSUME NEW log \in Seq(LogEntry)
  PROVE  \E h \in [0..Len(log) -> Int] :
           /\ h[0] = 0
           /\ \A n \in 1..Len(log) : h[n] = Trained(h[n - 1], log[n])
           /\ TrainFromLog(log) = h[Len(log)]
<1> DEFINE op == [p \in (Int) \X (LogEntry) |-> Trained(p[1], p[2])]
           base == 0
           body(it) == [t \in SUBSET (1..Len(log)) |->
                          IF t = {} THEN base
                          ELSE Trained(it[t \ {Max(t)}], log[Max(t)])]
           iter == CHOOSE it : it = body(it)
<1>0. Len(log) \in Nat /\ DOMAIN log = 1..Len(log) /\ log \in Seq(LogEntry)
  BY LenProperties
<1>1. base \in Int /\ op \in [(Int) \X (LogEntry) -> Int]
  <2>1. base \in Int
    OBVIOUS
  <2>2. ASSUME NEW x \in Int, NEW y \in LogEntry PROVE Trained(x, y) \in Int
    <3>1. y.reward \in Int
      BY <2>2, FedAssumption DEF LogEntry
    <3> QED BY <2>2, <3>1 DEF Trained
  <2> QED BY <2>1, <2>2
<1>2. \A x \in Int, y \in LogEntry : op[<<x, y>>] = Trained(x, y)
  OBVIOUS
<1> HIDE DEF op, base
<1>3. PICK g \in [SUBSET (1..Len(log)) -> Int] : FoldsTo(g, log, base, op)
  BY <1>0, <1>1, FoldExists
<1>4. g = body(g)
  <2>1. \A t \in SUBSET (1..Len(log)) :
          g[t] = IF t = {} THEN base ELSE Trained(g[t \ {Max(t)}], log[Max(t)])
    BY <1>0, <1>2, <1>3, FoldPlaces DEF FoldsTo
  <2> QED BY <2>1
<1>5. iter = body(iter)
  BY <1>4
<1>6. TrainFromLog(log) = iter[1..Len(log)]
  BY <1>0 DEF TrainFromLog, Trained, FoldLeft, MapThenFoldSet, base
<1> HIDE DEF iter
<1>7. FoldsWithin(iter, log, Int, base, op)
  <2>1. \A t \in SUBSET (1..Len(log)) :
          iter[t] = IF t = {} THEN base ELSE Trained(iter[t \ {Max(t)}], log[Max(t)])
    BY <1>5
  <2> HIDE DEF body
  <2> QED BY <1>0, <1>2, <2>1, FoldPlaces DEF FoldsWithin
<1> HIDE DEF body
<1>8. FoldValue(iter[1..Len(log)], log, Int, base, op)
  BY <1>0, <1>1, <1>7, FoldSteps
<1>9. PICK h \in [0..Len(log) -> Int] :
        /\ h[0] = base
        /\ \A n \in 1..Len(log) : h[n] = op[<<h[n - 1], log[n]>>]
        /\ TrainFromLog(log) = h[Len(log)]
  BY <1>6, <1>8 DEF FoldValue
<1>10. \A n \in 1..Len(log) : h[n] = Trained(h[n - 1], log[n])
  <2> TAKE n \in 1..Len(log)
  <2>0. n - 1 \in 0..Len(log) /\ n \in 1..Len(log)
    BY <1>0
  <2>1. h[n - 1] \in Int
    BY <2>0
  <2>2. log[n] \in LogEntry
    BY <1>0, <2>0
  <2> QED BY <1>2, <1>9, <2>1, <2>2
<1> QED BY <1>9, <1>10 DEF base

\* A policy trained from the log is a number.
LEMMA TrainedNumber ==
  ASSUME NEW log \in Seq(LogEntry)
  PROVE  TrainFromLog(log) \in Int
<1>1. PICK h \in [0..Len(log) -> Int] : TrainFromLog(log) = h[Len(log)]
  BY TrainSteps
<1>2. Len(log) \in 0..Len(log)
  BY LenProperties
<1> QED BY <1>1, <1>2

\* A log without a subject, transition by transition.
LEMMA WithoutSteps ==
  ASSUME NEW log \in Seq(LogEntry), NEW subject
  PROVE  \E h \in [0..Len(log) -> Seq(LogEntry)] :
           /\ h[0] = <<>>
           /\ \A n \in 1..Len(log) : h[n] = (IF log[n].subject = subject THEN h[n - 1] ELSE Append(h[n - 1], log[n]))
           /\ WithoutSubject(log, subject) = h[Len(log)]
<1> DEFINE op == [p \in (Seq(LogEntry)) \X (LogEntry) |-> (IF p[2].subject = subject THEN p[1] ELSE Append(p[1], p[2]))]
           base == <<>>
           body(it) == [t \in SUBSET (1..Len(log)) |->
                          IF t = {} THEN base
                          ELSE (IF log[Max(t)].subject = subject THEN it[t \ {Max(t)}] ELSE Append(it[t \ {Max(t)}], log[Max(t)]))]
           iter == CHOOSE it : it = body(it)
<1>0. Len(log) \in Nat /\ DOMAIN log = 1..Len(log) /\ log \in Seq(LogEntry)
  BY LenProperties
<1>1. base \in Seq(LogEntry) /\ op \in [(Seq(LogEntry)) \X (LogEntry) -> Seq(LogEntry)]
  <2>1. base \in Seq(LogEntry)
    BY EmptySeq
  <2>2. ASSUME NEW x \in Seq(LogEntry), NEW y \in LogEntry PROVE (IF y.subject = subject THEN x ELSE Append(x, y)) \in Seq(LogEntry)
    <3>1. Append(x, y) \in Seq(LogEntry)
      BY <2>2, AppendProperties
    <3> QED BY <2>2, <3>1
  <2> QED BY <2>1, <2>2
<1>2. \A x \in Seq(LogEntry), y \in LogEntry : op[<<x, y>>] = (IF y.subject = subject THEN x ELSE Append(x, y))
  OBVIOUS
<1> HIDE DEF op, base
<1>3. PICK g \in [SUBSET (1..Len(log)) -> Seq(LogEntry)] : FoldsTo(g, log, base, op)
  BY <1>0, <1>1, FoldExists
<1>4. g = body(g)
  <2>1. \A t \in SUBSET (1..Len(log)) :
          g[t] = IF t = {} THEN base ELSE (IF log[Max(t)].subject = subject THEN g[t \ {Max(t)}] ELSE Append(g[t \ {Max(t)}], log[Max(t)]))
    BY <1>0, <1>2, <1>3, FoldPlaces DEF FoldsTo
  <2> QED BY <2>1
<1>5. iter = body(iter)
  BY <1>4
<1>6. WithoutSubject(log, subject) = iter[1..Len(log)]
  BY <1>0 DEF WithoutSubject, FoldLeft, MapThenFoldSet, base
<1> HIDE DEF iter
<1>7. FoldsWithin(iter, log, Seq(LogEntry), base, op)
  <2>1. \A t \in SUBSET (1..Len(log)) :
          iter[t] = IF t = {} THEN base ELSE (IF log[Max(t)].subject = subject THEN iter[t \ {Max(t)}] ELSE Append(iter[t \ {Max(t)}], log[Max(t)]))
    BY <1>5
  <2> HIDE DEF body
  <2> QED BY <1>0, <1>2, <2>1, FoldPlaces DEF FoldsWithin
<1> HIDE DEF body
<1>8. FoldValue(iter[1..Len(log)], log, Seq(LogEntry), base, op)
  BY <1>0, <1>1, <1>7, FoldSteps
<1>9. PICK h \in [0..Len(log) -> Seq(LogEntry)] :
        /\ h[0] = base
        /\ \A n \in 1..Len(log) : h[n] = op[<<h[n - 1], log[n]>>]
        /\ WithoutSubject(log, subject) = h[Len(log)]
  BY <1>6, <1>8 DEF FoldValue
<1>10. \A n \in 1..Len(log) : h[n] = (IF log[n].subject = subject THEN h[n - 1] ELSE Append(h[n - 1], log[n]))
  <2> TAKE n \in 1..Len(log)
  <2>0. n - 1 \in 0..Len(log) /\ n \in 1..Len(log)
    BY <1>0
  <2>1. h[n - 1] \in Seq(LogEntry)
    BY <2>0
  <2>2. log[n] \in LogEntry
    BY <1>0, <2>0
  <2> QED BY <1>2, <1>9, <2>1, <2>2
<1> QED BY <1>9, <1>10 DEF base

\* A log without a subject is a log.
LEMMA WithoutLog ==
  ASSUME NEW log \in Seq(LogEntry), NEW subject
  PROVE  WithoutSubject(log, subject) \in Seq(LogEntry)
<1>1. PICK h \in [0..Len(log) -> Seq(LogEntry)] : WithoutSubject(log, subject) = h[Len(log)]
  BY WithoutSteps
<1>2. Len(log) \in 0..Len(log)
  BY LenProperties
<1> QED BY <1>1, <1>2

\* A log that has nothing of a subject is the same without it.
LEMMA WithoutNothing ==
  ASSUME NEW log \in Seq(LogEntry), NEW subject,
         \A i \in DOMAIN log : log[i].subject # subject
  PROVE  WithoutSubject(log, subject) = log
<1>0. Len(log) \in Nat /\ DOMAIN log = 1..Len(log) /\ \A i \in 1..Len(log) : log[i] \in LogEntry
  BY LenProperties
<1>1. PICK h \in [0..Len(log) -> Seq(LogEntry)] :
        /\ h[0] = <<>>
        /\ \A n \in 1..Len(log) :
             h[n] = (IF log[n].subject = subject THEN h[n - 1] ELSE Append(h[n - 1], log[n]))
        /\ WithoutSubject(log, subject) = h[Len(log)]
  BY WithoutSteps
<1> DEFINE Same(n) == n <= Len(log) => Len(h[n]) = n /\ \A i \in 1..n : h[n][i] = log[i]
           P == {n \in Nat : Same(n)}
<1>2. Same(0)
  <2>1. h[0] = <<>>
    BY <1>1
  <2>2. Len(<<>>) = 0
    BY EmptySeq
  <2> QED BY <2>1, <2>2
<1>3. \A n \in Nat : Same(n) => Same(n + 1)
  <2> SUFFICES ASSUME NEW n \in Nat, Same(n), n + 1 <= Len(log)
               PROVE  Len(h[n + 1]) = n + 1 /\ \A i \in 1..(n + 1) : h[n + 1][i] = log[i]
    OBVIOUS
  <2>1. n + 1 \in 1..Len(log) /\ n \in 0..Len(log) /\ n + 1 - 1 = n /\ n <= Len(log)
    BY <1>0
  <2>2. h[n + 1] = Append(h[n], log[n + 1])
    <3>1. h[n + 1] = (IF log[n + 1].subject = subject THEN h[n + 1 - 1]
                      ELSE Append(h[n + 1 - 1], log[n + 1]))
      BY <1>1, <2>1
    <3>2. log[n + 1].subject # subject
      BY <1>0, <2>1
    <3> QED BY <2>1, <3>1, <3>2
  <2>3. h[n] \in Seq(LogEntry) /\ log[n + 1] \in LogEntry
    BY <1>0, <2>1
  <2>4. Len(h[n]) = n /\ \A i \in 1..n : h[n][i] = log[i]
    BY <2>1
  <2>5. Len(h[n + 1]) = n + 1 /\ \A i \in 1..(n + 1) :
          h[n + 1][i] = IF i = n + 1 THEN log[n + 1] ELSE h[n][i]
    BY <2>2, <2>3, <2>4, AppendProperties
  <2> QED BY <2>4, <2>5
<1> HIDE DEF Same
<1>4. 0 \in P /\ \A n \in Nat : n \in P => n + 1 \in P
  BY <1>2, <1>3
<1>5. \A n \in Nat : n \in P
  <2> HIDE DEF P
  <2> QED BY <1>4, NatSets
<1>6. Same(Len(log))
  BY <1>0, <1>5
<1>7. Len(h[Len(log)]) = Len(log) /\ \A i \in 1..Len(log) : h[Len(log)][i] = log[i]
  BY <1>0, <1>6 DEF Same
<1>8. h[Len(log)] \in Seq(LogEntry)
  <2>1. Len(log) \in 0..Len(log)
    BY <1>0
  <2> QED BY <2>1
<1>9. h[Len(log)] = log
  BY <1>7, <1>8, SeqEqual
<1> QED BY <1>1, <1>9

\* A federation has at least three clients, or is trained from logs; the last
\* client alone may be no honest one.
FedTyped ==
  /\ \/ fedClients = <<>>
     \/ /\ fedClients \in Seq(Client) /\ Len(fedClients) >= 3
        /\ \A i \in 1..(Len(fedClients) - 1) : fedClients[i].role = "honest"
  /\ fedMethod \in FedMethods /\ fedF \in 0..1
  /\ logs \in Seq(Seq(LogEntry))

\* The trace has each round's uploads, and the global model is the last one's.
TraceKept ==
  /\ fedRounds \in Seq(Seq(Int)) /\ Len(fedRounds) <= MaxRounds
  /\ \A r \in DOMAIN fedRounds : Len(fedRounds[r]) = Len(fedClients)
  /\ fedGlobal \in Models
  /\ fedRounds = <<>> => fedGlobal = NoModel
  /\ fedRounds # <<>> =>
       /\ fedClients # <<>> /\ fedGlobal # NoModel
       /\ fedGlobal = AggregateBy(fedMethod, LastUploads, fedF)
  /\ Len(fedRounds) = 1 => fedRounds[1] = UploadsOf(fedClients, NoModel)

\* A certificate says what detection and both ways of unlearning computed.
CertifiedTrue ==
  IF fedCert = NoCert THEN fedCert.distance = 0
  ELSE /\ fedRounds # <<>>
       /\ \E n \in 1..2 : fedCert.removed \in DetectOutliers(LastUploads, n)
       /\ fedCert.after = EfficientUnlearn(fedCert.removed) /\ fedCert.after # NoModel
       /\ Retrain(fedCert.removed) # NoModel
       /\ fedCert.distance = Magnitude(fedCert.after[1] - Retrain(fedCert.removed)[1])

\* What a client uploads after an erasure.
TrainedWithout(c, subject) ==
  [i \in 1..Len(logs) |->
     IF i = c THEN EraseSubject(logs[i], subject) ELSE TrainFromLog(logs[i])]

\* An erasure's certificate is of the logs as they still are.
ErasedTrue ==
  /\ erased.distance = 0
  /\ erased # NoErasure =>
       erased.after = AggregateBy(fedMethod, TrainedWithout(erased.client, erased.subject), 0)

FedInd == FedTyped /\ TraceKept /\ CertifiedTrue /\ ErasedTrue

\* It holds before the first client.
LEMMA FedIndInit == FedInit => FedInd
<1> SUFFICES ASSUME FedInit PROVE FedInd
  OBVIOUS
<1>1. FedTyped
  <2>1. fedMethod \in FedMethods
    BY DEF FedInit
  <2>2. CASE fedClients = <<>> /\ fedF = 0 /\ logs = [c \in 1..LogClients |-> <<>>]
    <3>1. LogClients \in Nat /\ <<>> \in Seq(LogEntry)
      BY FedAssumption, EmptySeq
    <3>2. logs \in Seq(Seq(LogEntry))
      BY <2>2, <3>1, IsASeq
    <3> QED BY <2>1, <2>2, <3>2 DEF FedTyped
  <2>3. ASSUME NEW o \in Optima, NEW r \in PoisonRoles,
               fedClients = Append([i \in 1..Len(o) |-> [opt |-> o[i], role |-> "honest"]],
                                   [opt |-> o[1], role |-> r]),
               fedF \in 0..1, logs = <<>>
        PROVE  FedTyped
    <3> DEFINE h == [i \in 1..Len(o) |-> [opt |-> o[i], role |-> "honest"]]
               last == [opt |-> o[1], role |-> r]
    <3>1. o \in Seq(Int) /\ Len(o) >= 2 /\ Len(o) \in Nat
      BY FedAssumption, LenProperties
    <3>2. \A i \in 1..Len(o) : o[i] \in Int
      BY <3>1, ElementOfSeq
    <3>3. \A i \in 1..Len(o) : [opt |-> o[i], role |-> "honest"] \in Client
      BY <3>2 DEF Client
    <3>4. h \in Seq(Client) /\ Len(h) = Len(o)
      BY <3>1, <3>3, IsASeq, LenProperties
    <3>5. last \in Client
      <4>1. 1 \in 1..Len(o)
        BY <3>1
      <4>2. o[1] \in Int
        BY <3>2, <4>1
      <4> QED BY <2>3, <4>2 DEF Client
    <3>6. \A i \in 1..Len(o) : h[i].role = "honest"
      OBVIOUS
    <3>7. fedClients = Append(h, last)
      BY <2>3
    <3> HIDE DEF h, last
    <3>8. /\ fedClients \in Seq(Client) /\ Len(fedClients) = Len(o) + 1
          /\ \A i \in 1..Len(o) : fedClients[i] = h[i]
      BY <3>1, <3>4, <3>5, <3>7, AppendProperties
    <3>9. \A i \in 1..(Len(fedClients) - 1) : fedClients[i].role = "honest"
      BY <3>1, <3>6, <3>8
    <3>10. logs \in Seq(Seq(LogEntry))
      BY <2>3, EmptySeq
    <3>11. Len(fedClients) >= 3
      BY <3>1, <3>8
    <3> QED BY <2>1, <2>3, <3>8, <3>9, <3>10, <3>11 DEF FedTyped
  <2> QED BY <2>2, <2>3 DEF FedInit
<1>2. TraceKept
  <2>1. fedRounds = <<>> /\ fedGlobal = NoModel
    BY DEF FedInit
  <2>2. <<>> \in Seq(Seq(Int)) /\ Len(<<>>) = 0 /\ MaxRounds \in Nat
    BY EmptySeq, FedAssumption
  <2>3. \A r \in DOMAIN fedRounds : FALSE
    BY <2>1, <2>2, LenProperties
  <2> QED BY <2>1, <2>2, <2>3 DEF TraceKept, Models
<1>3. CertifiedTrue
  BY DEF FedInit, CertifiedTrue, NoCert
<1>4. ErasedTrue
  BY DEF FedInit, ErasedTrue, NoErasure
<1> QED BY <1>1, <1>2, <1>3, <1>4 DEF FedInd

\* What a retraining depends on.
LEMMA RetrainFrom ==
  \A removed : Retrain(removed) =
    IF Kept(fedClients, removed) = <<>> THEN NoModel
    ELSE RetrainedFrom(fedMethod, Kept(fedClients, removed), fedRounds)
BY DEF Retrain, RetrainedFrom, FoldLeft, MapThenFoldSet

\* A certificate stays true while the trace stays as it is.
LEMMA CertifiedKept ==
  ASSUME CertifiedTrue, UNCHANGED <<fedClients, fedMethod, fedRounds, fedCert>>
  PROVE  CertifiedTrue'
<1>1. CASE fedCert = NoCert
  BY <1>1 DEF CertifiedTrue
<1>2. CASE fedCert # NoCert
  <2> DEFINE R == fedCert.removed
  <2>1. /\ fedRounds # <<>>
        /\ \E n \in 1..2 : fedCert.removed \in DetectOutliers(LastUploads, n)
        /\ fedCert.after = EfficientUnlearn(fedCert.removed) /\ fedCert.after # NoModel
        /\ Retrain(fedCert.removed) # NoModel
        /\ fedCert.distance = Magnitude(fedCert.after[1] - Retrain(fedCert.removed)[1])
    BY <1>2 DEF CertifiedTrue
  <2>2. LastUploads' = LastUploads
    BY DEF LastUploads
  <2>3. EfficientUnlearn(fedCert.removed)' = EfficientUnlearn(fedCert.removed)
    BY DEF EfficientUnlearn
  <2>4. Retrain(fedCert.removed)' = Retrain(fedCert.removed)
    <3>1. Retrain(fedCert.removed) =
            IF Kept(fedClients, fedCert.removed) = <<>> THEN NoModel
            ELSE RetrainedFrom(fedMethod, Kept(fedClients, fedCert.removed), fedRounds)
      BY RetrainFrom
    <3>2. Retrain(fedCert.removed)' =
            IF Kept(fedClients', fedCert.removed') = <<>> THEN NoModel
            ELSE RetrainedFrom(fedMethod', Kept(fedClients', fedCert.removed'), fedRounds')
      BY DEF Retrain, RetrainedFrom, FoldLeft, MapThenFoldSet
    <3> QED BY <3>1, <3>2
  <2> QED BY <1>2, <2>1, <2>2, <2>3, <2>4 DEF CertifiedTrue
<1> QED BY <1>1, <1>2

\* An erasure's certificate stays true while the logs stay as they are.
LEMMA ErasedKept ==
  ASSUME ErasedTrue, UNCHANGED <<fedMethod, logs, erased>>
  PROVE  ErasedTrue'
BY DEF ErasedTrue, TrainedWithout

\* What one round of training keeps.
LEMMA TrainKeeps == FedInd /\ TrainRound => FedInd'
<1> SUFFICES ASSUME FedInd, TrainRound PROVE FedInd'
  OBVIOUS
<1> DEFINE u == UploadsOf(fedClients, fedGlobal)
           g == AggregateBy(fedMethod, u, fedF)
<1>0. /\ FedTyped /\ TraceKept /\ CertifiedTrue /\ ErasedTrue
      /\ fedClients # <<>> /\ Len(fedRounds) < MaxRounds /\ fedCert = NoCert /\ g # NoModel
      /\ fedRounds' = Append(fedRounds, u) /\ fedGlobal' = g
      /\ UNCHANGED <<fedClients, fedMethod, fedF, fedCert, logs, erased>>
  BY DEF FedInd, TrainRound
<1>1. fedClients \in Seq(Client) /\ Len(fedClients) >= 3 /\ fedMethod \in FedMethods /\ fedF \in 0..1
  BY <1>0 DEF FedTyped
<1>2. fedGlobal \in Models /\ fedRounds \in Seq(Seq(Int)) /\ Len(fedRounds) \in Nat
      /\ \A r \in 1..Len(fedRounds) : Len(fedRounds[r]) = Len(fedClients)
  BY <1>0, LenProperties DEF TraceKept
<1>3. u \in Seq(Int) /\ Len(u) = Len(fedClients)
  BY <1>1, <1>2, UploadNumbers
<1>4. g \in Models
  <2>1. Len(u) > 0
    BY <1>1, <1>3
  <2> HIDE DEF u
  <2> QED BY <1>1, <1>3, <2>1, AggregateModel
<1> HIDE DEF g
<1>6. /\ fedRounds' \in Seq(Seq(Int)) /\ Len(fedRounds') = Len(fedRounds) + 1
      /\ \A r \in 1..Len(fedRounds) : fedRounds'[r] = fedRounds[r]
      /\ fedRounds'[Len(fedRounds) + 1] = u
  <2> HIDE DEF u
  <2> QED BY <1>0, <1>2, <1>3, AppendProperties
<1>7. FedTyped'
  BY <1>0 DEF FedTyped
<1>8. TraceKept'
  <2>1. fedRounds' \in Seq(Seq(Int)) /\ Len(fedRounds') <= MaxRounds
    BY <1>0, <1>2, <1>6, FedAssumption
  <2>2. \A r \in DOMAIN fedRounds' : Len(fedRounds'[r]) = Len(fedClients')
    <3>1. DOMAIN fedRounds' = 1..(Len(fedRounds) + 1)
      BY <1>6, LenProperties
    <3>2. \A r \in 1..(Len(fedRounds) + 1) : r \in 1..Len(fedRounds) \/ r = Len(fedRounds) + 1
      BY <1>2
    <3> HIDE DEF u
    <3> QED BY <1>0, <1>2, <1>3, <1>6, <3>1, <3>2
  <2>3. fedGlobal' \in Models /\ fedGlobal' # NoModel
    BY <1>0, <1>4
  <2>4. fedRounds' # <<>> /\ fedClients' # <<>>
    <3>1. Len(<<>>) = 0
      BY EmptySeq
    <3> QED BY <1>0, <1>2, <1>6, <3>1
  <2>5. LastUploads' = u
    <3>1. LastUploads' = fedRounds'[Len(fedRounds')]
      BY DEF LastUploads
    <3> QED BY <1>6, <3>1
  <2>6. fedGlobal' = AggregateBy(fedMethod', LastUploads', fedF')
    <3> HIDE DEF u
    <3> QED BY <1>0, <2>5 DEF g
  <2>7. Len(fedRounds') = 1 => fedRounds'[1] = UploadsOf(fedClients', NoModel)
    <3> SUFFICES ASSUME Len(fedRounds') = 1 PROVE fedRounds'[1] = UploadsOf(fedClients, NoModel)
      BY <1>0
    <3>1. Len(fedRounds) = 0
      <4>1. Len(fedRounds) + 1 = 1 /\ Len(fedRounds) \in Nat
        BY <1>2, <1>6
      <4> QED BY <4>1
    <3>2. fedRounds = <<>>
      BY <1>2, <3>1, EmptySeq
    <3>3. fedGlobal = NoModel
      BY <1>0, <3>2 DEF TraceKept
    <3>4. fedRounds'[1] = u
      BY <1>6, <3>1
    <3> QED BY <3>3, <3>4
  <2> QED BY <2>1, <2>2, <2>3, <2>4, <2>6, <2>7 DEF TraceKept
<1>9. CertifiedTrue'
  BY <1>0 DEF CertifiedTrue
<1>10. ErasedTrue'
  BY <1>0, ErasedKept
<1> QED BY <1>7, <1>8, <1>9, <1>10 DEF FedInd

\* Unlearning writes a true certificate.
LEMMA UnlearnKeeps == \A n \in 1..2 : FedInd /\ Unlearn(n) => FedInd'
<1> SUFFICES ASSUME NEW n \in 1..2, FedInd, Unlearn(n) PROVE FedInd'
  OBVIOUS
<1>0. /\ FedTyped /\ TraceKept /\ CertifiedTrue /\ ErasedTrue
      /\ fedRounds # <<>>
      /\ UNCHANGED <<fedClients, fedMethod, fedF, fedRounds, fedGlobal, logs, erased>>
  BY DEF FedInd, Unlearn
<1>1. PICK R \in DetectOutliers(fedRounds[Len(fedRounds)], n) :
        /\ EfficientUnlearn(R) # NoModel /\ Retrain(R) # NoModel
        /\ Certify(R, EfficientUnlearn(R), Retrain(R))
  BY DEF Unlearn
<1>2. fedCert' = [removed |-> R, before |-> fedGlobal, after |-> EfficientUnlearn(R),
                  distance |-> Magnitude(EfficientUnlearn(R)[1] - Retrain(R)[1])]
  BY <1>1 DEF Certify
<1>3. LastUploads' = LastUploads /\ R \in DetectOutliers(LastUploads, n)
  BY <1>0, <1>1 DEF LastUploads
<1>4. fedCert'.removed = R /\ fedCert'.after = EfficientUnlearn(R)
      /\ fedCert'.distance = Magnitude(EfficientUnlearn(R)[1] - Retrain(R)[1])
  BY <1>2
<1>5. EfficientUnlearn(fedCert.removed)' = EfficientUnlearn(R)
  BY <1>0, <1>4 DEF EfficientUnlearn
<1>6. Retrain(fedCert.removed)' = Retrain(R)
  <2>1. Retrain(R) = IF Kept(fedClients, R) = <<>> THEN NoModel
                     ELSE RetrainedFrom(fedMethod, Kept(fedClients, R), fedRounds)
    BY RetrainFrom
  <2>2. Retrain(fedCert.removed)' =
          IF Kept(fedClients', fedCert'.removed) = <<>> THEN NoModel
          ELSE RetrainedFrom(fedMethod', Kept(fedClients', fedCert'.removed), fedRounds')
    BY DEF Retrain, RetrainedFrom, FoldLeft, MapThenFoldSet
  <2> QED BY <1>0, <1>4, <2>1, <2>2
<1>7. fedCert' # NoCert
  BY <1>1, <1>4 DEF NoCert
<1>8. CertifiedTrue'
  BY <1>0, <1>1, <1>3, <1>4, <1>5, <1>6, <1>7 DEF CertifiedTrue, NoCert
<1>9. FedTyped' /\ TraceKept'
  BY <1>0, <1>3 DEF FedTyped, TraceKept
<1>10. ErasedTrue'
  BY <1>0, ErasedKept
<1> QED BY <1>8, <1>9, <1>10 DEF FedInd

\* A log with one more transition.
LEMMA CollectKeeps ==
  \A c \in 1..Len(logs), s \in Subjects, r \in Rewards : FedInd /\ Collect(c, s, r) => FedInd'
<1> SUFFICES ASSUME NEW c \in 1..Len(logs), NEW s \in Subjects, NEW r \in Rewards,
                    FedInd, Collect(c, s, r)
             PROVE  FedInd'
  OBVIOUS
<1> DEFINE t == [subject |-> s, reward |-> r]
<1>0. /\ FedTyped /\ TraceKept /\ CertifiedTrue /\ ErasedTrue
      /\ erased = NoErasure /\ logs' = [logs EXCEPT ![c] = Append(@, t)]
      /\ UNCHANGED <<fedClients, fedMethod, fedF, fedRounds, fedGlobal, fedCert, erased>>
  BY DEF FedInd, Collect
<1>1. logs \in Seq(Seq(LogEntry)) /\ t \in LogEntry
  BY <1>0 DEF FedTyped, LogEntry
<1> HIDE DEF t
<1>2. logs[c] \in Seq(LogEntry)
  BY <1>1, ElementOfSeq
<1>3. Append(logs[c], t) \in Seq(LogEntry)
  BY <1>1, <1>2, AppendProperties
<1>4. logs' = [logs EXCEPT ![c] = Append(logs[c], t)]
  BY <1>0
<1>5. logs' \in Seq(Seq(LogEntry))
  BY <1>1, <1>3, <1>4, ExceptSeq
<1>6. FedTyped'
  BY <1>0, <1>5 DEF FedTyped
<1>7. TraceKept'
  BY <1>0 DEF TraceKept, LastUploads
<1>8. CertifiedTrue'
  BY <1>0, CertifiedKept
<1>9. ErasedTrue'
  BY <1>0 DEF ErasedTrue, NoErasure
<1> QED BY <1>6, <1>7, <1>8, <1>9 DEF FedInd

\* What clients upload after an erasure, and the model of it.
LEMMA ErasedModel ==
  ASSUME FedTyped, NEW c \in 1..Len(logs), NEW s
  PROVE  /\ TrainedWithout(c, s) \in Seq(Int)
         /\ AggregateBy(fedMethod, TrainedWithout(c, s), 0) \in Models
<1> DEFINE u == TrainedWithout(c, s)
<1>0. logs \in Seq(Seq(LogEntry)) /\ Len(logs) \in Nat /\ Len(logs) > 0 /\ fedMethod \in FedMethods
      /\ \A i \in 1..Len(logs) : logs[i] \in Seq(LogEntry)
  BY LenProperties DEF FedTyped
<1>1. \A i \in 1..Len(logs) :
        (IF i = c THEN EraseSubject(logs[i], s) ELSE TrainFromLog(logs[i])) \in Int
  <2> TAKE i \in 1..Len(logs)
  <2>1. logs[i] \in Seq(LogEntry)
    BY <1>0
  <2>2. TrainFromLog(logs[i]) \in Int
    BY <2>1, TrainedNumber
  <2>3. WithoutSubject(logs[i], s) \in Seq(LogEntry)
    BY <2>1, WithoutLog
  <2>4. EraseSubject(logs[i], s) \in Int
    BY <2>3, TrainedNumber DEF EraseSubject
  <2> QED BY <2>2, <2>4
<1>2. u \in Seq(Int)
  BY <1>0, <1>1, IsASeq DEF TrainedWithout
<1>3. Len(u) = Len(logs)
  BY <1>0 DEF TrainedWithout
<1> HIDE DEF u
<1>4. AggregateBy(fedMethod, u, 0) \in Models
  BY <1>0, <1>2, <1>3, AggregateModel
<1> QED BY <1>2, <1>4 DEF u

\* A list of models is these models.
LEMMA ModelsListed ==
  ASSUME NEW u \in Seq(Int)
  PROVE  ModelList(u) = u
<1>1. /\ Len(u) \in Nat /\ u \in [1..Len(u) -> Int]
      /\ ModelList(u) = [i \in 1..Len(u) |-> u[i]]
  BY LenProperties DEF ModelList
<1> QED BY <1>1

\* An erasure trains the named client without the subject, and writes that down.
LEMMA EraseKeeps ==
  \A c \in 1..Len(logs), s \in Subjects : FedInd /\ EraseFromClient(c, s) => FedInd'
<1> SUFFICES ASSUME NEW c \in 1..Len(logs), NEW s \in Subjects, FedInd, EraseFromClient(c, s)
             PROVE  FedInd'
  OBVIOUS
<1> DEFINE local == [i \in 1..Len(logs) |->
                       IF i = c THEN EraseSubject(logs[i], s) ELSE TrainFromLog(logs[i])]
           gold == [i \in 1..Len(logs) |->
                      TrainFromLog(IF i = c THEN WithoutSubject(logs[i], s) ELSE logs[i])]
           after == AggregateBy(fedMethod, local, 0)
<1>12. LET made == AggregateBy(fedMethod, ModelList(local), 0)
       IN  /\ FedTyped /\ TraceKept /\ CertifiedTrue /\ ErasedTrue
           /\ made # NoModel
           /\ erased' = [subject |-> s, client |-> c, after |-> made,
                         distance |-> Magnitude(made[1] -
                                        AggregateBy(fedMethod, ModelList(gold), 0)[1])]
           /\ UNCHANGED <<fedClients, fedMethod, fedF, fedRounds, fedGlobal, fedCert, logs>>
  BY DEF FedInd, EraseFromClient
<1>1. gold = local
  BY DEF EraseSubject
<1>2. local = TrainedWithout(c, s)
  BY DEF TrainedWithout
<1>11. ModelList(local) = local /\ ModelList(gold) = gold
  <2> HIDE DEF local, gold
  <2> QED BY <1>1, <1>2, <1>12, ErasedModel, ModelsListed
<1>0. /\ FedTyped /\ TraceKept /\ CertifiedTrue /\ ErasedTrue
      /\ after # NoModel
      /\ erased' = [subject |-> s, client |-> c, after |-> after,
                    distance |-> Magnitude(after[1] - AggregateBy(fedMethod, gold, 0)[1])]
      /\ UNCHANGED <<fedClients, fedMethod, fedF, fedRounds, fedGlobal, fedCert, logs>>
  <2> HIDE DEF local, gold
  <2> QED BY <1>12, <1>11
<1>3. after \in Models
  <2> HIDE DEF local
  <2> QED BY <1>0, <1>2, ErasedModel
<1>4. PICK x \in Int : after = <<x>>
  BY <1>0, <1>3 DEF Models
<1>5. erased'.distance = 0
  <2>1. erased'.distance = Magnitude(after[1] - after[1])
    BY <1>0, <1>1
  <2>2. after[1] - after[1] = 0
    BY <1>4
  <2>3. Magnitude(0) = 0
    BY DEF Magnitude
  <2> HIDE DEF after
  <2> QED BY <2>1, <2>2, <2>3
<1>6. /\ erased'.subject = s /\ erased'.client = c
      /\ erased'.after = AggregateBy(fedMethod, TrainedWithout(c, s), 0)
  <2> HIDE DEF local, gold
  <2> QED BY <1>0, <1>2
<1>7. TrainedWithout(erased.client, erased.subject)' = TrainedWithout(c, s)
  BY <1>0, <1>6 DEF TrainedWithout
<1>8. ErasedTrue'
  BY <1>0, <1>5, <1>6, <1>7 DEF ErasedTrue
<1>9. FedTyped' /\ TraceKept'
  BY <1>0 DEF FedTyped, TraceKept, LastUploads
<1>10. CertifiedTrue'
  BY <1>0, CertifiedKept
<1> QED BY <1>8, <1>9, <1>10 DEF FedInd

\* Every step keeps the invariant.
LEMMA FedIndStep == FedInd /\ [FedNext]_fedVars => FedInd'
<1> SUFFICES ASSUME FedInd, [FedNext]_fedVars PROVE FedInd'
  OBVIOUS
<1>1. CASE TrainRound
  BY <1>1, TrainKeeps
<1>2. CASE \E n \in 1..2 : Unlearn(n)
  BY <1>2, UnlearnKeeps
<1>3. CASE \E c \in 1..Len(logs), s \in Subjects :
             \/ \E r \in Rewards : Collect(c, s, r)
             \/ EraseFromClient(c, s)
  BY <1>3, CollectKeeps, EraseKeeps
<1>4. CASE UNCHANGED fedVars
  <2>1. FedTyped' /\ TraceKept'
    BY <1>4 DEF FedInd, FedTyped, TraceKept, LastUploads, fedVars
  <2>2. CertifiedTrue' /\ ErasedTrue'
    BY <1>4, CertifiedKept, ErasedKept DEF FedInd, fedVars
  <2> QED BY <2>1, <2>2 DEF FedInd
<1> QED BY <1>1, <1>2, <1>3, <1>4 DEF FedNext

\* The honest uploads of the last round, and how far they reach.
HonestReach(lo, hi) ==
  /\ LastUploads \in Seq(Int) /\ Len(LastUploads) = Len(fedClients) /\ Len(fedClients) >= 3
  /\ DOMAIN fedClients = 1..Len(fedClients) /\ DOMAIN LastUploads = DOMAIN fedClients
  /\ AllButOne(LastUploads, Honest, Len(fedClients), lo, hi)
  /\ lo = Min(HonestUploads) /\ hi = Max(HonestUploads) /\ Spread = hi - lo
  /\ lo \in HonestUploads /\ hi \in HonestUploads /\ lo <= hi

\* The honest uploads of the first round lie between two of them.
LEMMA HonestReaches ==
  ASSUME FedInd, fedRounds # <<>>
  PROVE  \E lo, hi \in Int : HonestReach(lo, hi)
<1> DEFINE n == Len(fedClients)
           u == LastUploads
<1>0. /\ fedClients \in Seq(Client) /\ n >= 3 /\ n \in Nat /\ DOMAIN fedClients = 1..n
      /\ \A i \in 1..(n - 1) : fedClients[i].role = "honest"
  BY LenProperties DEF FedInd, FedTyped, TraceKept
<1>1. u \in Seq(Int) /\ Len(u) = n
  <2>1. fedRounds \in Seq(Seq(Int)) /\ Len(fedRounds) \in 1..Len(fedRounds)
        /\ DOMAIN fedRounds = 1..Len(fedRounds)
    BY LenProperties, EmptySeq DEF FedInd, TraceKept
  <2>2. fedRounds[Len(fedRounds)] \in Seq(Int)
    BY <2>1, ElementOfSeq
  <2>3. Len(fedRounds[Len(fedRounds)]) = n
    BY <2>1 DEF FedInd, TraceKept
  <2> QED BY <2>2, <2>3 DEF LastUploads
<1>2. DOMAIN u = 1..n /\ \A i \in 1..n : u[i] \in Int
  BY <1>1, LenProperties
<1>3. Honest \in SUBSET (1..n) /\ (1..n) \ {n} \subseteq Honest
  <2>1. \A i \in (1..n) \ {n} : i \in 1..(n - 1) /\ i \in 1..n
    <3>1. n \in Nat
      BY <1>0
    <3> HIDE DEF n
    <3> QED BY <3>1
  <2> QED BY <1>0, <2>1 DEF Honest
<1>4. HonestUploads \in SUBSET ToSet(u) /\ HonestUploads # {} /\ HonestUploads \subseteq Int
  <2>1. \A i \in Honest : u[i] \in ToSet(u) /\ u[i] \in Int
    BY <1>2, <1>3 DEF ToSet
  <2>2. 1 \in Honest
    <3>1. 1 \in (1..n) \ {n}
      BY <1>0
    <3> QED BY <1>3, <3>1
  <2> HIDE DEF u
  <2>3. HonestUploads = {u[i] : i \in Honest}
    BY DEF HonestUploads, u
  <2> QED BY <2>1, <2>2, <2>3
<1>5. PICK lo \in HonestUploads : \A w \in HonestUploads : lo <= w
  <2> HIDE DEF u
  <2> QED BY <1>1, <1>4, LeastOf
<1>6. PICK hi \in HonestUploads : \A w \in HonestUploads : hi >= w
  <2> HIDE DEF u
  <2> QED BY <1>1, <1>4, LeastOf
<1>7. lo \in Int /\ hi \in Int /\ lo <= hi
  BY <1>4, <1>5, <1>6
<1>8. Min(HonestUploads) = lo
  <2>1. \E x \in HonestUploads : \A y \in HonestUploads : x <= y
    BY <1>5
  <2>2. Min(HonestUploads) \in HonestUploads /\ \A y \in HonestUploads : Min(HonestUploads) <= y
    BY <2>1 DEF Min
  <2>3. Min(HonestUploads) <= lo /\ lo <= Min(HonestUploads) /\ Min(HonestUploads) \in Int
    BY <1>4, <1>5, <2>2
  <2> QED BY <1>7, <2>3
<1>9. Max(HonestUploads) = hi
  <2>1. \E x \in HonestUploads : \A y \in HonestUploads : x >= y
    BY <1>6
  <2>2. Max(HonestUploads) \in HonestUploads /\ \A y \in HonestUploads : Max(HonestUploads) >= y
    BY <2>1 DEF Max
  <2>3. Max(HonestUploads) >= hi /\ hi >= Max(HonestUploads) /\ Max(HonestUploads) \in Int
    BY <1>4, <1>6, <2>2
  <2> QED BY <1>7, <2>3
<1>10. AllButOne(u, Honest, n, lo, hi)
  <2>1. \A i \in Honest : u[i] \in HonestUploads
    BY DEF HonestUploads
  <2>2. \A i \in Honest : lo <= u[i] /\ u[i] <= hi
    <3> TAKE i \in Honest
    <3>1. u[i] \in HonestUploads /\ u[i] \in Int
      BY <1>4, <2>1
    <3>2. lo <= u[i] /\ hi >= u[i]
      BY <1>5, <1>6, <3>1
    <3> QED BY <1>7, <3>1, <3>2
  <2> QED BY <1>2, <1>3, <2>2 DEF AllButOne
<1>11. HonestReach(lo, hi)
  BY <1>0, <1>1, <1>2, <1>5, <1>6, <1>7, <1>8, <1>9, <1>10 DEF HonestReach, Spread
<1> QED BY <1>7, <1>11

\* The bound on a poisoner's influence.
LEMMA FedIndInfluence == FedInd => InfluenceBounded
<1> SUFFICES ASSUME FedInd, fedRounds # <<>>, Cardinality(Poisoners) <= fedF
             PROVE  /\ fedMethod \in {"median", "trimmed_mean"} =>
                         Min(HonestUploads) <= fedGlobal[1] /\ fedGlobal[1] <= Max(HonestUploads)
                    /\ fedMethod = "krum" =>
                         \E h \in HonestUploads :
                           (fedGlobal[1] - h) * (fedGlobal[1] - h) * (Len(fedClients) - 2 * fedF - 1)
                             <= (Len(fedClients) - fedF - 2) * Spread * Spread
  BY DEF InfluenceBounded
<1> DEFINE u == LastUploads
           n == Len(fedClients)
<1>1. PICK lo, hi \in Int : HonestReach(lo, hi)
  BY HonestReaches
<1>2. /\ u \in Seq(Int) /\ Len(u) = n /\ n >= 3 /\ n \in Nat
      /\ DOMAIN fedClients = 1..n /\ DOMAIN u = 1..n
      /\ AllButOne(u, Honest, n, lo, hi) /\ lo <= hi
  BY <1>1, LenProperties DEF HonestReach
<1>3. lo = Min(HonestUploads) /\ hi = Max(HonestUploads) /\ Spread = hi - lo
  BY <1>1 DEF HonestReach
<1>4. fedF \in 0..1 /\ fedGlobal = AggregateBy(fedMethod, u, fedF) /\ fedGlobal # NoModel
  BY DEF FedInd, FedTyped, TraceKept
<1> HIDE DEF u
<1>5. ASSUME fedMethod \in {"median", "trimmed_mean"}
      PROVE  lo <= fedGlobal[1] /\ fedGlobal[1] <= hi
  <2>1. /\ \E x \in Int : CoordinateMedian(u) = <<x>> /\ lo <= x /\ x <= hi
        /\ \E x \in Int : TrimmedMean(u, 1) = <<x>> /\ lo <= x /\ x <= hi
    BY <1>2, RobustWithin
  <2>2. (IF fedF > 1 THEN fedF ELSE 1) = 1
    BY <1>4
  <2>3. fedGlobal = CoordinateMedian(u) \/ fedGlobal = TrimmedMean(u, 1)
    BY <1>4, <1>5, <2>2 DEF AggregateBy
  <2>4. PICK x \in Int : fedGlobal = <<x>> /\ lo <= x /\ x <= hi
    BY <2>1, <2>3
  <2> QED BY <2>4
<1>6. ASSUME fedMethod = "krum"
      PROVE  \E h \in HonestUploads :
               (fedGlobal[1] - h) * (fedGlobal[1] - h) * (n - 2 * fedF - 1)
                 <= (n - fedF - 2) * (hi - lo) * (hi - lo)
  <2>1. fedGlobal = Krum(u, fedF)
    BY <1>4, <1>6 DEF AggregateBy
  <2>2. Len(u) > 2 * fedF + 2
    <3>1. CASE Len(u) <= 2 * fedF + 2
      BY <1>4, <2>1, <3>1 DEF Krum
    <3> QED BY <1>2, <1>4, <3>1
  <2>3. fedF = 0 => Honest = DOMAIN u
    <3> SUFFICES ASSUME fedF = 0 PROVE Honest = DOMAIN u
      OBVIOUS
    <3>1. Poisoners \subseteq 1..n /\ IsFiniteSet(1..n)
      BY <1>2, FS_Interval DEF Poisoners
    <3>2. IsFiniteSet(Poisoners)
      BY <3>1, FS_Subset
    <3>3. Cardinality(Poisoners) = 0
      <4>1. Cardinality(Poisoners) \in Nat /\ Cardinality(Poisoners) <= 0
        BY <3>2, FS_CardinalityType
      <4> QED BY <4>1
    <3>4. Poisoners = {}
      BY <3>2, <3>3, FS_EmptySet
    <3> QED BY <1>2, <3>4 DEF Poisoners, Honest
  <2>4. \E g \in Int, h \in Honest :
          /\ Krum(u, fedF) = <<g>>
          /\ (g - u[h]) * (g - u[h]) * (Len(u) - 2 * fedF - 1)
               <= (Len(u) - fedF - 2) * (hi - lo) * (hi - lo)
    BY <1>2, <1>4, <2>2, <2>3, KrumNear
  <2>5. PICK g \in Int, h \in Honest :
          /\ fedGlobal = <<g>>
          /\ (g - u[h]) * (g - u[h]) * (n - 2 * fedF - 1)
               <= (n - fedF - 2) * (hi - lo) * (hi - lo)
    BY <1>2, <2>1, <2>4
  <2>6. u[h] \in HonestUploads
    BY DEF HonestUploads, u
  <2>7. fedGlobal[1] = g
    BY <2>5
  <2>8. (fedGlobal[1] - u[h]) * (fedGlobal[1] - u[h]) * (n - 2 * fedF - 1)
          <= (n - fedF - 2) * (hi - lo) * (hi - lo)
    BY <2>5, <2>7
  <2> QED BY <2>6, <2>8
<1> QED BY <1>3, <1>5, <1>6

\* What detection flags.
LEMMA FedIndDetects == FedInd => DetectionFlags
<1> SUFFICES ASSUME FedInd, fedCert # NoCert, NEW p \in Poisoners,
                    \A h \in HonestUploads : Magnitude(LastUploads[p] - h) > Spread
             PROVE  p \in fedCert.removed
  BY DEF DetectionFlags
<1>1. /\ fedRounds # <<>>
      /\ \E k \in 1..2 : fedCert.removed \in DetectOutliers(LastUploads, k)
  BY DEF FedInd, CertifiedTrue
<1>2. PICK lo, hi \in Int : HonestReach(lo, hi)
  BY <1>1, HonestReaches
<1>3. /\ LastUploads \in Seq(Int) /\ Len(LastUploads) = Len(fedClients) /\ Len(fedClients) >= 3
      /\ AllButOne(LastUploads, Honest, Len(fedClients), lo, hi)
      /\ DOMAIN LastUploads = DOMAIN fedClients
      /\ Magnitude(LastUploads[p] - lo) > hi - lo /\ Magnitude(LastUploads[p] - hi) > hi - lo
  BY <1>2 DEF HonestReach
<1>4. p \in DOMAIN LastUploads /\ p = Len(fedClients)
  BY <1>3 DEF Poisoners, AllButOne
<1>5. PICK k \in 1..2 : fedCert.removed \in DetectOutliers(LastUploads, k)
  BY <1>1
<1> QED BY <1>3, <1>4, <1>5, Flagged

\* What is unlearned is gone.
LEMMA FedIndUnlearns == FedInd => UnlearnExact
<1> SUFFICES ASSUME FedInd, fedCert # NoCert PROVE UnlearnExact
  BY DEF UnlearnExact
<1> DEFINE R == fedCert.removed
           u == LastUploads
           keep == Kept(u, R)
           kept == {u[i] : i \in DOMAIN fedClients \ R}
           after == fedCert.after
<1>1. /\ fedRounds # <<>>
      /\ after = EfficientUnlearn(R) /\ after # NoModel
      /\ Retrain(R) # NoModel
      /\ fedCert.distance = Magnitude(after[1] - Retrain(R)[1])
  BY DEF FedInd, CertifiedTrue
<1>2. PICK lo, hi \in Int : HonestReach(lo, hi)
  BY <1>1, HonestReaches
<1>3. /\ u \in Seq(Int) /\ DOMAIN u = DOMAIN fedClients /\ DOMAIN u = 1..Len(u)
      /\ \A i \in DOMAIN u : u[i] \in Int
      /\ fedMethod \in FedMethods /\ fedClients \in Seq(Client)
  <2>1. u \in Seq(Int) /\ DOMAIN u = DOMAIN fedClients
    BY <1>2 DEF HonestReach
  <2>2. fedClients # <<>> /\ fedMethod \in FedMethods
        /\ (fedClients = <<>> \/ fedClients \in Seq(Client))
    BY <1>1 DEF FedInd, FedTyped, TraceKept
  <2> HIDE DEF u
  <2> QED BY <2>1, <2>2, LenProperties
<1>4. keep # <<>> /\ after = AggregateBy(fedMethod, keep, 0)
  BY <1>1 DEF EfficientUnlearn, LastUploads
<1> HIDE DEF u
<1>5. /\ keep \in Seq(Int)
      /\ \A k \in DOMAIN keep : \E i \in (DOMAIN u) \ R : keep[k] = u[i]
  <2> HIDE DEF R
  <2> QED BY <1>3, KeptWhat
<1>6. \A k \in DOMAIN keep : keep[k] \in kept
  BY <1>3, <1>5
<1>7. Len(keep) > 0 /\ DOMAIN keep = 1..Len(keep)
  <2> HIDE DEF keep
  <2> QED BY <1>4, <1>5, EmptySeq, LenProperties
<1>8. kept \in SUBSET ToSet(u) /\ kept \subseteq Int /\ kept # {}
  <2>1. \A i \in DOMAIN u : u[i] \in ToSet(u)
    BY DEF ToSet
  <2>2. 1 \in DOMAIN keep
    BY <1>5, <1>7, LenProperties
  <2> HIDE DEF keep
  <2> QED BY <1>3, <1>6, <2>1, <2>2
<1> HIDE DEF keep, kept
<1>9. Min(kept) \in Int /\ Max(kept) \in Int
      /\ \A w \in kept : Min(kept) <= w /\ w <= Max(kept)
  <2>1. /\ \E v \in kept : \A w \in kept : v <= w
        /\ \E v \in kept : \A w \in kept : v >= w
    BY <1>3, <1>8, LeastOf
  <2>2. Min(kept) \in kept /\ \A w \in kept : Min(kept) <= w
    BY <2>1 DEF Min
  <2>3. Max(kept) \in kept /\ \A w \in kept : Max(kept) >= w
    BY <2>1 DEF Max
  <2>4. Min(kept) \in Int /\ Max(kept) \in Int
    BY <1>8, <2>2, <2>3
  <2>5. \A w \in kept : w <= Max(kept)
    <3> TAKE w \in kept
    <3>1. w \in Int /\ Max(kept) >= w
      BY <1>8, <2>3
    <3> QED BY <2>4, <3>1
  <2> QED BY <2>2, <2>4, <2>5
<1>10. ModelWithin(after, Min(kept), Max(kept))
  <2>1. \A k \in DOMAIN keep : Min(kept) <= keep[k] /\ keep[k] <= Max(kept)
    BY <1>6, <1>9
  <2>2. ModelWithin(AggregateBy(fedMethod, keep, 0), Min(kept), Max(kept))
    <3>1. \A a, b \in Int : (\A k \in DOMAIN keep : a <= keep[k] /\ keep[k] <= b) =>
            ModelWithin(AggregateBy(fedMethod, keep, 0), a, b)
      <4> SUFFICES ASSUME NEW a \in Int, NEW b \in Int,
                          \A k \in DOMAIN keep : a <= keep[k] /\ keep[k] <= b
                   PROVE  ModelWithin(AggregateBy(fedMethod, keep, 0), a, b)
        OBVIOUS
      <4>1. fedMethod \in FedMethods /\ keep \in Seq(Int) /\ Len(keep) > 0 /\ 0 \in 0..1
        BY <1>3, <1>5, <1>7
      <4> QED BY <4>1, AggregateWithin
    <3> QED BY <1>9, <2>1, <3>1
  <2> QED BY <1>4, <2>2
<1>11. PICK x \in Int : after = <<x>> /\ Min(kept) <= x /\ x <= Max(kept)
  BY <1>1, <1>10 DEF ModelWithin
<1>12. Min(kept) <= after[1] /\ after[1] <= Max(kept)
  BY <1>11
<1>13. ASSUME Len(fedRounds) = 1
       PROVE  fedCert.distance = 0 /\ after = Retrain(R)
  <2>1. u = UploadsOf(fedClients, NoModel)
    BY <1>13 DEF FedInd, TraceKept, LastUploads, u
  <2> DEFINE c == Kept(fedClients, R)
  <2>2. NoModel \in Models
    BY DEF Models
  <2>3. keep = UploadsOf(c, NoModel)
    <3> HIDE DEF R
    <3> QED BY <1>3, <2>1, <2>2, KeptUploads DEF keep
  <2>4. Retrain(R) = IF c = <<>> THEN NoModel ELSE RetrainedFrom(fedMethod, c, fedRounds)
    BY RetrainFrom
  <2>5. c \in Seq(Client) /\ c # <<>>
    <3>1. c \in Seq(Client)
      <4> HIDE DEF R
      <4> QED BY <1>3, KeptWhat
    <3> QED BY <1>1, <2>4, <3>1
  <2> HIDE DEF c
  <2>6. RetrainedFrom(fedMethod, c, fedRounds) = AggregateBy(fedMethod, UploadsOf(c, NoModel), 0)
    <3>1. fedRounds \in Seq(Seq(Int))
      BY DEF FedInd, TraceKept
    <3> QED BY <1>3, <1>13, <2>5, <3>1, RetrainedOnce
  <2>7. after = Retrain(R)
    BY <1>4, <2>3, <2>4, <2>5, <2>6
  <2>8. after[1] - after[1] = 0 /\ Magnitude(0) = 0
    BY <1>11 DEF Magnitude
  <2>9. fedCert.distance = Magnitude(after[1] - after[1])
    BY <1>1, <2>7
  <2> HIDE DEF after, R
  <2> QED BY <2>7, <2>8, <2>9
<1> QED BY <1>12, <1>13 DEF UnlearnExact, kept, u

\* What is erased is gone.
LEMMA FedIndErases == FedInd => ErasureExact
<1> SUFFICES ASSUME FedInd, erased # NoErasure,
                    \A c \in DOMAIN logs \ {erased.client} :
                      \A i \in DOMAIN logs[c] : logs[c][i].subject # erased.subject
             PROVE  erased.after =
                      AggregateBy(fedMethod,
                                  [c \in 1..Len(logs) |->
                                     TrainFromLog(WithoutSubject(logs[c], erased.subject))], 0)
  BY DEF ErasureExact, FedInd, ErasedTrue
<1>1. erased.after = AggregateBy(fedMethod, TrainedWithout(erased.client, erased.subject), 0)
  BY DEF FedInd, ErasedTrue
<1>2. \A c \in 1..Len(logs) :
        (IF c = erased.client THEN EraseSubject(logs[c], erased.subject) ELSE TrainFromLog(logs[c]))
          = TrainFromLog(WithoutSubject(logs[c], erased.subject))
  <2> TAKE c \in 1..Len(logs)
  <2>1. CASE c = erased.client
    BY <2>1 DEF EraseSubject
  <2>2. CASE c # erased.client
    <3>1. logs \in Seq(Seq(LogEntry))
      BY DEF FedInd, FedTyped
    <3>2. logs[c] \in Seq(LogEntry) /\ c \in DOMAIN logs
      BY <3>1, LenProperties
    <3>3. \A i \in DOMAIN logs[c] : logs[c][i].subject # erased.subject
      BY <2>2, <3>2
    <3>4. WithoutSubject(logs[c], erased.subject) = logs[c]
      BY <3>2, <3>3, WithoutNothing
    <3> QED BY <2>2, <3>4
  <2> QED BY <2>1, <2>2
<1>3. TrainedWithout(erased.client, erased.subject)
        = [c \in 1..Len(logs) |-> TrainFromLog(WithoutSubject(logs[c], erased.subject))]
  BY <1>2 DEF TrainedWithout
<1> QED BY <1>1, <1>3

\* It keeps roles, models and logs within their types.
LEMMA FedIndTypes == FedInd => FedTypeOK
<1> SUFFICES ASSUME FedInd PROVE FedTypeOK
  OBVIOUS
<1>1. \A i \in DOMAIN fedClients : fedClients[i].role \in {"honest"} \cup PoisonRoles
  <2>1. CASE fedClients = <<>>
    BY <2>1
  <2>2. CASE fedClients \in Seq(Client)
    <3>1. \A i \in DOMAIN fedClients : fedClients[i] \in Client
      BY <2>2, LenProperties
    <3> QED BY <3>1 DEF Client
  <2> QED BY <2>1, <2>2 DEF FedInd, FedTyped
<1>2. Len(fedGlobal) = IF fedRounds = <<>> THEN 0 ELSE 1
  <2>1. CASE fedRounds = <<>>
    BY <2>1, EmptySeq DEF FedInd, TraceKept, NoModel
  <2>2. CASE fedRounds # <<>>
    <3>1. PICK x \in Int : fedGlobal = <<x>>
      BY <2>2 DEF FedInd, TraceKept, Models
    <3> QED BY <2>2, <3>1
  <2> QED BY <2>1, <2>2
<1>3. fedCert.distance >= 0
  <2>1. CASE fedCert = NoCert
    BY <2>1 DEF FedInd, CertifiedTrue
  <2>2. CASE fedCert # NoCert
    <3>1. PICK a \in Int : fedCert.after = <<a>>
      <4>1. /\ fedCert.after = AggregateBy(fedMethod, Kept(LastUploads, fedCert.removed), 0)
            /\ Kept(LastUploads, fedCert.removed) # <<>> /\ fedCert.after # NoModel
        BY <2>2 DEF FedInd, CertifiedTrue, EfficientUnlearn, LastUploads
      <4>2. PICK lo, hi \in Int : HonestReach(lo, hi)
        BY <2>2, HonestReaches DEF FedInd, CertifiedTrue
      <4>3. LastUploads \in Seq(Int)
        BY <4>2 DEF HonestReach
      <4>4. Kept(LastUploads, fedCert.removed) \in Seq(Int)
        BY <4>3, KeptWhat
      <4>5. Len(Kept(LastUploads, fedCert.removed)) > 0 /\ fedMethod \in FedMethods
        BY <4>1, <4>4, EmptySeq DEF FedInd, FedTyped
      <4>6. fedCert.after \in Models
        BY <4>1, <4>4, <4>5, AggregateModel
      <4> QED BY <4>1, <4>6 DEF Models
    <3>2. PICK b \in Int : Retrain(fedCert.removed) = <<b>>
      <4> DEFINE c == Kept(fedClients, fedCert.removed)
      <4>1. Retrain(fedCert.removed) # NoModel
        BY <2>2 DEF FedInd, CertifiedTrue
      <4>2. Retrain(fedCert.removed) =
              IF c = <<>> THEN NoModel ELSE RetrainedFrom(fedMethod, c, fedRounds)
        BY RetrainFrom
      <4>3. fedClients \in Seq(Client) /\ fedMethod \in FedMethods /\ fedRounds \in Seq(Seq(Int))
        BY <2>2 DEF FedInd, FedTyped, TraceKept, CertifiedTrue
      <4>4. c \in Seq(Client)
        BY <4>3, KeptWhat
      <4> HIDE DEF c
      <4>5. RetrainedFrom(fedMethod, c, fedRounds) \in Models
        BY <4>1, <4>2, <4>3, <4>4, RetrainedModel
      <4> QED BY <4>1, <4>2, <4>5 DEF Models
    <3>3. fedCert.distance = Magnitude(a - b)
      BY <2>2, <3>1, <3>2 DEF FedInd, CertifiedTrue
    <3>4. \A d \in Int : Magnitude(d) >= 0
      BY DEF Magnitude
    <3> QED BY <3>3, <3>4
  <2> QED BY <2>1, <2>2
<1>4. \A c \in DOMAIN logs : \A i \in DOMAIN logs[c] :
        logs[c][i].subject \in Subjects /\ logs[c][i].reward \in Rewards
  <2> TAKE c \in DOMAIN logs
  <2>1. logs[c] \in Seq(LogEntry)
    BY LenProperties DEF FedInd, FedTyped
  <2>2. \A i \in DOMAIN logs[c] : logs[c][i] \in LogEntry
    BY <2>1, LenProperties
  <2> QED BY <2>2 DEF LogEntry
<1>5. erased.distance >= 0
  BY DEF FedInd, ErasedTrue
<1> QED BY <1>1, <1>2, <1>3, <1>4, <1>5 DEF FedInd, FedTyped, TraceKept, FedTypeOK

\* The federation by itself: a poisoner's influence is bounded and found, and what
\* is unlearned or erased is gone, for any clients, data and number of rounds.
THEOREM FederationAlwaysHolds ==
  FedSpec => [](InfluenceBounded /\ DetectionFlags /\ UnlearnExact /\ ErasureExact)
<1>1. FedInd => InfluenceBounded /\ DetectionFlags /\ UnlearnExact /\ ErasureExact
  BY FedIndInfluence, FedIndDetects, FedIndUnlearns, FedIndErases
<1> QED BY <1>1, FedIndInit, FedIndStep, PTL DEF FedSpec
=============================================================================
