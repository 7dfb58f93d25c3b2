----------------------------- MODULE Degradation -----------------------------
(***************************************************************************)
(* The degradation controller (runtime/graceful_degradation.py) and the    *)
(* alarms its transitions raise.  Every method body under the controller's *)
(* lock is one step; enter() and recover() raise their alarm after they    *)
(* have released it, which is a step of its own.                           *)
(*                                                                         *)
(* The callers are the detectors the class docstring describes: one per    *)
(* failure mode, which calls enter() when it finds its dependency down (as *)
(* often as it finds it so) and recover() once the dependency is healthy   *)
(* again.                                                                  *)
(***************************************************************************)
EXTENDS Naturals, Sequences, AlarmBus

CONSTANTS Modes,        \* the failure modes that have a detector
          MaxRecords,   \* how many evidence records are ever buffered
          MaxDecisions  \* how many decisions are ever held

\* _FAILURE_TO_STATE.
FailureToState ==
  [smo_unreachable     |-> "keep_last_good",
   evidence_store_down |-> "buffer_to_tmp",
   telemetry_dropped   |-> "hold_output"]

ASSUME ModesAssumption == Modes \subseteq DOMAIN FailureToState

VARIABLES degraded,   \* _state
          mode,       \* _failure_mode
          noticed,    \* noticed[m]: m's detector has called enter() and not
                      \* yet recover()
          pending,    \* pending[m]: the alarm m's detector has still to raise
          down,       \* down[m]: whether m's dependency is down
          overlapped, \* a transition was made while an alarm was pending
          lastGood,   \* _last_good_policies: the policy types it has one for
          held,       \* _held_decisions
          buffered,   \* _buffered_evidence
          spill,      \* the lines of the buffer file
          replayed,   \* what drain_buffered_evidence has returned so far
          alarms      \* the bus's active alarms

degVars == <<degraded, mode, noticed, pending, down, overlapped, lastGood,
             held, buffered, spill, replayed, alarms>>

helperVars == <<lastGood, held, buffered, spill, replayed>>

NoMode == "none"

DegInit ==
  /\ degraded = "normal"
  /\ mode = NoMode
  /\ noticed = [m \in Modes |-> FALSE]
  /\ pending = [m \in Modes |-> NoMode]
  /\ down = [m \in Modes |-> FALSE]
  /\ overlapped = FALSE
  /\ lastGood = {}
  /\ held = <<>>
  /\ buffered = <<>>
  /\ spill = <<>>
  /\ replayed = <<>>
  /\ alarms = Silent

AlarmsOut == \A m \in Modes : pending[m] = NoMode

-----------------------------------------------------------------------------
(* Transitions.                                                            *)

\* Fault: a mode that was reported is not entered again before its own recovery.
EnterDeduped(m) ==
  /\ pending[m] = NoMode
  /\ down[m] /\ ~noticed[m]
  /\ noticed' = [noticed EXCEPT ![m] = TRUE]
  /\ degraded' = FailureToState[m]
  /\ mode' = m
  /\ pending' = [pending EXCEPT ![m] = "degraded"]
  /\ overlapped' = (overlapped \/ ~AlarmsOut)
  /\ UNCHANGED <<helperVars, down, alarms>>

\* enter(): idempotent for the mode in force; any other mode replaces it.
Enter(m) ==
  /\ pending[m] = NoMode
  /\ down[m]
  /\ noticed' = [noticed EXCEPT ![m] = TRUE]
  /\ IF degraded = FailureToState[m] /\ mode = m
     THEN UNCHANGED <<degraded, mode, pending, overlapped>>
     ELSE /\ degraded' = FailureToState[m]
          /\ mode' = m
          /\ pending' = [pending EXCEPT ![m] = "degraded"]
          /\ overlapped' = (overlapped \/ ~AlarmsOut)
  /\ UNCHANGED <<helperVars, down, alarms>>

\* Fault: recovery raises no clearing alarm.
RecoverSilently(m) ==
  /\ pending[m] = NoMode
  /\ noticed[m] /\ ~down[m]
  /\ noticed' = [noticed EXCEPT ![m] = FALSE]
  /\ degraded' = "normal"
  /\ mode' = NoMode
  /\ UNCHANGED <<pending, overlapped, helperVars, down, alarms>>

\* recover(): back to NORMAL whatever the mode in force; held decisions and
\* buffered records stay for the drains.
Recover(m) ==
  /\ pending[m] = NoMode
  /\ noticed[m] /\ ~down[m]
  /\ noticed' = [noticed EXCEPT ![m] = FALSE]
  /\ IF degraded = "normal"
     THEN UNCHANGED <<degraded, mode, pending, overlapped>>
     ELSE /\ degraded' = "normal"
          /\ mode' = NoMode
          /\ pending' = [pending EXCEPT ![m] = "recovered"]
          /\ overlapped' = (overlapped \/ ~AlarmsOut)
  /\ UNCHANGED <<helperVars, down, alarms>>

\* The alarm of a transition, raised after the lock is released.
RaiseAlarm(m) ==
  /\ pending[m] # NoMode
  /\ alarms' = EmitEvent(alarms, pending[m])
  /\ pending' = [pending EXCEPT ![m] = NoMode]
  /\ UNCHANGED <<degraded, mode, noticed, down, overlapped, helperVars>>

-----------------------------------------------------------------------------
(* The helpers of each mode.  They are the caller's to choose: none of them *)
(* looks at the state.                                                      *)

transitionVars == <<degraded, mode, noticed, pending, down, overlapped, alarms>>

RecordLastGoodPolicy(policyType) ==
  /\ lastGood' = lastGood \cup {policyType}
  /\ UNCHANGED <<held, buffered, spill, replayed, transitionVars>>

\* buffer_evidence(): the list, and a line of the buffer file unless its write
\* raises.
BufferEvidence ==
  LET record == Len(replayed) + Len(buffered) + 1
  IN  /\ record <= MaxRecords
      /\ buffered' = Append(buffered, record)
      /\ spill' \in {spill, Append(spill, record)}
      /\ UNCHANGED <<lastGood, held, replayed, transitionVars>>

HoldDecision ==
  /\ Len(held) < MaxDecisions
  /\ held' = Append(held, Len(held) + 1)
  /\ UNCHANGED <<lastGood, buffered, spill, replayed, transitionVars>>

\* drain_buffered_evidence(): the list is returned and emptied; the file is
\* left as it is.
DrainBufferedEvidence ==
  /\ buffered # <<>>
  /\ replayed' = replayed \o buffered
  /\ buffered' = <<>>
  /\ UNCHANGED <<lastGood, held, spill, transitionVars>>

DrainHeldDecisions ==
  /\ held # <<>>
  /\ held' = <<>>
  /\ UNCHANGED <<lastGood, buffered, spill, replayed, transitionVars>>

-----------------------------------------------------------------------------
\* The dependency of a mode fails or comes back.
Toggle(m) ==
  /\ down' = [down EXCEPT ![m] = ~@]
  /\ UNCHANGED <<degraded, mode, noticed, pending, overlapped, helperVars, alarms>>

Helpers ==
  \/ \E t \in {"qos"} : RecordLastGoodPolicy(t)
  \/ BufferEvidence
  \/ HoldDecision
  \/ DrainBufferedEvidence
  \/ DrainHeldDecisions

DegNext ==
  \/ \E m \in Modes : Enter(m) \/ Recover(m) \/ RaiseAlarm(m) \/ Toggle(m)
  \/ Helpers

DegSpec == DegInit /\ [][DegNext]_degVars

\* is_serving().
DegServing == degraded = "normal"

-----------------------------------------------------------------------------
DegTypeOK ==
  /\ degraded \in {"normal"} \cup {FailureToState[m] : m \in Modes}
  /\ mode \in Modes \cup {NoMode}
  /\ noticed \in [Modes -> BOOLEAN]
  /\ pending \in [Modes -> {NoMode, "degraded", "recovered"}]
  /\ down \in [Modes -> BOOLEAN]
  /\ overlapped \in BOOLEAN
  /\ alarms \in [Causes -> {Cleared, "major"}]

\* As long as no transition is made while another one's alarm is still to be
\* raised, the qosAlarm the SMO sees once the alarms are out is active exactly
\* while the controller is degraded: the clearing alarm of recover() matches
\* the alarm of enter(), although neither is raised under the lock.
AlarmMatchesMode ==
  AlarmsOut /\ ~overlapped => (alarms["qosAlarm"] # Cleared <=> degraded # "normal")

\* One recover() ends every mode in force, so a second failed dependency is
\* forgotten; its detector reports it again, and a dependency that stays down
\* keeps taking the controller out of service.
FailureNoticed ==
  \A m \in Modes : <>[]down[m] => []<>~DegServing
=============================================================================
