------------------------------ MODULE AlarmBus -------------------------------
(***************************************************************************)
(* The X.733 alarm bus (observability/x733_alarms.py): the table from      *)
(* internal events to alarm shapes, and the registry of active alarms.     *)
(* The registry's key is (managed_object_instance, alarm_type,             *)
(* probable_cause); every alarm of the rApp has the default instance and   *)
(* each probable cause comes with one alarm type, so the cause is the key. *)
(***************************************************************************)
EXTENDS Naturals

\* _FAILURE_MAP: the probable cause and the severity of each event.
FailureMap ==
  [cb_opened       |-> [cause |-> "internalServiceFailure", severity |-> "major"],
   cb_half_open    |-> [cause |-> "internalServiceFailure", severity |-> "warning"],
   cb_closed       |-> [cause |-> "internalServiceFailure", severity |-> "cleared"],
   degraded        |-> [cause |-> "qosAlarm",               severity |-> "major"],
   recovered       |-> [cause |-> "qosAlarm",               severity |-> "cleared"],
   tamper_detected |-> [cause |-> "softwareError",          severity |-> "critical"],
   append_failed   |-> [cause |-> "storageError",           severity |-> "major"],
   watchdog_failed |-> [cause |-> "equipmentFailure",       severity |-> "critical"],
   sla_breach      |-> [cause |-> "thresholdCrossed",       severity |-> "major"],
   auth_denied     |-> [cause |-> "authenticationFailure",  severity |-> "minor"],
   emit_refused    |-> [cause |-> "callEstablishmentError", severity |-> "major"]]

Causes == {FailureMap[e].cause : e \in DOMAIN FailureMap}

\* No alarm is active under a cause.
Cleared == "cleared"

Silent == [c \in Causes |-> Cleared]

\* emit_event: a clearing alarm drops the entry of its cause, any other one
\* replaces it.
EmitEvent(active, event) ==
  LET shape == FailureMap[event]
  IN [active EXCEPT ![shape.cause] =
        IF shape.severity = "cleared" THEN Cleared ELSE shape.severity]
=============================================================================
