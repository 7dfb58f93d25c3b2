---------------------------- MODULE Nis2Reporter -----------------------------
(***************************************************************************)
(* The NIS2 incident reporter (security/nis2_reporter.py): three automatic *)
(* checks, each of which may trigger an incident; a trigger posts to the   *)
(* operator, then to the CSIRT, then persists, and nothing it meets on the *)
(* way stops it but a crash.  Time is in ticks.                            *)
(***************************************************************************)
EXTENDS Integers, Sequences, FiniteSets

CONSTANTS AuthWindow,     \* auth_failure_window_seconds
          MinSamples,     \* fewer samples are noise
          ThresholdPct,   \* auth_failure_threshold_pct
          MaxEvents,      \* the deque's maxlen
          SlaThreshold,   \* threshold of a breach probability, in per cent
          SlaProbabilities,
          MaxNisTime, MaxAuthEvents, MaxTriggers

ASSUME Nis2Assumption ==
  {AuthWindow, MinSamples, ThresholdPct, MaxEvents, SlaThreshold} \subseteq Nat

\* NIS2Milestones.from_trigger, in hours.
Milestones(at) == [early |-> at + 24, notification |-> at + 72, final |-> at + 720]

VARIABLES nsNow,
          nsEvents,    \* _auth_events: [at, ok], the oldest first
          nsEver,      \* ghost: every auth event recorded
          nsBusy,      \* the trigger under way, or none
          nsPosted,    \* [incident, to] that arrived
          nsEvidence,  \* what the sink holds
          nsLost,      \* ghost: what a failing sink was handed
          nsDone,      \* ghost: incidents whose trigger returned
          nsJudged,    \* ghost: the last rate check, and what it should say
          nsTriggers   \* triggers so far

nsVars == <<nsNow, nsEvents, nsEver, nsBusy, nsPosted, nsEvidence, nsLost,
            nsDone, nsJudged, nsTriggers>>

NoTrigger == [at |-> "none"]

NisInit ==
  /\ nsNow = 0 /\ nsEvents = <<>> /\ nsEver = <<>>
  /\ nsBusy = NoTrigger
  /\ nsPosted = {} /\ nsEvidence = {} /\ nsLost = {} /\ nsDone = {}
  /\ nsJudged = [fired |-> FALSE, due |-> FALSE]
  /\ nsTriggers = 0

\* trigger_incident up to the first post.  The derived id is the second and the
\* scope: the same check in the same second yields the same id.
Trigger(scope) ==
  /\ nsBusy' = [at |-> "operator",
                id |-> [at |-> nsNow, scope |-> scope],
                due |-> Milestones(nsNow)]
  /\ nsTriggers' = nsTriggers + 1

\* auto_check_audit_chain, with what verify() returned.
AutoCheckChain(firstBad) ==
  /\ nsBusy = NoTrigger /\ nsTriggers < MaxTriggers
  /\ firstBad # -1
  /\ Trigger("chain")
  /\ UNCHANGED <<nsNow, nsEvents, nsEver, nsPosted, nsEvidence, nsLost, nsDone,
                 nsJudged>>

\* auto_check_sla_breach
AutoCheckSla(probability) ==
  /\ nsBusy = NoTrigger /\ nsTriggers < MaxTriggers
  /\ probability >= SlaThreshold
  /\ Trigger("sla")
  /\ UNCHANGED <<nsNow, nsEvents, nsEver, nsPosted, nsEvidence, nsLost, nsDone,
                 nsJudged>>

\* record_auth_event, with the clock or an earlier time the caller names; a full
\* deque drops the event recorded first.  After the last trigger no check reads it.
RecordAuth(when, ok) ==
  /\ Len(nsEver) < MaxAuthEvents /\ when <= nsNow
  /\ nsBusy = NoTrigger /\ nsTriggers < MaxTriggers
  /\ LET all == Append(nsEvents, [at |-> when, ok |-> ok])
     IN  nsEvents' = IF Len(all) > MaxEvents THEN Tail(all) ELSE all
  /\ nsEver' = Append(nsEver, [at |-> when, ok |-> ok])
  /\ UNCHANGED <<nsNow, nsBusy, nsPosted, nsEvidence, nsLost, nsDone, nsJudged, nsTriggers>>

\* The rate over the window is too high for these events.
RateExceeded(events) ==
  LET recent == {i \in DOMAIN events : events[i].at + AuthWindow >= nsNow}
      failures == {i \in recent : ~events[i].ok}
  IN  /\ Cardinality(recent) >= MinSamples
      /\ Cardinality(failures) * 100 > ThresholdPct * Cardinality(recent)

\* Fault: an event at the very start of the window no longer counts.
AutoCheckRateOpen ==
  /\ nsBusy = NoTrigger /\ nsTriggers < MaxTriggers
  /\ LET inside == SelectSeq(nsEvents, LAMBDA e : e.at + AuthWindow > nsNow)
     IN  /\ nsJudged' = [fired |-> RateExceeded(inside), due |-> RateExceeded(nsEver)]
         /\ IF RateExceeded(inside) THEN Trigger("auth") ELSE UNCHANGED <<nsBusy, nsTriggers>>
  /\ UNCHANGED <<nsNow, nsEvents, nsEver, nsPosted, nsEvidence, nsLost, nsDone>>

\* auto_check_auth_failure_rate
AutoCheckRate ==
  /\ nsBusy = NoTrigger /\ nsTriggers < MaxTriggers
  /\ nsJudged' = [fired |-> RateExceeded(nsEvents), due |-> RateExceeded(nsEver)]
  /\ IF RateExceeded(nsEvents) THEN Trigger("auth") ELSE UNCHANGED <<nsBusy, nsTriggers>>
  /\ UNCHANGED <<nsNow, nsEvents, nsEver, nsPosted, nsEvidence, nsLost, nsDone>>

\* _persist: the sink takes the payload, or raises and the payload is gone.
Persist(payload) ==
  \/ nsEvidence' = nsEvidence \cup {payload} /\ UNCHANGED nsLost
  \/ nsLost' = nsLost \cup {payload} /\ UNCHANGED nsEvidence

DeliveryFailure(to) == [kind |-> "delivery_failure", to |-> to, id |-> nsBusy.id]

Following(to) == IF to = "operator" THEN "csirt" ELSE "persist"

\* _post to the next endpoint: delivered, or its failure persisted.
PostArrives(to) ==
  /\ nsBusy.at = to
  /\ nsPosted' = nsPosted \cup {[to |-> to, id |-> nsBusy.id]}
  /\ nsBusy' = [nsBusy EXCEPT !.at = Following(to)]
  /\ UNCHANGED <<nsNow, nsEvents, nsEver, nsEvidence, nsLost, nsDone, nsJudged, nsTriggers>>

PostFails(to) ==
  /\ nsBusy.at = to
  /\ Persist(DeliveryFailure(to))
  /\ nsBusy' = [nsBusy EXCEPT !.at = Following(to)]
  /\ UNCHANGED <<nsNow, nsEvents, nsEver, nsPosted, nsDone, nsJudged, nsTriggers>>

\* The incident itself is persisted and the trigger returns.
PersistIncident ==
  /\ nsBusy.at = "persist"
  /\ Persist([kind |-> "incident", to |-> "chain", id |-> nsBusy.id])
  /\ nsDone' = nsDone \cup {[id |-> nsBusy.id, due |-> nsBusy.due]}
  /\ nsBusy' = NoTrigger
  /\ UNCHANGED <<nsNow, nsEvents, nsEver, nsPosted, nsJudged, nsTriggers>>

\* The process dies in the middle: the trigger is gone, and the auth events.
NisCrash ==
  /\ nsBusy # NoTrigger
  /\ nsBusy' = NoTrigger
  /\ nsEvents' = <<>> /\ nsEver' = <<>>
  /\ nsJudged' = [fired |-> FALSE, due |-> FALSE]
  /\ UNCHANGED <<nsNow, nsPosted, nsEvidence, nsLost, nsDone, nsTriggers>>

NisTick ==
  /\ nsNow < MaxNisTime /\ nsBusy = NoTrigger /\ nsTriggers < MaxTriggers
  /\ nsNow' = nsNow + 1
  /\ nsJudged' = [fired |-> FALSE, due |-> FALSE]
  /\ UNCHANGED <<nsEvents, nsEver, nsBusy, nsPosted, nsEvidence, nsLost, nsDone, nsTriggers>>

NisNext ==
  \/ AutoCheckChain(0)
  \/ \E p \in SlaProbabilities : AutoCheckSla(p)
  \/ \E when \in 0..nsNow, ok \in BOOLEAN : RecordAuth(when, ok)
  \/ AutoCheckRate
  \/ \E to \in {"operator", "csirt"} : PostArrives(to) \/ PostFails(to)
  \/ PersistIncident \/ NisCrash \/ NisTick

NisSpec == NisInit /\ [][NisNext]_nsVars

NisTypeOK ==
  /\ Len(nsEvents) <= MaxEvents
  /\ nsBusy.at \in {"none", "operator", "csirt", "persist"}
  /\ \A e \in nsEvidence \cup nsLost : e.kind \in {"incident", "delivery_failure"}

-----------------------------------------------------------------------------
\* Every incident whose trigger returned reached both the operator and the
\* CSIRT, or left evidence of the delivery that failed, and is itself in the
\* evidence, except for what the sink itself failed to take.
IncidentsAccounted ==
  \A i \in nsDone :
    /\ \A to \in {"operator", "csirt"} :
         \/ [to |-> to, id |-> i.id] \in nsPosted
         \/ [kind |-> "delivery_failure", to |-> to, id |-> i.id] \in nsEvidence \cup nsLost
    /\ [kind |-> "incident", to |-> "chain", id |-> i.id] \in nsEvidence \cup nsLost

\* The failure rate is judged over exactly the window, its first instant
\* included, as long as no more events were recorded than the deque holds.
RateJudgedExactly ==
  Len(nsEver) <= MaxEvents => nsJudged.fired = nsJudged.due

\* No reportable incident is passed over.
ReportsComplete == IncidentsAccounted /\ RateJudgedExactly
=============================================================================
