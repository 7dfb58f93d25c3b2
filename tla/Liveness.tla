------------------------------- MODULE Liveness ------------------------------
(***************************************************************************)
(* The liveness registry behind /healthz and /readyz (runtime/liveness.py, *)
(* rapp/health.py) and the two tasks that feed it: the watchdog            *)
(* (rapp/lifecycle.py) and the loop-lag probe.  Time passes in ticks.  The *)
(* event loop runs a timer as soon as it is due, unless a callback that    *)
(* does not return blocks the loop.                                        *)
(***************************************************************************)
EXTENDS Naturals

CONSTANTS WatchdogInterval,  \* between two watchdog turns
          WatchdogMaxAge,    \* watchdog_max_age_s
          ProbePeriod,       \* loop_probe_period_s
          LagMax,            \* loop_lag_max_s
          PlannerSilence,    \* planner_sla_s * planner_max_missed
          Providers          \* the readiness providers that can be set

ASSUME LivenessAssumption ==
  /\ {WatchdogInterval, ProbePeriod} \subseteq Nat \ {0}
  /\ {WatchdogMaxAge, LagMax, PlannerSilence} \subseteq Nat
  /\ WatchdogInterval <= WatchdogMaxAge
  /\ Providers \subseteq {"connector", "evidence", "r1"}

VARIABLES watchdogAge,  \* since mark_watchdog_tick
          plannerAge,   \* since mark_planner_heartbeat
          plannerSeen,  \* _planner_seen_heartbeat
          probeAge,     \* since the probe's t0
          loopLag,      \* _loop_lag_s
          blocked,      \* the loop is stuck in a callback
          stall,        \* how long it is, or was, stuck
          calm,         \* how long it has been free since
          providers     \* what the readiness providers answer

liveVars == <<watchdogAge, plannerAge, plannerSeen, probeAge, loopLag, blocked,
              stall, calm, providers>>

\* Ages are compared with thresholds; past AgeCap they need not grow.
AgeCap == WatchdogMaxAge + PlannerSilence + ProbePeriod + LagMax + 1
Older(age) == IF age < AgeCap THEN age + 1 ELSE age

\* A provider may not be set, answer well, answer badly or raise.
ProviderAnswers == {"unset", "good", "bad", "raises"}

LiveInit ==
  /\ watchdogAge = 0 /\ plannerAge = 0 /\ probeAge = 0
  /\ plannerSeen = FALSE
  /\ loopLag = 0
  /\ blocked = FALSE
  /\ stall = 0 /\ calm = 0
  /\ providers = [p \in Providers |-> "unset"]

WatchdogDue == watchdogAge >= WatchdogInterval
ProbeDue == probeAge >= ProbePeriod

\* A tick of the clock: a free loop first runs what is due.
Pass ==
  /\ blocked \/ ~(WatchdogDue \/ ProbeDue)
  /\ watchdogAge' = Older(watchdogAge)
  /\ plannerAge' = Older(plannerAge)
  /\ probeAge' = Older(probeAge)
  /\ IF blocked THEN stall' = Older(stall) /\ UNCHANGED calm
     ELSE calm' = Older(calm) /\ UNCHANGED stall
  /\ UNCHANGED <<plannerSeen, loopLag, blocked, providers>>

\* _watchdog_with_liveness: notify_watchdog and mark_watchdog_tick, then sleep.
WatchdogTurn ==
  /\ ~blocked /\ WatchdogDue
  /\ watchdogAge' = 0
  /\ UNCHANGED <<plannerAge, plannerSeen, probeAge, loopLag, blocked, stall, calm,
                 providers>>

\* Fault: the registry keeps the worst lag it was told.
ProbeTurnLatched ==
  /\ ~blocked /\ ProbeDue
  /\ loopLag' = IF probeAge - ProbePeriod > loopLag THEN probeAge - ProbePeriod
                ELSE loopLag
  /\ probeAge' = 0
  /\ UNCHANGED <<watchdogAge, plannerAge, plannerSeen, blocked, stall, calm,
                 providers>>

\* loop_lag_probe_task: record how much longer than its sleep it slept.
ProbeTurn ==
  /\ ~blocked /\ ProbeDue
  /\ loopLag' = probeAge - ProbePeriod
  /\ probeAge' = 0
  /\ UNCHANGED <<watchdogAge, plannerAge, plannerSeen, blocked, stall, calm,
                 providers>>

PlannerHeartbeat ==
  /\ ~blocked
  /\ plannerAge' = 0
  /\ plannerSeen' = TRUE
  /\ UNCHANGED <<watchdogAge, probeAge, loopLag, blocked, stall, calm, providers>>

\* A callback blocks the loop, and returns.
Block ==
  /\ ~blocked /\ ~WatchdogDue /\ ~ProbeDue
  /\ blocked' = TRUE
  /\ stall' = 0 /\ calm' = 0
  /\ UNCHANGED <<watchdogAge, plannerAge, plannerSeen, probeAge, loopLag, providers>>

Unblock ==
  /\ blocked
  /\ blocked' = FALSE
  /\ UNCHANGED <<watchdogAge, plannerAge, plannerSeen, probeAge, loopLag, stall,
                 calm, providers>>

\* set_connector_state_provider and its siblings, and what the provider is asked.
SetProvider(p, answer) ==
  /\ watchdogAge = 0 /\ plannerAge = 0 /\ probeAge = 0 /\ ~blocked
  /\ providers' = [providers EXCEPT ![p] = answer]
  /\ UNCHANGED <<watchdogAge, plannerAge, plannerSeen, probeAge, loopLag, blocked,
                 stall, calm>>

LiveNext ==
  \/ Pass \/ WatchdogTurn \/ ProbeTurn \/ PlannerHeartbeat \/ Block \/ Unblock
  \/ \E p \in Providers, a \in ProviderAnswers : SetProvider(p, a)

LiveSpec == LiveInit /\ [][LiveNext]_liveVars

-----------------------------------------------------------------------------
\* evaluate().
LivenessFailures ==
  {f \in {"watchdog_stale", "loop_lag_high", "planner_stalled"} :
     \/ f = "watchdog_stale" /\ watchdogAge > WatchdogMaxAge
     \/ f = "loop_lag_high" /\ loopLag > LagMax
     \/ f = "planner_stalled" /\ plannerSeen /\ plannerAge > PlannerSilence}

\* evaluate_readiness(): a provider that is not set is not held against the
\* rApp, one that raises is.
ReadinessFailures ==
  LivenessFailures \cup {p \in Providers : providers[p] \in {"bad", "raises"}}

LiveTypeOK ==
  /\ {watchdogAge, plannerAge, probeAge, loopLag, stall, calm} \subseteq 0..AgeCap
  /\ {plannerSeen, blocked} \subseteq BOOLEAN
  /\ providers \in [Providers -> ProviderAnswers]

\* What /healthz says is what happened to the loop.  A loop that has been free
\* for more than a probe period is reported neither stale nor lagging, whatever
\* happened before; a stall longer than the probe period and the tolerated lag
\* together is reported from the moment it ends (the watchdog and the probe
\* having run) until a full period has passed; and a loop still stuck beyond
\* the watchdog's age is stale.
HealthzTruthful ==
  /\ ~blocked /\ calm > ProbePeriod /\ ~WatchdogDue /\ ~ProbeDue =>
       LivenessFailures \subseteq {"planner_stalled"}
  /\ ~blocked /\ calm = 0 /\ stall > ProbePeriod + LagMax /\ ~ProbeDue =>
       "loop_lag_high" \in LivenessFailures
  /\ blocked /\ stall > WatchdogMaxAge => "watchdog_stale" \in ReadinessFailures
=============================================================================
