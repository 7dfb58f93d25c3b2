--------------------------- MODULE CircuitBreaker ----------------------------
(***************************************************************************)
(* The asynchronous circuit breakers around the SMO and Near-RT RIC calls  *)
(* (runtime/circuit_breaker.py) and the alarms their state changes raise.  *)
(* call() runs on one event loop: from its start to the await of the       *)
(* wrapped coroutine is one step, and so is everything after the await, but *)
(* any number of other calls start and finish in between.                  *)
(*                                                                         *)
(* pybreaker's state machine is external and modelled from the calls       *)
(* call() makes on it.  Its failure counter is read in one comparison with *)
(* fail_max, so the model's counter stops at FailMax.                      *)
(***************************************************************************)
EXTENDS Naturals, AlarmBus

CONSTANTS Breakers,      \* one per adapter: A1, R1, O1
          Calls,         \* the calls that can be under way at the same time
          FailMax,       \* BreakerConfig.fail_max
          ResetTimeout   \* BreakerConfig.reset_timeout, in clock ticks

ASSUME FailMaxAssumption == FailMax \in Nat \ {0}
ASSUME ResetTimeoutAssumption == ResetTimeout \in Nat
ASSUME BreakersAssumption == "none" \notin Breakers

VARIABLES state,      \* state[b]: "closed", "open" or "half-open"
          counter,    \* counter[b]: consecutive counted failures
          cooldown,   \* cooldown[b]: ticks left of the reset window
          call,       \* call[c]: Idle, or how c started: on which breaker, in
                      \* which state of it, and whether the remote side was up
          alarms,     \* the bus's active alarms
          up          \* whether the remote side answers

vars == <<state, counter, cooldown, call, alarms, up>>

Idle == [on |-> "none", admitted |-> "none", sound |-> TRUE]

\* How the awaited coroutine ends, as _is_failure sorts it: a result, an HTTP
\* 4xx, a 5xx or transport error, or any other exception (the caller being
\* cancelled, an error that is not httpx's).
Outcomes == {"result", "clientError", "failure", "other"}
IsFailure(outcome) == outcome = "failure"

-----------------------------------------------------------------------------
(* pybreaker's transitions; each one notifies the listener, whose           *)
(* state_change puts an event on the alarm bus.                             *)

Open(b) ==
  /\ state' = [state EXCEPT ![b] = "open"]
  /\ cooldown' = [cooldown EXCEPT ![b] = ResetTimeout]
  /\ alarms' = EmitEvent(alarms, "cb_opened")

\* Fault: closing leaves the alarm standing.
CloseSilently(b) ==
  /\ state' = [state EXCEPT ![b] = "closed"]
  /\ UNCHANGED <<cooldown, alarms>>

Close(b) ==
  /\ state' = [state EXCEPT ![b] = "closed"]
  /\ alarms' = EmitEvent(alarms, "cb_closed")
  /\ UNCHANGED cooldown

Unmoved == UNCHANGED <<state, cooldown, alarms>>

\* state._handle_error: count, then the current state's on_failure.
HandleError(b) ==
  LET failures == IF counter[b] < FailMax THEN counter[b] + 1 ELSE FailMax
  IN /\ counter' = [counter EXCEPT ![b] = failures]
     /\ IF \/ state[b] = "closed" /\ failures >= FailMax
           \/ state[b] = "half-open"
        THEN Open(b) ELSE Unmoved

\* state._handle_success: reset the count, then the current state's on_success.
HandleSuccess(b) ==
  /\ counter' = [counter EXCEPT ![b] = 0]
  /\ IF state[b] = "half-open" THEN Close(b) ELSE Unmoved

-----------------------------------------------------------------------------
(* AsyncCircuitBreaker.                                                    *)

\* Fault: the open state is not checked against the reset window.
StartEarly(c, b) ==
  /\ call[c] = Idle
  /\ IF state[b] = "open"
     THEN /\ state' = [state EXCEPT ![b] = "half-open"]
          /\ alarms' = EmitEvent(alarms, "cb_half_open")
     ELSE UNCHANGED <<state, alarms>>
  /\ call' = [call EXCEPT ![c] = [on |-> b, admitted |-> state'[b],
                                   sound |-> up]]
  /\ UNCHANGED <<counter, cooldown, up>>

\* call() up to the await.  An open breaker whose window has not passed raises
\* CircuitBreakerError and changes nothing; one whose window has passed turns
\* half-open; a half-open breaker lets every call through.
Start(c, b) ==
  /\ call[c] = Idle
  /\ ~(state[b] = "open" /\ cooldown[b] > 0)
  /\ IF state[b] = "open"
     THEN /\ state' = [state EXCEPT ![b] = "half-open"]
          /\ alarms' = EmitEvent(alarms, "cb_half_open")
     ELSE UNCHANGED <<state, alarms>>
  /\ call' = [call EXCEPT ![c] = [on |-> b, admitted |-> state'[b],
                                   sound |-> up]]
  /\ UNCHANGED <<counter, cooldown, up>>

\* Fault: a call that ends well is not reported to the breaker.
FinishUnreported(c, outcome) ==
  /\ call[c] # Idle
  /\ IsFailure(outcome) => ~up \/ ~call[c].sound
  /\ IF IsFailure(outcome) THEN HandleError(call[c].on)
     ELSE UNCHANGED <<state, counter, cooldown, alarms>>
  /\ call' = [call EXCEPT ![c] = Idle]
  /\ UNCHANGED up

\* call() after the await, on whatever state the breaker is in by then.  A
\* call fails if the remote side is, or was at the start, down.
Finish(c, outcome) ==
  /\ call[c] # Idle
  /\ IsFailure(outcome) => ~up \/ ~call[c].sound
  /\ IF IsFailure(outcome) THEN HandleError(call[c].on)
     ELSE HandleSuccess(call[c].on)
  /\ call' = [call EXCEPT ![c] = Idle]
  /\ UNCHANGED up

\* Fault: the operator's reset keeps the failure count.
ResetKeepsCount(b) ==
  /\ Close(b)
  /\ UNCHANGED <<counter, call, up>>

\* reset(): the operator's override.
Reset(b) ==
  /\ counter' = [counter EXCEPT ![b] = 0]
  /\ Close(b)
  /\ UNCHANGED <<call, up>>

Tick ==
  /\ \E b \in Breakers : cooldown[b] > 0
  /\ cooldown' = [b \in Breakers |->
                    IF cooldown[b] > 0 THEN cooldown[b] - 1 ELSE 0]
  /\ UNCHANGED <<state, counter, call, alarms, up>>

\* The SMO or RIC goes down or comes back.
RemoteFails == up /\ up' = FALSE /\ UNCHANGED <<state, counter, cooldown, call, alarms>>
RemoteRecovers == ~up /\ up' = TRUE /\ UNCHANGED <<state, counter, cooldown, call, alarms>>

-----------------------------------------------------------------------------

Init ==
  /\ state = [b \in Breakers |-> "closed"]
  /\ counter = [b \in Breakers |-> 0]
  /\ cooldown = [b \in Breakers |-> 0]
  /\ call = [c \in Calls |-> Idle]
  /\ alarms = Silent
  /\ up = TRUE

Next ==
  \/ \E c \in Calls, b \in Breakers : Start(c, b)
  \/ \E c \in Calls, outcome \in Outcomes : Finish(c, outcome)
  \/ \E b \in Breakers : Reset(b)
  \/ Tick
  \/ RemoteFails
  \/ RemoteRecovers

Spec == Init /\ [][Next]_vars

\* Time passes, every call comes to an end (httpx times out) and the daemon
\* keeps calling.  Nothing is assumed of the remote side or the operator.
Fairness ==
  /\ WF_vars(Tick)
  /\ \A c \in Calls : WF_vars(\E outcome \in Outcomes : Finish(c, outcome))
  /\ \A b \in Breakers : SF_vars(\E c \in Calls : Start(c, b))

FairSpec == Spec /\ Fairness

-----------------------------------------------------------------------------
(* Properties.                                                             *)

TypeOK ==
  /\ state \in [Breakers -> {"closed", "open", "half-open"}]
  /\ counter \in [Breakers -> 0..FailMax]
  /\ cooldown \in [Breakers -> 0..ResetTimeout]
  /\ call \in [Calls -> {Idle} \cup
                 [on : Breakers, admitted : {"closed", "half-open"},
                  sound : BOOLEAN]]
  /\ alarms \in [Causes -> {Cleared, "critical", "major", "minor", "warning"}]
  /\ up \in BOOLEAN

\* A breaker that lets traffic through normally is below its threshold, and one
\* that is not has been at it: late results never leave a closed breaker with
\* a full count, whatever state they were started in.
ClosedBelowThreshold ==
  \A b \in Breakers : state[b] = "closed" => counter[b] < FailMax

\* With one breaker the alarm on the bus tells its state: MAJOR while it is
\* open, WARNING while it probes, nothing once it is closed.
AlarmTellsState ==
  \A b \in Breakers :
    alarms["internalServiceFailure"] =
      CASE state[b] = "open" -> "major"
        [] state[b] = "half-open" -> "warning"
        [] state[b] = "closed" -> Cleared

\* "a cleared alarm correctly correlates to the prior active alarm": an open
\* breaker is on the active-alarm list.
OpenIsAlarmed ==
  \A b \in Breakers :
    state[b] = "open" => alarms["internalServiceFailure"] = "major"

\* An open breaker gives the remote side its whole reset window: it leaves the
\* open state after the window or by the operator's reset, and no call starts
\* on it before that.
WindowRespected ==
  [][\A b \in Breakers :
       state[b] = "open" /\ cooldown[b] > 0 =>
         /\ state'[b] = "open" \/ Reset(b)
         /\ \A c \in Calls : call[c] = Idle => call'[c].on # b]_vars

\* Once the remote side stays up the breaker closes for good, whatever late
\* results, rejected calls and half-open probes came before.
Recovers ==
  \A b \in Breakers : <>[]up => <>[](state[b] = "closed")
=============================================================================
