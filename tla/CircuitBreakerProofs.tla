------------------------ MODULE CircuitBreakerProofs -------------------------
(* Proofs about CircuitBreaker, for any number of breakers and calls, any  *)
(* threshold and any reset window.                                         *)
EXTENDS CircuitBreaker, TLAPS

Severities == {Cleared, "critical", "major", "minor", "warning"}

\* What the three breaker events do to the registry.
LEMMA BreakerEvents ==
  ASSUME NEW a \in [Causes -> Severities]
  PROVE  /\ "internalServiceFailure" \in Causes
         /\ EmitEvent(a, "cb_opened")
              = [a EXCEPT !["internalServiceFailure"] = "major"]
         /\ EmitEvent(a, "cb_half_open")
              = [a EXCEPT !["internalServiceFailure"] = "warning"]
         /\ EmitEvent(a, "cb_closed")
              = [a EXCEPT !["internalServiceFailure"] = Cleared]
<1>1. /\ FailureMap["cb_opened"]
           = [cause |-> "internalServiceFailure", severity |-> "major"]
      /\ FailureMap["cb_half_open"]
           = [cause |-> "internalServiceFailure", severity |-> "warning"]
      /\ FailureMap["cb_closed"]
           = [cause |-> "internalServiceFailure", severity |-> "cleared"]
      /\ "cb_opened" \in DOMAIN FailureMap
  BY DEF FailureMap
<1> QED BY <1>1 DEF EmitEvent, Causes, Severities, Cleared

-----------------------------------------------------------------------------
(* The two reports of a finished call.                                     *)

\* What a counted failure does: the variables keep their types, a breaker left
\* closed is below its threshold, and only the breaker at hand moves.
LEMMA HandleErrorFacts ==
  ASSUME TypeOK, NEW b \in Breakers, HandleError(b)
  PROVE  /\ state' \in [Breakers -> {"closed", "open", "half-open"}]
         /\ counter' \in [Breakers -> 0..FailMax]
         /\ cooldown' \in [Breakers -> 0..ResetTimeout]
         /\ alarms' \in [Causes -> Severities]
         /\ ClosedBelowThreshold => ClosedBelowThreshold'
         /\ ClosedBelowThreshold /\ state[b] = "closed" /\ state'[b] = "closed"
              => counter'[b] < FailMax
         /\ Breakers = {b} /\ AlarmTellsState => AlarmTellsState'
         /\ \A x \in Breakers : state[x] = "open" => state'[x] = "open"
<1> USE FailMaxAssumption, ResetTimeoutAssumption
<1> DEFINE failures == IF counter[b] < FailMax THEN counter[b] + 1 ELSE FailMax
<1>1. counter' = [counter EXCEPT ![b] = failures]
  BY DEF HandleError
<1>2. failures \in 0..FailMax /\ counter[b] \in 0..FailMax
  BY DEF TypeOK
<1>3. counter' \in [Breakers -> 0..FailMax]
  BY <1>1, <1>2 DEF TypeOK
<1> HIDE DEF failures
<1>4. CASE \/ state[b] = "closed" /\ failures >= FailMax
           \/ state[b] = "half-open"
  <2>1. Open(b)
    BY <1>4 DEF HandleError, failures
  <2>2. /\ state' = [state EXCEPT ![b] = "open"]
        /\ cooldown' = [cooldown EXCEPT ![b] = ResetTimeout]
        /\ alarms' = [alarms EXCEPT !["internalServiceFailure"] = "major"]
        /\ "internalServiceFailure" \in Causes
    BY <2>1, BreakerEvents DEF Open, TypeOK, Severities
  <2>3. /\ state' \in [Breakers -> {"closed", "open", "half-open"}]
        /\ cooldown' \in [Breakers -> 0..ResetTimeout]
        /\ alarms' \in [Causes -> Severities]
        /\ \A x \in Breakers : state[x] = "open" => state'[x] = "open"
    BY <2>2 DEF TypeOK, Severities
  <2>4. ClosedBelowThreshold => ClosedBelowThreshold'
    BY <1>1, <2>2 DEF ClosedBelowThreshold, TypeOK
  <2>5. Breakers = {b} => AlarmTellsState'
    BY <2>2 DEF AlarmTellsState, TypeOK
  <2> QED BY <1>3, <2>2, <2>3, <2>4, <2>5 DEF TypeOK
<1>5. CASE ~(\/ state[b] = "closed" /\ failures >= FailMax
             \/ state[b] = "half-open")
  <2>1. UNCHANGED <<state, cooldown, alarms>>
    BY <1>5 DEF HandleError, Unmoved, failures
  <2>2. /\ ClosedBelowThreshold => ClosedBelowThreshold'
        /\ state'[b] = "closed" => counter'[b] < FailMax
    BY <1>1, <1>2, <1>5, <2>1 DEF ClosedBelowThreshold, TypeOK
  <2>3. AlarmTellsState => AlarmTellsState'
    BY <2>1 DEF AlarmTellsState
  <2> QED BY <1>3, <2>1, <2>2, <2>3 DEF TypeOK, Severities
<1> QED BY <1>4, <1>5

\* Closing a breaker whose count is reset keeps the types and the invariant.
LEMMA CloseFacts ==
  ASSUME TypeOK, NEW b \in Breakers, Close(b), counter' = [counter EXCEPT ![b] = 0]
  PROVE  /\ state' \in [Breakers -> {"closed", "open", "half-open"}]
         /\ counter' \in [Breakers -> 0..FailMax]
         /\ cooldown' \in [Breakers -> 0..ResetTimeout]
         /\ alarms' \in [Causes -> Severities]
         /\ ClosedBelowThreshold => ClosedBelowThreshold'
         /\ Breakers = {b} => AlarmTellsState'
         /\ \A x \in Breakers \ {b} : state'[x] = state[x]
<1> USE FailMaxAssumption, ResetTimeoutAssumption
<1>1. /\ state' = [state EXCEPT ![b] = "closed"] /\ UNCHANGED cooldown
      /\ alarms' = [alarms EXCEPT !["internalServiceFailure"] = Cleared]
      /\ "internalServiceFailure" \in Causes
  BY BreakerEvents DEF Close, TypeOK, Severities
<1>2. ClosedBelowThreshold => ClosedBelowThreshold'
  BY <1>1 DEF ClosedBelowThreshold, TypeOK
<1>3. Breakers = {b} => AlarmTellsState'
  BY <1>1 DEF AlarmTellsState, TypeOK
<1>4. counter' \in [Breakers -> 0..FailMax]
  BY DEF TypeOK
<1> QED BY <1>1, <1>2, <1>3, <1>4 DEF TypeOK, Severities

\* What a result that counts as a success does.
LEMMA HandleSuccessFacts ==
  ASSUME TypeOK, NEW b \in Breakers, HandleSuccess(b)
  PROVE  /\ state' \in [Breakers -> {"closed", "open", "half-open"}]
         /\ counter' \in [Breakers -> 0..FailMax]
         /\ cooldown' \in [Breakers -> 0..ResetTimeout]
         /\ alarms' \in [Causes -> Severities]
         /\ ClosedBelowThreshold => ClosedBelowThreshold'
         /\ Breakers = {b} /\ AlarmTellsState => AlarmTellsState'
         /\ \A x \in Breakers : state[x] = "open" => state'[x] = "open"
<1> USE FailMaxAssumption, ResetTimeoutAssumption
<1>1. counter' = [counter EXCEPT ![b] = 0]
  BY DEF HandleSuccess
<1>2. CASE state[b] = "half-open"
  BY <1>1, <1>2, CloseFacts DEF HandleSuccess
<1>3. CASE state[b] # "half-open"
  <2>1. UNCHANGED <<state, cooldown, alarms>>
    BY <1>3 DEF HandleSuccess, Unmoved
  <2>2. ClosedBelowThreshold => ClosedBelowThreshold'
    BY <1>1, <2>1 DEF ClosedBelowThreshold, TypeOK
  <2> QED BY <1>1, <2>1, <2>2 DEF TypeOK, Severities, AlarmTellsState
<1> QED BY <1>2, <1>3

\* What the part of call() before the await does.
LEMMA StartFacts ==
  ASSUME TypeOK, NEW c \in Calls, NEW b \in Breakers, Start(c, b)
  PROVE  /\ TypeOK'
         /\ ClosedBelowThreshold => ClosedBelowThreshold'
         /\ Breakers = {b} /\ AlarmTellsState => AlarmTellsState'
         /\ \A x \in Breakers : cooldown[x] > 0 => state'[x] = state[x]
<1> DEFINE rec == [on |-> b, admitted |-> state'[b], sound |-> up]
<1>1. /\ call' = [call EXCEPT ![c] = rec] /\ UNCHANGED <<counter, cooldown, up>>
      /\ ~(state[b] = "open" /\ cooldown[b] > 0)
  BY DEF Start
<1>2. /\ state' \in [Breakers -> {"closed", "open", "half-open"}]
      /\ alarms' \in [Causes -> Severities]
      /\ state'[b] \in {"closed", "half-open"}
      /\ ClosedBelowThreshold => ClosedBelowThreshold'
      /\ Breakers = {b} /\ AlarmTellsState => AlarmTellsState'
      /\ \A x \in Breakers : cooldown[x] > 0 => state'[x] = state[x]
  <2>1. CASE state[b] = "open"
    <3>1. /\ state' = [state EXCEPT ![b] = "half-open"]
          /\ alarms' = [alarms EXCEPT !["internalServiceFailure"] = "warning"]
          /\ "internalServiceFailure" \in Causes
      BY <2>1, BreakerEvents DEF Start, TypeOK, Severities
    <3>2. ClosedBelowThreshold => ClosedBelowThreshold'
      BY <1>1, <3>1 DEF ClosedBelowThreshold, TypeOK
    <3>3. Breakers = {b} => AlarmTellsState'
      BY <3>1 DEF AlarmTellsState, TypeOK
    <3>4. \A x \in Breakers : cooldown[x] > 0 => state'[x] = state[x]
      BY <1>1, <2>1, <3>1 DEF TypeOK
    <3> QED BY <3>1, <3>2, <3>3, <3>4 DEF TypeOK, Severities
  <2>2. CASE state[b] # "open"
    <3>1. UNCHANGED <<state, alarms>>
      BY <2>2 DEF Start
    <3> QED BY <1>1, <2>2, <3>1 DEF TypeOK, Severities, ClosedBelowThreshold,
            AlarmTellsState
  <2> QED BY <2>1, <2>2
<1>3. rec \in [on : Breakers, admitted : {"closed", "half-open"}, sound : BOOLEAN]
  BY <1>2 DEF TypeOK
<1> HIDE DEF rec
<1>4. call' \in [Calls -> {Idle} \cup [on : Breakers,
                     admitted : {"closed", "half-open"}, sound : BOOLEAN]]
  BY <1>1, <1>3 DEF TypeOK
<1> QED BY <1>1, <1>2, <1>4 DEF TypeOK, Severities

\* What the part of call() after the await does, whatever the outcome.
LEMMA FinishFacts ==
  ASSUME TypeOK, NEW c \in Calls, NEW outcome \in Outcomes, Finish(c, outcome)
  PROVE  /\ TypeOK'
         /\ ClosedBelowThreshold => ClosedBelowThreshold'
         /\ (\E b : Breakers = {b}) /\ AlarmTellsState => AlarmTellsState'
         /\ \A x \in Breakers : state[x] = "open" => state'[x] = "open"
<1>1. /\ call[c] # Idle /\ call' = [call EXCEPT ![c] = Idle] /\ UNCHANGED up
      /\ call[c].on \in Breakers
  BY DEF Finish, TypeOK
<1>2. call' \in [Calls -> {Idle} \cup [on : Breakers,
                     admitted : {"closed", "half-open"}, sound : BOOLEAN]]
  BY <1>1 DEF TypeOK
<1>3. (\E b : Breakers = {b}) => Breakers = {call[c].on}
  BY <1>1
<1>4. CASE IsFailure(outcome)
  <2>1. HandleError(call[c].on)
    BY <1>4 DEF Finish
  <2> QED BY <1>1, <1>2, <1>3, <2>1, HandleErrorFacts DEF TypeOK, Severities
<1>5. CASE ~IsFailure(outcome)
  <2>1. HandleSuccess(call[c].on)
    BY <1>5 DEF Finish
  <2> QED BY <1>1, <1>2, <1>3, <2>1, HandleSuccessFacts DEF TypeOK, Severities
<1> QED BY <1>4, <1>5

-----------------------------------------------------------------------------

BreakerInv == TypeOK /\ ClosedBelowThreshold

\* The inductive invariant holds of fresh breakers.
LEMMA BreakerInvInit == Init => BreakerInv
<1> USE FailMaxAssumption, ResetTimeoutAssumption
<1> SUFFICES ASSUME Init PROVE BreakerInv
  OBVIOUS
<1>1. alarms \in [Causes -> Severities]
  BY DEF Init, Silent, Severities
<1> QED BY <1>1 DEF Init, BreakerInv, TypeOK, Severities, ClosedBelowThreshold

\* Every step of call(), reset() and the clock preserves it.
LEMMA BreakerInvNext == BreakerInv /\ [Next]_vars => BreakerInv'
<1> USE FailMaxAssumption, ResetTimeoutAssumption
<1> SUFFICES ASSUME BreakerInv, [Next]_vars PROVE BreakerInv'
  OBVIOUS
<1>0. TypeOK /\ ClosedBelowThreshold
  BY DEF BreakerInv
<1>1. ASSUME NEW c \in Calls, NEW b \in Breakers, Start(c, b) PROVE BreakerInv'
  BY <1>0, <1>1, StartFacts DEF BreakerInv
<1>2. ASSUME NEW c \in Calls, NEW outcome \in Outcomes, Finish(c, outcome)
      PROVE  BreakerInv'
  BY <1>0, <1>2, FinishFacts DEF BreakerInv
<1>3. ASSUME NEW b \in Breakers, Reset(b) PROVE BreakerInv'
  <2>1. Close(b) /\ counter' = [counter EXCEPT ![b] = 0] /\ UNCHANGED <<call, up>>
    BY <1>3 DEF Reset
  <2> QED BY <1>0, <2>1, CloseFacts DEF BreakerInv, TypeOK, Severities
<1>4. CASE Tick
  BY <1>0, <1>4 DEF Tick, BreakerInv, TypeOK, ClosedBelowThreshold
<1>5. CASE RemoteFails \/ RemoteRecovers \/ UNCHANGED vars
  BY <1>0, <1>5 DEF RemoteFails, RemoteRecovers, vars, BreakerInv, TypeOK,
     ClosedBelowThreshold
<1> QED BY <1>1, <1>2, <1>3, <1>4, <1>5 DEF Next

\* Every variable keeps its type, and a breaker that passes traffic normally is
\* below its failure threshold, in every interleaving of calls and late
\* results.
THEOREM BreakerSafe == Spec => []TypeOK /\ []ClosedBelowThreshold
<1>1. BreakerInv => TypeOK /\ ClosedBelowThreshold
  BY DEF BreakerInv
<1> QED BY <1>1, BreakerInvInit, BreakerInvNext, PTL DEF Spec

\* With a single breaker on the bus the active alarm always tells its state.
THEOREM LoneBreakerAlarm ==
  (\E b : Breakers = {b}) => (Spec => []AlarmTellsState)
<1> SUFFICES ASSUME \E b : Breakers = {b} PROVE Spec => []AlarmTellsState
  OBVIOUS
<1>1. Init => AlarmTellsState
  <2> SUFFICES ASSUME Init PROVE AlarmTellsState
    OBVIOUS
  <2>1. "internalServiceFailure" \in Causes /\ Silent \in [Causes -> Severities]
    <3>1. Silent \in [Causes -> Severities]
      BY DEF Silent, Severities
    <3> QED BY <3>1, BreakerEvents
  <2> QED BY <2>1 DEF Init, AlarmTellsState, Silent
<1>2. BreakerInv /\ AlarmTellsState /\ [Next]_vars => AlarmTellsState'
  <2> SUFFICES ASSUME BreakerInv, AlarmTellsState, [Next]_vars
               PROVE  AlarmTellsState'
    OBVIOUS
  <2>0. TypeOK
    BY DEF BreakerInv
  <2>1. ASSUME NEW c \in Calls, NEW b \in Breakers, Start(c, b)
        PROVE  AlarmTellsState'
    BY <2>0, <2>1, StartFacts
  <2>2. ASSUME NEW c \in Calls, NEW outcome \in Outcomes, Finish(c, outcome)
        PROVE  AlarmTellsState'
    BY <2>0, <2>2, FinishFacts
  <2>3. ASSUME NEW b \in Breakers, Reset(b) PROVE AlarmTellsState'
    BY <2>0, <2>3, CloseFacts DEF Reset
  <2>4. CASE Tick \/ RemoteFails \/ RemoteRecovers \/ UNCHANGED vars
    BY <2>4 DEF Tick, RemoteFails, RemoteRecovers, vars, AlarmTellsState
  <2> QED BY <2>1, <2>2, <2>3, <2>4 DEF Next
<1> QED BY <1>1, <1>2, BreakerInvInit, BreakerInvNext, PTL DEF Spec

\* During the whole reset window an open breaker stays open and no call starts
\* on it, unless the operator resets it.
THEOREM WindowAlwaysRespected == Spec => WindowRespected
<1> DEFINE A == \A b \in Breakers :
       state[b] = "open" /\ cooldown[b] > 0 =>
         /\ state'[b] = "open" \/ Reset(b)
         /\ \A c \in Calls : call[c] = Idle => call'[c].on # b
<1>1. ASSUME BreakerInv, Next PROVE A \/ UNCHANGED vars
  <2>0. TypeOK /\ Idle.on = "none"
    BY <1>1 DEF BreakerInv, Idle
  <2>1. ASSUME NEW d \in Calls, NEW x \in Breakers, Start(d, x) PROVE A
    <3> SUFFICES ASSUME NEW b \in Breakers, state[b] = "open", cooldown[b] > 0
                 PROVE  /\ state'[b] = "open"
                        /\ \A c \in Calls : call[c] = Idle => call'[c].on # b
      OBVIOUS
    <3>1. state'[b] = "open"
      BY <2>0, <2>1, StartFacts
    <3>2. x # b /\ call' = [call EXCEPT ![d] = [on |-> x, admitted |-> state'[x],
                                                sound |-> up]]
      BY <2>1 DEF Start
    <3>3. ASSUME NEW c \in Calls, call[c] = Idle PROVE call'[c].on # b
      <4>1. CASE c = d
        <5>1. call'[c].on = x
          BY <2>0, <3>2, <4>1 DEF TypeOK
        <5> QED BY <3>2, <5>1
      <4>2. CASE c # d
        <5>1. call'[c] = Idle
          BY <2>0, <3>2, <3>3, <4>2 DEF TypeOK
        <5> QED BY <2>0, <5>1, BreakersAssumption
      <4> QED BY <4>1, <4>2
    <3> QED BY <3>1, <3>3
  <2>2. ASSUME NEW d \in Calls, NEW outcome \in Outcomes, Finish(d, outcome)
        PROVE  A
    <3> SUFFICES ASSUME NEW b \in Breakers, state[b] = "open", cooldown[b] > 0
                 PROVE  /\ state'[b] = "open"
                        /\ \A c \in Calls : call[c] = Idle => call'[c].on # b
      OBVIOUS
    <3>1. state'[b] = "open"
      <4>1. call[d].on \in Breakers
        BY <2>0, <2>2 DEF TypeOK, Finish
      <4> DEFINE x == call[d].on
      <4>2. HandleError(x) \/ HandleSuccess(x)
        BY <2>2 DEF Finish
      <4>3. \/ state' = state
            \/ state' = [state EXCEPT ![x] = "open"]
            \/ state[x] = "half-open" /\ state' = [state EXCEPT ![x] = "closed"]
        BY <4>2 DEF HandleError, HandleSuccess, Open, Close, Unmoved
      <4> QED BY <2>0, <4>1, <4>3 DEF TypeOK
    <3>2. ASSUME NEW c \in Calls, call[c] = Idle PROVE call'[c].on # b
      <4>1. call'[c] = Idle
        BY <2>0, <2>2, <3>2 DEF TypeOK, Finish
      <4> QED BY <2>0, <4>1, BreakersAssumption
    <3> QED BY <3>1, <3>2
  <2>3. ASSUME UNCHANGED call, \A b \in Breakers : state'[b] = state[b] \/ Reset(b)
        PROVE  A
    <3> SUFFICES ASSUME NEW b \in Breakers, state[b] = "open"
                 PROVE  /\ state'[b] = "open" \/ Reset(b)
                        /\ \A c \in Calls : call[c] = Idle => call'[c].on # b
      OBVIOUS
    <3> QED BY <2>0, <2>3, BreakersAssumption
  <2>4. ASSUME NEW x \in Breakers, Reset(x) PROVE A
    <3>1. \A b \in Breakers : state'[b] = state[b] \/ Reset(b)
      BY <2>0, <2>4 DEF TypeOK, Reset, Close
    <3>2. UNCHANGED call
      BY <2>4 DEF Reset
    <3> QED BY <3>1, <3>2, <2>3
  <2>5. CASE Tick \/ RemoteFails \/ RemoteRecovers
    <3>1. UNCHANGED <<call, state>>
      BY <2>5 DEF Tick, RemoteFails, RemoteRecovers
    <3> QED BY <3>1, <2>3
  <2> QED BY <1>1, <2>1, <2>2, <2>4, <2>5 DEF Next
<1>2. BreakerInv /\ [Next]_vars => [A]_vars
  BY <1>1
<1> QED BY <1>2, BreakerInvInit, BreakerInvNext, PTL DEF Spec, WindowRespected
=============================================================================
