------------------------------ MODULE LoopState ------------------------------
(***************************************************************************)
(* The closed-loop state machine of TS 28.567 (runtime/loop_state.py).     *)
(* transition() holds a re-entrant lock from the check of the edge to the  *)
(* change of state and calls the sink in between.  The sink may raise, and *)
(* may call transition() itself: the calls of the thread that holds the    *)
(* lock nest.                                                              *)
(***************************************************************************)
EXTENDS Naturals, Sequences, SequencesExt

CONSTANTS LoopThreads,    \* threads that drive the loop
          MaxTransitions  \* calls of transition() that pass the edge check

ASSUME LoopAssumption == MaxTransitions \in Nat

LoopStates == {"Idle", "Retrain", "Validate", "Promote", "Monitor", "Rollback"}

\* _ALLOWED_EDGES.
AllowedEdges ==
  {<<"Idle", "Retrain">>, <<"Retrain", "Validate">>, <<"Validate", "Promote">>,
   <<"Validate", "Idle">>, <<"Promote", "Monitor">>, <<"Monitor", "Rollback">>,
   <<"Monitor", "Retrain">>, <<"Rollback", "Idle">>}

VARIABLES loopState,  \* _state
          loopPast,   \* _history, as edges
          sunk,       \* the edges the sink has recorded
          owner,      \* the thread that holds the lock, or NoThread
          frames,     \* its calls of transition(), outermost first
          calls,      \* calls so far
          reentered   \* a sink has called transition()

loopVars == <<loopState, loopPast, sunk, owner, frames, calls, reentered>>

NoThread == "nobody"

LoopInit ==
  /\ loopState = "Idle"
  /\ loopPast = <<>>
  /\ sunk = <<>>
  /\ owner = NoThread
  /\ frames = <<>>
  /\ calls = 0
  /\ reentered = FALSE

\* The lock is taken, the edge is allowed, the sink is called.  An edge that is
\* not allowed raises and changes nothing.
Transition(th, to) ==
  /\ owner \in {NoThread, th}
  /\ calls < MaxTransitions
  /\ <<loopState, to>> \in AllowedEdges
  /\ owner' = th
  /\ frames' = Append(frames, [edge |-> <<loopState, to>>, told |-> FALSE])
  /\ calls' = calls + 1
  /\ reentered' = (reentered \/ frames # <<>>)
  /\ UNCHANGED <<loopState, loopPast, sunk>>

\* The sink records the edge it was given.
SinkRecords ==
  /\ frames # <<>> /\ ~Last(frames).told
  /\ sunk' = Append(sunk, Last(frames).edge)
  /\ frames' = [frames EXCEPT ![Len(frames)].told = TRUE]
  /\ UNCHANGED <<loopState, loopPast, owner, calls, reentered>>

\* The innermost call ends; with the outermost one the lock is released.
Leave ==
  /\ frames' = Front(frames)
  /\ owner' = IF Len(frames) = 1 THEN NoThread ELSE owner
  /\ UNCHANGED <<calls, reentered, sunk>>

\* Fault: the history is written before the sink is heard.
RaiseRecorded ==
  /\ frames # <<>>
  /\ loopPast' = Append(loopPast, Last(frames).edge)
  /\ UNCHANGED loopState
  /\ Leave

\* The sink raises, before or after it has recorded the edge.
SinkRaises ==
  /\ frames # <<>>
  /\ UNCHANGED <<loopState, loopPast>>
  /\ Leave

\* The sink returns: history, then state.
SinkReturns ==
  /\ frames # <<>> /\ Last(frames).told
  /\ loopPast' = Append(loopPast, Last(frames).edge)
  /\ loopState' = Last(frames).edge[2]
  /\ Leave

LoopNext ==
  \/ \E th \in LoopThreads, to \in LoopStates : Transition(th, to)
  \/ SinkRecords \/ SinkRaises \/ SinkReturns

LoopSpec == LoopInit /\ [][LoopNext]_loopVars

\* Where the first i edges of the history lead.
Reached(i) == IF i = 0 THEN "Idle" ELSE loopPast[i][2]

\* replay(): the state the history leads to from IDLE, or "corrupt" if an edge
\* of it is not allowed.
Replay ==
  IF \A i \in 1..Len(loopPast) : <<Reached(i - 1), Reached(i)>> \in AllowedEdges
  THEN Reached(Len(loopPast)) ELSE "corrupt"

LoopTypeOK ==
  /\ loopState \in LoopStates
  /\ owner \in LoopThreads \cup {NoThread}
  /\ calls \in 0..MaxTransitions
  /\ reentered \in BOOLEAN

\* Whatever sinks raise and however threads compete, the state is the end of the
\* last edge of the history, each edge of it was given to the sink first, and,
\* unless a sink drives the loop itself, the history replays to the state.
HistoryTellsState ==
  /\ loopState = Reached(Len(loopPast))
  /\ ToSet(loopPast) \subseteq ToSet(sunk)
  /\ ~reentered => Replay = loopState
=============================================================================
