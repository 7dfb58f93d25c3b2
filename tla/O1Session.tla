------------------------------ MODULE O1Session ------------------------------
(***************************************************************************)
(* The O1 adapter's NETCONF session (rapp/o1_adapter.py).  connect() and   *)
(* close() hold an asyncio lock while a worker thread talks to the device; *)
(* the other operations check is_connected, and look up the session again  *)
(* in their worker thread, without the lock.  A task may be cancelled      *)
(* while its thread goes on.  ncclient closes the transport of a session   *)
(* whatever becomes of its <close-session>.                                *)
(***************************************************************************)
EXTENDS Naturals, FiniteSets

CONSTANTS O1Tasks,      \* coroutines that share the adapter
          MaxSessions,  \* sessions ever opened
          PollLimit     \* polls before timeout_seconds is over

ASSUME O1Assumption == {MaxSessions, PollLimit} \subseteq Nat

VARIABLES mgr,        \* _mgr: a session, or None
          openOn,     \* the sessions the device has open
          o1Lock,     \* the task that holds _lock, as a set
          o1Task,     \* o1Task[k]: what k does
          inSession,  \* tasks inside "async with session()"
          polls,      \* polls of an iter_notifications
          orphans,    \* sessions opened for a task that was cancelled
          opened,     \* sessions opened so far
          lastRun     \* the session an operation ran on last

o1Vars == <<mgr, openOn, o1Lock, o1Task, inSession, polls, orphans, opened, lastRun>>

None == 0

O1Init ==
  /\ mgr = None
  /\ openOn = {} /\ o1Lock = {} /\ inSession = {} /\ orphans = {}
  /\ o1Task = [k \in O1Tasks |-> "idle"]
  /\ polls = [k \in O1Tasks |-> 0]
  /\ opened = 0
  /\ lastRun = None

IsConnected == mgr # None /\ mgr \in openOn

\* connect(), on its own or on entry of session().
CallConnect(k) ==
  /\ o1Task[k] = "idle"
  /\ o1Task' = [o1Task EXCEPT ![k] = "connect?"]
  /\ inSession' \in {inSession, inSession \cup {k}}
  /\ UNCHANGED <<mgr, openOn, o1Lock, polls, orphans, opened, lastRun>>

\* Fault: the session is not looked at again under the lock.
TakeForConnectBlindly(k) ==
  /\ o1Task[k] = "connect?" /\ o1Lock = {}
  /\ o1Task' = [o1Task EXCEPT ![k] = "connecting"]
  /\ o1Lock' = {k}
  /\ UNCHANGED <<mgr, openOn, inSession, polls, orphans, opened, lastRun>>

\* The lock is taken: an open session is kept.
TakeForConnect(k) ==
  /\ o1Task[k] = "connect?" /\ o1Lock = {}
  /\ IF IsConnected
     THEN o1Task' = [o1Task EXCEPT ![k] = "idle"] /\ UNCHANGED o1Lock
     ELSE o1Task' = [o1Task EXCEPT ![k] = "connecting"] /\ o1Lock' = {k}
  /\ UNCHANGED <<mgr, openOn, inSession, polls, orphans, opened, lastRun>>

\* The thread has opened a session, or TransportError.
Connected(k) ==
  /\ o1Task[k] = "connecting"
  /\ o1Task' = [o1Task EXCEPT ![k] = "idle"]
  /\ o1Lock' = {}
  /\ \/ /\ opened < MaxSessions
        /\ opened' = opened + 1
        /\ mgr' = opened'
        /\ openOn' = openOn \cup {opened'}
        /\ UNCHANGED inSession
     \/ /\ inSession' = inSession \ {k}
        /\ UNCHANGED <<mgr, openOn, opened>>
  /\ UNCHANGED <<polls, orphans, lastRun>>

\* The task is cancelled while its thread connects; the thread goes on.
CancelConnect(k) ==
  /\ o1Task[k] = "connecting"
  /\ o1Task' = [o1Task EXCEPT ![k] = "idle"]
  /\ o1Lock' = {}
  /\ inSession' = inSession \ {k}
  /\ \/ /\ opened < MaxSessions
        /\ opened' = opened + 1
        /\ openOn' = openOn \cup {opened'}
        /\ orphans' = orphans \cup {opened'}
     \/ UNCHANGED <<opened, openOn, orphans>>
  /\ UNCHANGED <<mgr, polls, lastRun>>

\* close(), on its own or on exit of session().
CallClose(k) ==
  /\ o1Task[k] = "idle"
  /\ o1Task' = [o1Task EXCEPT ![k] = "close?"]
  /\ inSession' = inSession \ {k}
  /\ UNCHANGED <<mgr, openOn, o1Lock, polls, orphans, opened, lastRun>>

TakeForClose(k) ==
  /\ o1Task[k] = "close?" /\ o1Lock = {}
  /\ IF mgr = None
     THEN o1Task' = [o1Task EXCEPT ![k] = "idle"] /\ UNCHANGED o1Lock
     ELSE o1Task' = [o1Task EXCEPT ![k] = "closing"] /\ o1Lock' = {k}
  /\ UNCHANGED <<mgr, openOn, inSession, polls, orphans, opened, lastRun>>

\* close_session returns or raises, or the task is cancelled: _mgr is None.
Closed(k) ==
  /\ o1Task[k] = "closing"
  /\ o1Task' = [o1Task EXCEPT ![k] = "idle"]
  /\ o1Lock' = {}
  /\ openOn' = openOn \ {mgr}
  /\ mgr' = None
  /\ UNCHANGED <<inSession, polls, orphans, opened, lastRun>>

\* An operation is called on a connected adapter: get_config (through the circuit
\* breaker), edit_config, lock, unlock, discard_changes, commit or
\* create_subscription.
CallOperation(k) ==
  /\ o1Task[k] = "idle" /\ IsConnected
  /\ o1Task' = [o1Task EXCEPT ![k] = "operation"]
  /\ UNCHANGED <<mgr, openOn, o1Lock, inSession, polls, orphans, opened, lastRun>>

\* Its thread looks _mgr up: it runs on the session of now, or raises.
Operate(k) ==
  /\ o1Task[k] = "operation"
  /\ o1Task' = [o1Task EXCEPT ![k] = "idle"]
  /\ lastRun' = IF IsConnected THEN mgr ELSE None
  /\ UNCHANGED <<mgr, openOn, o1Lock, inSession, polls, orphans, opened>>

\* iter_notifications: poll until the deadline; a closed session raises.
CallNotifications(k) ==
  /\ o1Task[k] = "idle" /\ IsConnected
  /\ o1Task' = [o1Task EXCEPT ![k] = "polling"]
  /\ polls' = [polls EXCEPT ![k] = 0]
  /\ UNCHANGED <<mgr, openOn, o1Lock, inSession, orphans, opened, lastRun>>

PollNotification(k) ==
  /\ o1Task[k] = "polling"
  /\ IF polls[k] < PollLimit /\ IsConnected
     THEN polls' = [polls EXCEPT ![k] = @ + 1] /\ UNCHANGED o1Task
     ELSE o1Task' = [o1Task EXCEPT ![k] = "idle"] /\ UNCHANGED polls
  /\ UNCHANGED <<mgr, openOn, o1Lock, inSession, orphans, opened, lastRun>>

\* The device or the network drops a session.
Dropped(s) ==
  /\ s \in openOn
  /\ openOn' = openOn \ {s}
  /\ UNCHANGED <<mgr, o1Lock, o1Task, inSession, polls, orphans, opened, lastRun>>

O1Next ==
  \/ \E k \in O1Tasks :
       \/ CallConnect(k) \/ TakeForConnect(k) \/ Connected(k) \/ CancelConnect(k)
       \/ CallClose(k) \/ TakeForClose(k) \/ Closed(k)
       \/ CallOperation(k) \/ Operate(k)
       \/ CallNotifications(k) \/ PollNotification(k)
  \/ \E s \in openOn : Dropped(s)

O1Spec == O1Init /\ [][O1Next]_o1Vars

O1TypeOK ==
  /\ mgr \in 0..MaxSessions
  /\ openOn \subseteq 1..MaxSessions /\ orphans \subseteq 1..MaxSessions
  /\ o1Lock \subseteq O1Tasks /\ Cardinality(o1Lock) <= 1
  /\ o1Task \in [O1Tasks -> {"idle", "connect?", "connecting", "close?", "closing",
                             "operation", "polling"}]
  /\ lastRun \in 0..MaxSessions

\* The device never holds a session the adapter has lost track of: whoever
\* connects, closes, reconnects after a drop or fails, every open session is the
\* one in _mgr, so that the next close() ends it, except those opened for a task
\* that was cancelled while connecting.  And no operation is sent on such an
\* orphan.
SessionsAccounted ==
  /\ openOn \ orphans \subseteq {mgr}
  /\ lastRun \notin orphans
=============================================================================
