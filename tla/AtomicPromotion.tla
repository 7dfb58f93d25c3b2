-------------------------- MODULE AtomicPromotion ---------------------------
(***************************************************************************)
(* The model promoter (runtime/atomic_promotion.py).  Readers, which may be *)
(* threads, get() the active model and release() it by its SHA; promote()   *)
(* and rollback() swap the pointer and wait for the old slot to drain.      *)
(* Promoters are coroutines of one event loop, so between two of them a     *)
(* swap is atomic; release() takes no lock, so a reader sees the middle of  *)
(* one.                                                                     *)
(***************************************************************************)
EXTENDS Integers, Sequences, FiniteSets

CONSTANTS Readers,    \* readers
          Promoters,  \* calls of promote() and rollback() under way
          Shas,       \* the SHAs of models
          FirstSha,   \* the SHA of the initial model
          MaxSlots    \* bound: slots made

ASSUME ReaderAssumption == IsFiniteSet(Readers)
ASSUME PromoterAssumption == "none" \notin Promoters
ASSUME ShaAssumption == FirstSha \in Shas
ASSUME SlotsAssumption == MaxSlots \in Nat

VARIABLES slots,     \* every slot made: its SHA and its in_flight
          active,    \* _slot
          previous,  \* _previous, 0 for None
          draining,  \* _draining: the slots, which were added in their order
          swapping,  \* the promoter between the swap and the append, or "none"
          call,      \* what a promoter does, and the swap it has made
          reader,    \* what a reader does, and the slot it got
          events,    \* the events given to the sink
          reused     \* a swap installed a SHA that was still in use

vars == <<slots, active, previous, draining, swapping, call, reader, events, reused>>

SlotIds == 1..Len(slots)

\* A slot is held by a reader until the reader's release() has counted.
Holders(s) == {r \in Readers : reader[r].pc # "idle" /\ reader[r].slot = s}

InUse(sha) ==
  \E s \in SlotIds :
    /\ slots[s].sha = sha
    /\ s = active \/ s \in draining \/ Holders(s) # {}

-----------------------------------------------------------------------------
(* Readers.                                                                *)

\* Fault: the reader takes the model without being counted.
GetUncounted(r) ==
  /\ reader[r].pc = "idle"
  /\ swapping = "none"
  /\ reader' = [reader EXCEPT ![r] = [pc |-> "using", slot |-> active, seen |-> 0]]
  /\ UNCHANGED <<slots, active, previous, draining, swapping, call, events, reused>>

\* get(), under the lock that a swap holds.
Get(r) ==
  /\ reader[r].pc = "idle"
  /\ swapping = "none"
  /\ slots' = [slots EXCEPT ![active].inFlight = @ + 1]
  /\ reader' = [reader EXCEPT ![r] = [pc |-> "using", slot |-> active, seen |-> 0]]
  /\ UNCHANGED <<active, previous, draining, swapping, call, events, reused>>

\* release() reads the pointer, then the draining list, without the lock.
ReadActive(r) ==
  /\ reader[r].pc = "using"
  /\ reader' = [reader EXCEPT ![r].pc = "search", ![r].seen = active]
  /\ UNCHANGED <<slots, active, previous, draining, swapping, call, events, reused>>

\* The first slot with the SHA: the active one, then the draining ones in the
\* order of their swaps; 0 for none.
Candidate(r) ==
  LET sha == slots[reader[r].slot].sha
      hits == {s \in draining : slots[s].sha = sha}
  IN CASE slots[reader[r].seen].sha = sha -> reader[r].seen
       [] slots[reader[r].seen].sha # sha /\ hits = {} -> 0
       [] OTHER -> CHOOSE s \in hits : \A t \in hits : s <= t

Search(r) ==
  /\ reader[r].pc = "search"
  /\ reader' = [reader EXCEPT ![r].pc = "count", ![r].seen = Candidate(r)]
  /\ UNCHANGED <<slots, active, previous, draining, swapping, call, events, reused>>

\* The slot that was found counts one reader less; none found, none counted.
Release(r) ==
  /\ reader[r].pc = "count"
  /\ slots' = IF reader[r].seen = 0 THEN slots
              ELSE [slots EXCEPT ![reader[r].seen].inFlight = @ - 1]
  /\ reader' = [reader EXCEPT ![r].pc = "idle"]
  /\ UNCHANGED <<active, previous, draining, swapping, call, events, reused>>

-----------------------------------------------------------------------------
(* Promotion and rollback.                                                 *)

\* _swap() up to the new pointer, with the lock taken.
SwapPointer(p, sha) ==
  /\ call[p].pc = "idle"
  /\ swapping = "none"
  /\ Len(slots) < MaxSlots
  /\ slots' = Append(slots, [sha |-> sha, inFlight |-> 0])
  /\ active' = Len(slots) + 1
  /\ swapping' = p
  /\ call' = [call EXCEPT ![p] = [pc |-> "swap", old |-> active, new |-> Len(slots) + 1]]
  /\ reused' = (reused \/ InUse(sha))
  /\ UNCHANGED <<previous, draining, reader, events>>

\* promote(); the wait for the slot boundary only delays it.
Promote(p, sha) == SwapPointer(p, sha)

\* rollback() raises when there is no previous model.
Rollback(p) == previous # 0 /\ SwapPointer(p, slots[previous].sha)

\* The rest of the block: the lock is released with the old slot draining.
SwapEnd(p) ==
  /\ call[p].pc = "swap"
  /\ draining' = draining \cup {call[p].old}
  /\ previous' = call[p].old
  /\ swapping' = "none"
  /\ call' = [call EXCEPT ![p].pc = "drain"]
  /\ UNCHANGED <<slots, active, reader, events, reused>>

\* Fault: the event names the model that is active when the drain ends.
DrainEndLateTo(p) ==
  /\ swapping = "none"
  /\ draining' = draining \ {call[p].old}
  /\ events' = events \cup {[number |-> call[p].new - 1,
                             from |-> slots[call[p].old].sha,
                             to |-> slots[active].sha]}
  /\ call' = [call EXCEPT ![p].pc = "idle"]
  /\ UNCHANGED <<slots, active, previous, swapping, reader, reused>>

\* The drained slot leaves the list and the event goes to the sink.
DrainEnd(p) ==
  /\ swapping = "none"
  /\ draining' = draining \ {call[p].old}
  /\ events' = events \cup {[number |-> call[p].new - 1,
                             from |-> slots[call[p].old].sha,
                             to |-> slots[call[p].new].sha]}
  /\ call' = [call EXCEPT ![p].pc = "idle"]
  /\ UNCHANGED <<slots, active, previous, swapping, reader, reused>>

\* Fault: the promoter's own reader is taken for the last one.
DrainedButOne(p) ==
  /\ call[p].pc = "drain"
  /\ slots[call[p].old].inFlight <= 1
  /\ DrainEnd(p)

Drained(p) ==
  /\ call[p].pc = "drain"
  /\ slots[call[p].old].inFlight <= 0
  /\ DrainEnd(p)

\* Fault: the deadline counts only once the readers are gone.
DrainTimesOutUnused(p) ==
  /\ call[p].pc = "drain"
  /\ slots[call[p].old].inFlight <= 0
  /\ DrainEnd(p)

\* The deadline passes with readers in flight.
DrainTimesOut(p) ==
  /\ call[p].pc = "drain"
  /\ slots[call[p].old].inFlight > 0
  /\ DrainEnd(p)

-----------------------------------------------------------------------------

Init ==
  /\ slots = <<[sha |-> FirstSha, inFlight |-> 0]>>
  /\ active = 1
  /\ previous = 0
  /\ draining = {}
  /\ swapping = "none"
  /\ call = [p \in Promoters |-> [pc |-> "idle", old |-> 0, new |-> 0]]
  /\ reader = [r \in Readers |-> [pc |-> "idle", slot |-> 0, seen |-> 0]]
  /\ events = {}
  /\ reused = FALSE

ReaderStep(r) == Get(r) \/ ReadActive(r) \/ Search(r) \/ Release(r)

PromoterStep(p) ==
  \/ \E sha \in Shas : Promote(p, sha)
  \/ Rollback(p)
  \/ SwapEnd(p)
  \/ Drained(p)
  \/ DrainTimesOut(p)

Next == (\E r \in Readers : ReaderStep(r)) \/ (\E p \in Promoters : PromoterStep(p))

Spec == Init /\ [][Next]_vars

\* The event loop runs a coroutine that can go on; readers may hold a model for
\* ever.
Fairness ==
  \A p \in Promoters :
    WF_vars(SwapEnd(p)) /\ SF_vars(Drained(p) \/ DrainTimesOut(p))

FairSpec == Spec /\ Fairness

-----------------------------------------------------------------------------
(* Properties.                                                             *)

\* The types, with which references are set, who holds the lock and what
\* _draining lists.
TypeOK ==
  /\ slots \in Seq([sha : Shas, inFlight : Int])
  /\ active \in SlotIds
  /\ previous \in 0..Len(slots)
  /\ draining \subseteq SlotIds
  /\ swapping \in Promoters \cup {"none"}
  /\ call \in [Promoters -> [pc : {"idle", "swap", "drain"},
                             old : 0..Len(slots), new : 0..Len(slots)]]
  /\ reader \in [Readers -> [pc : {"idle", "using", "search", "count"},
                             slot : 0..Len(slots), seen : 0..Len(slots)]]
  /\ events \subseteq [number : Nat, from : Shas, to : Shas]
  /\ reused \in BOOLEAN
  /\ \A r \in Readers : reader[r].pc # "idle" => reader[r].slot # 0
  /\ \A r \in Readers : reader[r].pc = "search" => reader[r].seen # 0
  /\ \A p \in Promoters : call[p].pc # "idle" => call[p].old # 0 /\ call[p].new # 0
  /\ \A p \in Promoters : call[p].pc = "swap" <=> swapping = p
  /\ draining = {call[p].old : p \in {q \in Promoters : call[q].pc = "drain"}}

\* As long as no swap installs a SHA that is still in use, a slot counts at
\* least the readers that hold it: a swap between a reader's two reads in
\* release() may lose a count, and never takes one that is not its own.
CountsReaders ==
  ~reused => \A s \in SlotIds : slots[s].inFlight >= Cardinality(Holders(s))

\* What CountsReaders rests on: while no SHA in use is installed again the slots
\* in use have SHAs of their own, so release() finds the reader's slot or none.
Live ==
  {active} \cup draining \cup {call[p].old : p \in {q \in Promoters : swapping = q}}
    \cup {s \in SlotIds : Holders(s) # {}}

OwnSlot ==
  /\ \A s, t \in Live : s # t => slots[s].sha # slots[t].sha
  /\ \A r \in Readers :
       /\ reader[r].pc = "search" =>
            \/ reader[r].seen = reader[r].slot
            \/ slots[reader[r].seen].sha # slots[reader[r].slot].sha
       /\ reader[r].pc = "count" => reader[r].seen \in {0, reader[r].slot}

ReleaseInv == ~reused => OwnSlot

\* A drain that ends before its deadline leaves no reader behind, as long as no
\* swap installs a SHA that is still in use.
DrainWaits ==
  [][\A p \in Promoters : ~reused /\ Drained(p) => Holders(call[p].old) = {}]_vars

\* "so any in-flight decision finishes against the old model before its bytes
\* are released": a drain that ends before its deadline leaves no reader behind.
DrainedMeansUnused ==
  [][\A p \in Promoters : Drained(p) => Holders(call[p].old) = {}]_vars

\* The audited events fit together whatever order the drains end in: the event
\* of a swap leaves the model that the event of the swap before installed.
EventsConnect ==
  \A e, f \in events : f.number = e.number + 1 => f.from = e.to

\* What EventsConnect rests on: the k-th swap leaves slot k for slot k + 1.
EventsInv ==
  /\ active = Len(slots)
  /\ \A p \in Promoters : call[p].pc # "idle" => call[p].new = call[p].old + 1
  /\ \A p, q \in Promoters :
       p # q /\ call[p].pc # "idle" /\ call[q].pc # "idle" => call[p].old # call[q].old
  /\ \A e \in events :
       /\ e.number \in SlotIds /\ e.number + 1 \in SlotIds
       /\ e.from = slots[e.number].sha /\ e.to = slots[e.number + 1].sha

\* A promotion ends whether or not its readers do.
SwapReturns == \A p \in Promoters : call[p].pc = "swap" ~> call[p].pc = "idle"
=============================================================================
