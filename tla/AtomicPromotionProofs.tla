------------------------ MODULE AtomicPromotionProofs ------------------------
(* Proofs about AtomicPromotion, for any readers, promoters, SHAs and      *)
(* number of swaps.                                                        *)
EXTENDS AtomicPromotion, TLAPS, SequenceTheorems, FiniteSetTheorems,
        WellFoundedInduction

SlotRecords == [sha : Shas, inFlight : Int]
Calls == [pc : {"idle", "swap", "drain"}, old : 0..Len(slots), new : 0..Len(slots)]
ReaderStates == [pc : {"idle", "using", "search", "count"},
                 slot : 0..Len(slots), seen : 0..Len(slots)]

-----------------------------------------------------------------------------
(* Helpers.                                                                *)

\* Counting a reader in or out changes one slot's count and no SHA.
LEMMA CountFacts ==
  ASSUME slots \in Seq(SlotRecords), NEW s \in 1..Len(slots), NEW n \in Int,
         slots' = [slots EXCEPT ![s].inFlight = n]
  PROVE  /\ slots' \in Seq(SlotRecords) /\ Len(slots') = Len(slots)
         /\ \A t \in 1..Len(slots) :
              /\ slots'[t].sha = slots[t].sha
              /\ slots'[t].inFlight = IF t = s THEN n ELSE slots[t].inFlight
<1> DEFINE d == [slots[s] EXCEPT !.inFlight = n]
<1>1. slots[s] \in SlotRecords
  BY ElementOfSeq
<1>2. d \in SlotRecords /\ d.sha = slots[s].sha /\ d.inFlight = n
  BY <1>1 DEF SlotRecords
<1>3. slots' = [slots EXCEPT ![s] = d]
  OBVIOUS
<1> HIDE DEF d
<1>4. /\ slots' \in Seq(SlotRecords) /\ Len(slots') = Len(slots)
      /\ \A t \in 1..Len(slots) : slots'[t] = IF t = s THEN d ELSE slots[t]
  BY <1>2, <1>3, ExceptSeq
<1> QED BY <1>2, <1>4

\* A swap adds a slot that counts nobody and leaves the others alone.
LEMMA SwapFacts ==
  ASSUME TypeOK, NEW p \in Promoters, NEW sha \in Shas, SwapPointer(p, sha)
  PROVE  /\ slots' \in Seq(SlotRecords) /\ Len(slots') = Len(slots) + 1
         /\ slots'[Len(slots) + 1].sha = sha
         /\ slots'[Len(slots) + 1].inFlight = 0
         /\ \A t \in SlotIds : slots'[t] = slots[t]
<1> DEFINE d == [sha |-> sha, inFlight |-> 0]
<1>1. d \in SlotRecords /\ d.sha = sha /\ d.inFlight = 0
  BY DEF SlotRecords
<1>2. slots' = Append(slots, d) /\ slots \in Seq(SlotRecords)
  BY DEF SwapPointer, TypeOK, SlotRecords
<1> HIDE DEF d
<1>3. /\ slots' \in Seq(SlotRecords) /\ Len(slots') = Len(slots) + 1
      /\ slots'[Len(slots) + 1] = d
      /\ \A t \in 1..Len(slots) : slots'[t] = slots[t]
  BY <1>1, <1>2, AppendProperties
<1> QED BY <1>1, <1>3 DEF SlotIds

\* What the types give where a step needs them.
LEMMA TypeFacts ==
  ASSUME TypeOK
  PROVE  /\ Len(slots) \in Nat /\ slots \in Seq(SlotRecords)
         /\ \A s \in SlotIds : slots[s] \in SlotRecords
         /\ active \in SlotIds /\ draining \subseteq SlotIds
         /\ call \in [Promoters -> Calls] /\ reader \in [Readers -> ReaderStates]
         /\ \A r \in Readers : reader[r].pc # "idle" => reader[r].slot \in SlotIds
         /\ \A r \in Readers : reader[r].pc = "search" => reader[r].seen \in SlotIds
         /\ \A p \in Promoters :
              call[p].pc # "idle" => call[p].old \in SlotIds /\ call[p].new \in SlotIds
<1>1. /\ slots \in Seq(SlotRecords) /\ Len(slots) \in Nat
      /\ call \in [Promoters -> Calls] /\ reader \in [Readers -> ReaderStates]
  BY LenProperties DEF TypeOK, SlotRecords, Calls, ReaderStates
<1>2. \A s \in SlotIds : slots[s] \in SlotRecords
  BY <1>1, ElementOfSeq DEF SlotIds
<1>3. \A r \in Readers : reader[r] \in ReaderStates
  BY <1>1
<1>4. \A p \in Promoters : call[p] \in Calls
  BY <1>1
<1>5. \A r \in Readers : reader[r].pc # "idle" => reader[r].slot \in SlotIds
  BY <1>1, <1>3 DEF ReaderStates, SlotIds, TypeOK
<1>6. \A r \in Readers : reader[r].pc = "search" => reader[r].seen \in SlotIds
  BY <1>1, <1>3 DEF ReaderStates, SlotIds, TypeOK
<1>7. \A p \in Promoters :
        call[p].pc # "idle" => call[p].old \in SlotIds /\ call[p].new \in SlotIds
  BY <1>1, <1>4 DEF Calls, SlotIds, TypeOK
<1> QED BY <1>1, <1>2, <1>5, <1>6, <1>7 DEF TypeOK

\* A non-empty set of slots has a first one.
LEMMA FirstOf ==
  ASSUME NEW S \in SUBSET Nat, S # {}
  PROVE  \E i \in S : \A j \in S : i <= j
<1>1. PICK i \in S : \A j \in S : ~ (<<j, i>> \in OpToRel(<, Nat))
  BY WFMin, NatLessThanWellFounded
<1>2. \A j \in S : i <= j
  <2> TAKE j \in S
  <2>1. ~ (j < i)
    BY <1>1 DEF OpToRel
  <2> QED BY <2>1
<1> QED BY <1>2

\* release() finds a slot or none.
LEMMA CandidateType ==
  ASSUME TypeOK, NEW r \in Readers, reader[r].pc = "search"
  PROVE  /\ Candidate(r) \in 0..Len(slots)
         /\ Candidate(r) # 0 =>
              /\ Candidate(r) \in draining \cup {reader[r].seen}
              /\ slots[Candidate(r)].sha = slots[reader[r].slot].sha
<1> DEFINE sha == slots[reader[r].slot].sha
           hits == {s \in draining : slots[s].sha = sha}
<1>1. reader[r].seen \in SlotIds /\ draining \subseteq SlotIds /\ Len(slots) \in Nat
  BY TypeFacts
<1>2. CASE slots[reader[r].seen].sha = sha
  BY <1>1, <1>2 DEF Candidate, SlotIds
<1>3. CASE slots[reader[r].seen].sha # sha /\ hits = {}
  BY <1>1, <1>3 DEF Candidate, SlotIds
<1>4. CASE slots[reader[r].seen].sha # sha /\ hits # {}
  <2>1. hits \in SUBSET Nat
    <3>1. SlotIds \subseteq Nat
      BY <1>1 DEF SlotIds
    <3> QED BY <1>1, <3>1
  <2>2. \E s \in hits : \A t \in hits : s <= t
    <3> HIDE DEF hits
    <3> QED BY <1>1, <1>4, <2>1, FirstOf
  <2>3. Candidate(r) = CHOOSE s \in hits : \A t \in hits : s <= t
    BY <1>4 DEF Candidate
  <2>4. Candidate(r) \in hits
    BY <2>2, <2>3
  <2>5. Candidate(r) \in draining /\ slots[Candidate(r)].sha = sha
    BY <2>4
  <2>6. Candidate(r) \in SlotIds
    BY <1>1, <2>5
  <2>7. Candidate(r) \in 0..Len(slots)
    BY <1>1, <2>6 DEF SlotIds
  <2> QED BY <2>5, <2>7
<1> QED BY <1>2, <1>3, <1>4

-----------------------------------------------------------------------------
(* Types.                                                                  *)

\* Every step keeps the types.
LEMMA TypeNext == TypeOK /\ EventsInv /\ [Next]_vars => TypeOK'
<1> SUFFICES ASSUME TypeOK, EventsInv, [Next]_vars PROVE TypeOK'
  OBVIOUS
<1>0. /\ Len(slots) \in Nat /\ slots \in Seq(SlotRecords)
      /\ \A s \in SlotIds : slots[s] \in SlotRecords
      /\ active \in SlotIds /\ draining \subseteq SlotIds
      /\ call \in [Promoters -> Calls] /\ reader \in [Readers -> ReaderStates]
      /\ \A r \in Readers : reader[r].pc # "idle" => reader[r].slot \in SlotIds
      /\ \A r \in Readers : reader[r].pc = "search" => reader[r].seen \in SlotIds
      /\ \A p \in Promoters :
           call[p].pc # "idle" => call[p].old \in SlotIds /\ call[p].new \in SlotIds
  BY TypeFacts
\* The steps of readers.
<1> DEFINE Unmoved == UNCHANGED <<active, previous, draining, swapping, call, events, reused>>
<1>1. ASSUME NEW r \in Readers, NEW st \in ReaderStates,
             slots' \in Seq(SlotRecords), Len(slots') = Len(slots), Unmoved,
             reader' = [reader EXCEPT ![r] = st],
             st.pc # "idle" => st.slot # 0, st.pc = "search" => st.seen # 0
      PROVE  TypeOK'
  <2>1. /\ reader' \in [Readers -> ReaderStates]
        /\ \A q \in Readers : reader'[q] = IF q = r THEN st ELSE reader[q]
    BY <1>0, <1>1
  <2>2. /\ \A q \in Readers : reader'[q].pc # "idle" => reader'[q].slot # 0
        /\ \A q \in Readers : reader'[q].pc = "search" => reader'[q].seen # 0
    BY <1>1, <2>1 DEF TypeOK
  <2>3. /\ draining' = {call'[q].old : q \in {x \in Promoters : call'[x].pc = "drain"}}
        /\ \A q \in Promoters : call'[q].pc # "idle" => call'[q].old # 0 /\ call'[q].new # 0
        /\ \A q \in Promoters : call'[q].pc = "swap" <=> swapping' = q
        /\ call' \in [Promoters -> Calls]
    BY <1>0, <1>1 DEF TypeOK
  <2>4. SlotIds' = SlotIds
    BY <1>1 DEF SlotIds
  <2> QED BY <1>1, <2>1, <2>2, <2>3, <2>4 DEF TypeOK, SlotRecords, ReaderStates, Calls
<1>2. ASSUME NEW r \in Readers, Get(r) PROVE TypeOK'
  <2> DEFINE st == [pc |-> "using", slot |-> active, seen |-> 0]
  <2>1. st \in ReaderStates /\ st.pc = "using" /\ st.slot # 0
    BY <1>0 DEF ReaderStates, SlotIds
  <2>2. slots' = [slots EXCEPT ![active].inFlight = slots[active].inFlight + 1]
    BY <1>2 DEF Get
  <2>3. slots[active].inFlight + 1 \in Int
    BY <1>0 DEF SlotRecords
  <2>4. slots' \in Seq(SlotRecords) /\ Len(slots') = Len(slots)
    BY <1>0, <2>2, <2>3, CountFacts DEF SlotIds
  <2>5. reader' = [reader EXCEPT ![r] = st] /\ Unmoved
    BY <1>2 DEF Get
  <2> HIDE DEF st
  <2> QED BY <1>1, <2>1, <2>4, <2>5
<1>3. ASSUME NEW r \in Readers, ReadActive(r) PROVE TypeOK'
  <2> DEFINE st == [reader[r] EXCEPT !.pc = "search", !.seen = active]
  <2>1. st \in ReaderStates /\ st.pc = "search" /\ st.seen = active
        /\ st.slot = reader[r].slot
    <3>1. active \in 0..Len(slots) /\ reader[r] \in ReaderStates
      BY <1>0 DEF SlotIds
    <3> QED BY <3>1 DEF ReaderStates
  <2>2. reader' = [reader EXCEPT ![r] = st] /\ Unmoved /\ slots' = slots
    BY <1>3 DEF ReadActive
  <2>3. reader[r].slot # 0 /\ active # 0
    BY <1>0, <1>3 DEF ReadActive, SlotIds
  <2> HIDE DEF st
  <2> QED BY <1>0, <1>1, <2>1, <2>2, <2>3
<1>4. ASSUME NEW r \in Readers, Search(r) PROVE TypeOK'
  <2> DEFINE st == [reader[r] EXCEPT !.pc = "count", !.seen = Candidate(r)]
  <2>1. Candidate(r) \in 0..Len(slots)
    BY <1>4, CandidateType DEF Search
  <2>2. st \in ReaderStates /\ st.pc = "count" /\ st.slot = reader[r].slot
    BY <1>0, <2>1 DEF ReaderStates
  <2>3. reader' = [reader EXCEPT ![r] = st] /\ Unmoved /\ slots' = slots
    BY <1>4 DEF Search
  <2>4. reader[r].slot # 0
    BY <1>0, <1>4 DEF Search, SlotIds
  <2> HIDE DEF st
  <2> QED BY <1>0, <1>1, <2>2, <2>3, <2>4
<1>5. ASSUME NEW r \in Readers, Release(r) PROVE TypeOK'
  <2> DEFINE st == [reader[r] EXCEPT !.pc = "idle"]
  <2>1. st \in ReaderStates /\ st.pc = "idle"
    BY <1>0 DEF ReaderStates
  <2>2. slots' \in Seq(SlotRecords) /\ Len(slots') = Len(slots)
    <3> DEFINE s == reader[r].seen
    <3>1. CASE s = 0
      BY <1>0, <1>5, <3>1 DEF Release
    <3>2. CASE s # 0
      <4>1. s \in SlotIds
        BY <1>0, <3>2 DEF ReaderStates, SlotIds
      <4>2. slots' = [slots EXCEPT ![s].inFlight = slots[s].inFlight - 1]
        BY <1>5, <3>2 DEF Release
      <4>3. slots[s].inFlight - 1 \in Int
        BY <1>0, <4>1 DEF SlotRecords
      <4> HIDE DEF s
      <4> QED BY <1>0, <4>1, <4>2, <4>3, CountFacts DEF SlotIds
    <3> QED BY <3>1, <3>2
  <2>3. reader' = [reader EXCEPT ![r] = st] /\ Unmoved
    BY <1>5 DEF Release
  <2> HIDE DEF st
  <2> QED BY <1>1, <2>1, <2>2, <2>3
\* The steps of promoters.
<1>6. ASSUME NEW p \in Promoters, NEW sha \in Shas, SwapPointer(p, sha) PROVE TypeOK'
  <2>1. slots' \in Seq(SlotRecords) /\ Len(slots') = Len(slots) + 1
    BY <1>6, SwapFacts
  <2>2. 0..Len(slots) \subseteq 0..Len(slots') /\ SlotIds \subseteq SlotIds'
        /\ Len(slots) + 1 \in SlotIds'
    BY <1>0, <2>1 DEF SlotIds
  <2> DEFINE c == [pc |-> "swap", old |-> active, new |-> Len(slots) + 1]
  <2>3. /\ call' = [call EXCEPT ![p] = c] /\ call[p].pc = "idle"
        /\ active' = Len(slots) + 1 /\ swapping' = p /\ swapping = "none"
        /\ UNCHANGED <<previous, draining, reader, events>> /\ reused' \in BOOLEAN
    BY <1>6 DEF SwapPointer, TypeOK, InUse
  <2>4. c \in Calls' /\ c.old # 0 /\ c.new # 0 /\ c.pc = "swap"
    BY <1>0, <2>1 DEF Calls, SlotIds
  <2> HIDE DEF c
  <2>5. \A q \in Promoters : call'[q] = IF q = p THEN c ELSE call[q]
    BY <1>0, <2>3
  <2>6. call' \in [Promoters -> Calls']
    <3>1. Calls \subseteq Calls'
      BY <2>2 DEF Calls
    <3> QED BY <1>0, <2>3, <2>4, <3>1
  <2>7. reader' \in [Readers -> ReaderStates']
    <3>1. ReaderStates \subseteq ReaderStates'
      BY <2>2 DEF ReaderStates
    <3> QED BY <1>0, <2>3, <3>1
  <2>8. /\ \A q \in Promoters : call'[q].pc # "idle" => call'[q].old # 0 /\ call'[q].new # 0
        /\ \A q \in Promoters : call'[q].pc = "swap" <=> swapping' = q
    BY <2>3, <2>4, <2>5, PromoterAssumption DEF TypeOK
  <2>9. draining' = {call'[q].old : q \in {x \in Promoters : call'[x].pc = "drain"}}
    BY <2>3, <2>4, <2>5 DEF TypeOK
  <2> QED BY <2>1, <2>2, <2>3, <2>6, <2>7, <2>8, <2>9
          DEF TypeOK, SlotRecords, Calls, ReaderStates
<1>7. ASSUME NEW p \in Promoters, Rollback(p) PROVE TypeOK'
  <2>1. slots[previous].sha \in Shas
    BY <1>0, <1>7 DEF Rollback, TypeOK, SlotIds, SlotRecords
  <2> QED BY <1>6, <1>7, <2>1 DEF Rollback
<1>8. ASSUME NEW p \in Promoters, NEW c \in Calls, call' = [call EXCEPT ![p] = c],
             call[p].pc # "idle", swapping' = "none", swapping \in {p, "none"},
             UNCHANGED <<slots, active, reader, reused>>,
             previous' \in 0..Len(slots), events' \subseteq [number : Nat, from : Shas, to : Shas],
             c.pc \in {"idle", "drain"}, c.old = call[p].old, c.new = call[p].new,
             draining' = IF c.pc = "drain" THEN draining \cup {call[p].old}
                         ELSE draining \ {call[p].old},
             \A q \in Promoters \ {p} : call[q].pc = "drain" => call[q].old # call[p].old
      PROVE  TypeOK'
  <2>1. call' \in [Promoters -> Calls]
        /\ \A q \in Promoters : call'[q] = IF q = p THEN c ELSE call[q]
    BY <1>0, <1>8
  <2>2. /\ \A q \in Promoters : call'[q].pc # "idle" => call'[q].old # 0 /\ call'[q].new # 0
        /\ \A q \in Promoters : call'[q].pc = "swap" <=> swapping' = q
    BY <1>8, <2>1, PromoterAssumption DEF TypeOK
  <2>3. draining' = {call'[q].old : q \in {x \in Promoters : call'[x].pc = "drain"}}
    BY <1>8, <2>1 DEF TypeOK
  <2>4. draining' \subseteq SlotIds
    BY <1>0, <1>8
  <2> QED BY <1>8, <2>1, <2>2, <2>3, <2>4 DEF TypeOK, SlotIds, Calls
<1>9. \A p, q \in Promoters :
        p # q /\ call[p].pc = "drain" /\ call[q].pc # "idle" => call[p].old # call[q].old
  BY DEF EventsInv
<1>10. ASSUME NEW p \in Promoters, SwapEnd(p) PROVE TypeOK'
  <2> DEFINE c == [call[p] EXCEPT !.pc = "drain"]
  <2>1. c \in Calls /\ c.pc = "drain" /\ c.old = call[p].old /\ c.new = call[p].new
    BY <1>0 DEF Calls
  <2>2. /\ call[p].pc = "swap" /\ swapping = p /\ swapping' = "none"
        /\ call' = [call EXCEPT ![p] = c] /\ previous' = call[p].old
        /\ draining' = draining \cup {call[p].old}
        /\ UNCHANGED <<slots, active, reader, events, reused>>
    BY <1>10 DEF SwapEnd, TypeOK
  <2>3. call[p].old \in 0..Len(slots)
    BY <1>0 DEF Calls
  <2>4. events' \subseteq [number : Nat, from : Shas, to : Shas]
    BY <2>2 DEF TypeOK
  <2> HIDE DEF c
  <2> QED BY <1>8, <1>9, <2>1, <2>2, <2>3, <2>4
<1>11. ASSUME NEW p \in Promoters, call[p].pc = "drain", DrainEnd(p) PROVE TypeOK'
  <2> DEFINE c == [call[p] EXCEPT !.pc = "idle"]
  <2>1. c \in Calls /\ c.pc = "idle" /\ c.old = call[p].old /\ c.new = call[p].new
    BY <1>0 DEF Calls
  <2>2. /\ swapping = "none" /\ swapping' = "none"
        /\ call' = [call EXCEPT ![p] = c] /\ previous' = previous
        /\ draining' = draining \ {call[p].old}
        /\ UNCHANGED <<slots, active, reader, reused>>
    BY <1>11 DEF DrainEnd
  <2>3. previous' \in 0..Len(slots)
    BY <2>2 DEF TypeOK
  <2>4. events' \subseteq [number : Nat, from : Shas, to : Shas]
    <3>1. /\ slots[call[p].old].sha \in Shas /\ slots[call[p].new].sha \in Shas
          /\ call[p].new - 1 \in Nat
      BY <1>0, <1>11 DEF SlotRecords, SlotIds
    <3> QED BY <1>11, <3>1 DEF DrainEnd, TypeOK
  <2> HIDE DEF c
  <2> QED BY <1>8, <1>9, <1>11, <2>1, <2>2, <2>3, <2>4
<1>12. CASE UNCHANGED vars
  <2>1. UNCHANGED <<slots, active, previous, draining, swapping, call, reader, events, reused>>
    BY <1>12 DEF vars
  <2> QED BY <2>1 DEF TypeOK, SlotIds
<1> QED
  BY <1>2, <1>3, <1>4, <1>5, <1>6, <1>7, <1>10, <1>11, <1>12
     DEF Next, ReaderStep, PromoterStep, Promote, Drained, DrainTimesOut

-----------------------------------------------------------------------------
(* Events.                                                                 *)

\* Every step keeps the swaps in line and the events true to them.
LEMMA EventsNext == TypeOK /\ TypeOK' /\ EventsInv /\ [Next]_vars => EventsInv'
<1> SUFFICES ASSUME TypeOK, TypeOK', EventsInv, [Next]_vars PROVE EventsInv'
  OBVIOUS
<1>0. /\ Len(slots) \in Nat /\ slots \in Seq(SlotRecords)
      /\ \A s \in SlotIds : slots[s] \in SlotRecords
      /\ active \in SlotIds
      /\ call \in [Promoters -> Calls] /\ reader \in [Readers -> ReaderStates]
      /\ \A p \in Promoters :
           call[p].pc # "idle" => call[p].old \in SlotIds /\ call[p].new \in SlotIds
  BY TypeFacts
\* Steps that only count readers.
<1>1. ASSUME Len(slots') = Len(slots), UNCHANGED <<active, call, events>>,
             \A s \in SlotIds : slots'[s].sha = slots[s].sha
      PROVE  EventsInv'
  BY <1>1 DEF EventsInv, SlotIds
<1>2. ASSUME NEW r \in Readers, Get(r) PROVE EventsInv'
  <2>1. slots' = [slots EXCEPT ![active].inFlight = slots[active].inFlight + 1]
        /\ UNCHANGED <<active, call, events>>
    BY <1>2 DEF Get
  <2>2. slots[active].inFlight + 1 \in Int
    BY <1>0 DEF SlotRecords
  <2> QED BY <1>0, <1>1, <2>1, <2>2, CountFacts DEF SlotIds
<1>3. ASSUME NEW r \in Readers, Release(r) PROVE EventsInv'
  <2> DEFINE s == reader[r].seen
  <2>1. UNCHANGED <<active, call, events>>
    BY <1>3 DEF Release
  <2>2. CASE s = 0
    BY <1>1, <1>3, <2>1, <2>2 DEF Release
  <2>3. CASE s # 0
    <3>1. s \in SlotIds
      BY <1>0, <2>3 DEF ReaderStates, SlotIds
    <3>2. slots' = [slots EXCEPT ![s].inFlight = slots[s].inFlight - 1]
      BY <1>3, <2>3 DEF Release
    <3>3. slots[s].inFlight - 1 \in Int
      BY <1>0, <3>1 DEF SlotRecords
    <3> HIDE DEF s
    <3> QED BY <1>0, <1>1, <2>1, <3>1, <3>2, <3>3, CountFacts DEF SlotIds
  <2> QED BY <2>2, <2>3
<1>4. ASSUME NEW r \in Readers, ReadActive(r) \/ Search(r) PROVE EventsInv'
  BY <1>1, <1>4 DEF ReadActive, Search
<1>5. ASSUME NEW p \in Promoters, NEW sha \in Shas, SwapPointer(p, sha) PROVE EventsInv'
  <2>1. Len(slots') = Len(slots) + 1 /\ \A t \in SlotIds : slots'[t] = slots[t]
    BY <1>5, SwapFacts
  <2>2. SlotIds \subseteq SlotIds'
    BY <1>0, <2>1 DEF SlotIds
  <2> DEFINE c == [pc |-> "swap", old |-> active, new |-> Len(slots) + 1]
  <2>3. /\ active' = Len(slots) + 1 /\ events' = events /\ active = Len(slots)
        /\ call' = [call EXCEPT ![p] = c] /\ call[p].pc = "idle"
    BY <1>5 DEF SwapPointer, EventsInv
  <2>4. c.old = Len(slots) /\ c.new = Len(slots) + 1
    BY <2>3
  <2> HIDE DEF c
  <2>5. \A q \in Promoters : call'[q] = IF q = p THEN c ELSE call[q]
    BY <1>0, <2>3
  \* No other call has a new slot as late as this one.
  <2>6. \A q \in Promoters : call[q].pc # "idle" => call[q].old < Len(slots)
    BY <1>0 DEF EventsInv, SlotIds
  <2>7. \A q \in Promoters : call'[q].pc # "idle" => call'[q].new = call'[q].old + 1
    BY <2>4, <2>5 DEF EventsInv
  <2>8. \A x, q \in Promoters :
          x # q /\ call'[x].pc # "idle" /\ call'[q].pc # "idle" => call'[x].old # call'[q].old
    BY <1>0, <2>4, <2>5, <2>6 DEF EventsInv
  <2>9. \A e \in events' :
          /\ e.number \in SlotIds' /\ e.number + 1 \in SlotIds'
          /\ e.from = slots'[e.number].sha /\ e.to = slots'[e.number + 1].sha
    BY <2>1, <2>2, <2>3 DEF EventsInv
  <2> QED BY <2>1, <2>3, <2>7, <2>8, <2>9 DEF EventsInv
<1>6. ASSUME NEW p \in Promoters, Rollback(p) PROVE EventsInv'
  <2>1. slots[previous].sha \in Shas
    BY <1>0, <1>6 DEF Rollback, TypeOK, SlotIds, SlotRecords
  <2> QED BY <1>5, <1>6, <2>1 DEF Rollback
<1>7. ASSUME NEW p \in Promoters, NEW f \in {"drain", "idle"}, call[p].pc # "idle",
             call' = [call EXCEPT ![p].pc = f], UNCHANGED <<slots, active>>,
             \A e \in events' \ events :
               /\ e.number \in SlotIds /\ e.number + 1 \in SlotIds
               /\ e.from = slots[e.number].sha /\ e.to = slots[e.number + 1].sha
      PROVE  EventsInv'
  <2>1. \A q \in Promoters :
          /\ call'[q].old = call[q].old /\ call'[q].new = call[q].new
          /\ call'[q].pc # "idle" => call[q].pc # "idle"
    <3> TAKE q \in Promoters
    <3>1. call[q] \in Calls
      BY <1>0
    <3> QED BY <1>0, <1>7, <3>1 DEF Calls
  <2> QED BY <1>7, <2>1 DEF EventsInv, SlotIds
<1>8. ASSUME NEW p \in Promoters, SwapEnd(p) PROVE EventsInv'
  BY <1>7, <1>8 DEF SwapEnd
<1>9. ASSUME NEW p \in Promoters, call[p].pc = "drain", DrainEnd(p) PROVE EventsInv'
  <2> DEFINE ev == [number |-> call[p].new - 1, from |-> slots[call[p].old].sha,
                    to |-> slots[call[p].new].sha]
  <2>1. events' = events \cup {ev} /\ UNCHANGED <<slots, active>>
        /\ call' = [call EXCEPT ![p].pc = "idle"]
    BY <1>9 DEF DrainEnd
  <2>2. call[p].new = call[p].old + 1 /\ call[p].old \in SlotIds /\ call[p].new \in SlotIds
    BY <1>0, <1>9 DEF EventsInv
  <2>3. ev.number = call[p].old /\ ev.number + 1 = call[p].new
    BY <1>0, <2>2 DEF SlotIds
  <2>4. ev.from = slots[call[p].old].sha /\ ev.to = slots[call[p].new].sha
    OBVIOUS
  <2> HIDE DEF ev
  <2> QED BY <1>7, <1>9, <2>1, <2>2, <2>3, <2>4
<1>10. CASE UNCHANGED vars
  BY <1>1, <1>10 DEF vars
<1> QED
  BY <1>2, <1>3, <1>4, <1>5, <1>6, <1>8, <1>9, <1>10
     DEF Next, ReaderStep, PromoterStep, Promote, Drained, DrainTimesOut

-----------------------------------------------------------------------------
(* Counting readers.                                                       *)

CountsInv == ReleaseInv /\ CountsReaders

\* A slot's holders are finitely many, and hold a slot that was made.
LEMMA HoldersFacts ==
  ASSUME TypeOK
  PROVE  /\ \A s : IsFiniteSet(Holders(s)) /\ Cardinality(Holders(s)) \in Nat
         /\ \A s : s \notin SlotIds => Holders(s) = {}
         /\ Live \subseteq SlotIds
<1>1. \A s : IsFiniteSet(Holders(s)) /\ Cardinality(Holders(s)) \in Nat
  <2> TAKE s
  <2>1. Holders(s) \subseteq Readers
    BY DEF Holders
  <2>2. IsFiniteSet(Holders(s))
    BY <2>1, ReaderAssumption, FS_Subset
  <2> QED BY <2>2, FS_CardinalityType
<1>2. \A s : s \notin SlotIds => Holders(s) = {}
  BY TypeFacts DEF Holders
<1>3. Live \subseteq SlotIds
  BY TypeFacts DEF Live, TypeOK
<1> QED BY <1>1, <1>2, <1>3

\* A step keeps the slots in use apart when it brings none into use and changes
\* no SHA, and keeps the counts when it moves no reader and no count.
LEMMA LiveShrinks ==
  ASSUME TypeOK, OwnSlot, Live' \subseteq Live,
         \A s \in SlotIds : slots'[s].sha = slots[s].sha
  PROVE  \A s, t \in Live' : s # t => slots'[s].sha # slots'[t].sha
<1>1. Live \subseteq SlotIds
  BY HoldersFacts
<1> QED BY <1>1 DEF OwnSlot

\* Every step keeps the counts.
LEMMA CountsNext ==
  TypeOK /\ TypeOK' /\ EventsInv /\ CountsInv /\ [Next]_vars => CountsInv'
<1> SUFFICES ASSUME TypeOK, TypeOK', EventsInv, CountsInv, [Next]_vars, ~reused'
             PROVE  OwnSlot' /\ CountsReaders'
  BY DEF CountsInv, ReleaseInv, CountsReaders
<1>0. /\ Len(slots) \in Nat /\ slots \in Seq(SlotRecords)
      /\ \A s \in SlotIds : slots[s] \in SlotRecords
      /\ active \in SlotIds /\ draining \subseteq SlotIds
      /\ call \in [Promoters -> Calls] /\ reader \in [Readers -> ReaderStates]
      /\ \A r \in Readers : reader[r].pc # "idle" => reader[r].slot \in SlotIds
      /\ \A r \in Readers : reader[r].pc = "search" => reader[r].seen \in SlotIds
      /\ \A p \in Promoters :
           call[p].pc # "idle" => call[p].old \in SlotIds /\ call[p].new \in SlotIds
  BY TypeFacts
<1>1. /\ \A s : IsFiniteSet(Holders(s)) /\ Cardinality(Holders(s)) \in Nat
      /\ \A s : s \notin SlotIds => Holders(s) = {}
      /\ Live \subseteq SlotIds
  BY HoldersFacts
<1>2. ~reused
  <2>1. \A p \in Promoters : \A sha : SwapPointer(p, sha) => (reused' = (reused \/ InUse(sha)))
    BY DEF SwapPointer
  <2> QED BY <2>1 DEF Next, ReaderStep, PromoterStep, Get, ReadActive, Search, Release,
                Promote, Rollback, SwapEnd, Drained, DrainTimesOut, DrainEnd, vars
<1>3. OwnSlot /\ \A s \in SlotIds : slots[s].inFlight >= Cardinality(Holders(s))
  BY <1>2 DEF CountsInv, ReleaseInv, CountsReaders
\* A reader in use holds a slot in use.
<1>4. \A r \in Readers : reader[r].pc # "idle" => reader[r].slot \in Live
  BY <1>0 DEF Live, Holders
<1>5. ASSUME NEW r \in Readers, Get(r) PROVE OwnSlot' /\ CountsReaders'
  <2>1. /\ reader[r].pc = "idle" /\ UNCHANGED <<active, draining, call, swapping>>
        /\ reader' = [reader EXCEPT ![r] = [pc |-> "using", slot |-> active, seen |-> 0]]
        /\ slots' = [slots EXCEPT ![active].inFlight = slots[active].inFlight + 1]
    BY <1>5 DEF Get
  <2>2. slots[active].inFlight + 1 \in Int
    BY <1>0 DEF SlotRecords
  <2>3. /\ Len(slots') = Len(slots)
        /\ \A t \in SlotIds :
             /\ slots'[t].sha = slots[t].sha
             /\ slots'[t].inFlight = IF t = active THEN slots[t].inFlight + 1
                                      ELSE slots[t].inFlight
    BY <1>0, <2>1, <2>2, CountFacts DEF SlotIds
  <2>4. \A q \in Readers :
          reader'[q] = IF q = r THEN [pc |-> "using", slot |-> active, seen |-> 0]
                       ELSE reader[q]
    BY <1>0, <2>1
  <2>5. \A s : /\ Holders(s)' = IF s = active THEN Holders(s) \cup {r} ELSE Holders(s)
               /\ r \notin Holders(s)
    BY <2>1, <2>4 DEF Holders
  <2>6. SlotIds' = SlotIds
    BY <2>3 DEF SlotIds
  <2>7. Live' \subseteq Live
    BY <2>1, <2>5, <2>6 DEF Live
  <2>8. OwnSlot'
    <3>1. \A s, t \in Live' : s # t => slots'[s].sha # slots'[t].sha
      BY <1>3, <2>3, <2>7, LiveShrinks
    <3>2. \A q \in Readers :
            /\ reader'[q].pc = "search" =>
                 \/ reader'[q].seen = reader'[q].slot
                 \/ slots'[reader'[q].seen].sha # slots'[reader'[q].slot].sha
            /\ reader'[q].pc = "count" => reader'[q].seen \in {0, reader'[q].slot}
      <4> TAKE q \in Readers
      <4>1. CASE q = r
        BY <2>4, <4>1
      <4>2. CASE q # r
        <5>1. reader'[q] = reader[q]
          BY <2>4, <4>2
        <5> QED BY <1>0, <1>3, <2>3, <5>1 DEF OwnSlot
      <4> QED BY <4>1, <4>2
    <3> QED BY <3>1, <3>2 DEF OwnSlot
  <2>9. \A s \in SlotIds : slots'[s].inFlight >= Cardinality(Holders(s)')
    <3> TAKE s \in SlotIds
    <3>1. CASE s = active
      <4>1. Cardinality(Holders(s)') = Cardinality(Holders(s)) + 1
        BY <1>1, <2>5, <3>1, FS_AddElement
      <4>2. slots[s].inFlight \in Int
        BY <1>0 DEF SlotRecords
      <4> QED BY <1>1, <1>3, <2>3, <3>1, <4>1, <4>2
    <3>2. CASE s # active
      BY <1>3, <2>3, <2>5, <3>2
    <3> QED BY <3>1, <3>2
  <2> QED BY <2>6, <2>8, <2>9 DEF CountsReaders
\* The reads of release() move no count.
<1>6. ASSUME NEW r \in Readers, NEW f \in {"search", "count"}, NEW n,
             reader[r].pc # "idle",
             reader' = [reader EXCEPT ![r].pc = f, ![r].seen = n],
             UNCHANGED <<slots, active, draining, swapping, call>>,
             f = "search" => n = reader[r].slot
                             \/ slots[n].sha # slots[reader[r].slot].sha,
             f = "count" => n \in {0, reader[r].slot}
      PROVE  OwnSlot' /\ CountsReaders'
  <2>1. \A q \in Readers :
          IF q = r THEN reader'[q].pc = f /\ reader'[q].seen = n
                        /\ reader'[q].slot = reader[q].slot
          ELSE reader'[q] = reader[q]
    <3> TAKE q \in Readers
    <3>1. reader[q] \in ReaderStates
      BY <1>0
    <3> QED BY <1>0, <1>6, <3>1 DEF ReaderStates
  <2>2. \A s : Holders(s)' = Holders(s)
    BY <1>6, <2>1 DEF Holders
  <2>3. SlotIds' = SlotIds
    BY <1>6 DEF SlotIds
  <2>4. Live' \subseteq Live
    BY <1>6, <2>2, <2>3 DEF Live
  <2>5. \A s, t \in Live' : s # t => slots'[s].sha # slots'[t].sha
    BY <1>3, <1>6, <2>4, LiveShrinks
  <2>6. \A q \in Readers :
          /\ reader'[q].pc = "search" =>
               \/ reader'[q].seen = reader'[q].slot
               \/ slots'[reader'[q].seen].sha # slots'[reader'[q].slot].sha
          /\ reader'[q].pc = "count" => reader'[q].seen \in {0, reader'[q].slot}
    BY <1>3, <1>6, <2>1 DEF OwnSlot
  <2> QED BY <1>3, <1>6, <2>2, <2>3, <2>5, <2>6 DEF OwnSlot, CountsReaders
<1>7. ASSUME NEW r \in Readers, ReadActive(r) PROVE OwnSlot' /\ CountsReaders'
  <2>1. /\ reader[r].pc = "using" /\ UNCHANGED <<slots, active, draining, swapping, call>>
        /\ reader' = [reader EXCEPT ![r].pc = "search", ![r].seen = active]
    BY <1>7 DEF ReadActive
  <2>2. reader[r].slot \in Live /\ active \in Live
    BY <1>4, <2>1 DEF Live
  <2>3. active = reader[r].slot \/ slots[active].sha # slots[reader[r].slot].sha
    BY <1>3, <2>2 DEF OwnSlot
  <2> QED BY <1>6, <2>1, <2>3
<1>8. ASSUME NEW r \in Readers, Search(r) PROVE OwnSlot' /\ CountsReaders'
  <2>1. /\ reader[r].pc = "search" /\ UNCHANGED <<slots, active, draining, swapping, call>>
        /\ reader' = [reader EXCEPT ![r].pc = "count", ![r].seen = Candidate(r)]
    BY <1>8 DEF Search
  <2>2. reader[r].slot \in Live /\ draining \subseteq Live
    BY <1>4, <2>1 DEF Live
  <2>3. Candidate(r) # 0 =>
          /\ Candidate(r) \in draining \cup {reader[r].seen}
          /\ slots[Candidate(r)].sha = slots[reader[r].slot].sha
    BY <2>1, CandidateType
  <2>4. Candidate(r) \in {0, reader[r].slot}
    BY <1>3, <2>1, <2>2, <2>3 DEF OwnSlot
  <2> QED BY <1>6, <2>1, <2>4
<1>9. ASSUME NEW r \in Readers, Release(r) PROVE OwnSlot' /\ CountsReaders'
  <2> DEFINE h == reader[r].slot
             n == reader[r].seen
  <2>1. /\ reader[r].pc = "count" /\ UNCHANGED <<active, draining, call, swapping>>
        /\ reader' = [reader EXCEPT ![r].pc = "idle"]
        /\ slots' = IF n = 0 THEN slots
                    ELSE [slots EXCEPT ![n].inFlight = slots[n].inFlight - 1]
    BY <1>9 DEF Release
  <2>2. h \in SlotIds /\ n \in {0, h}
    BY <1>0, <1>3, <2>1 DEF OwnSlot
  <2>3. \A q \in Readers :
          IF q = r THEN reader'[q].pc = "idle" ELSE reader'[q] = reader[q]
    BY <1>0, <2>1 DEF ReaderStates
  <2>4. \A s : /\ Holders(s)' = Holders(s) \ {r}
               /\ r \in Holders(s) <=> s = h
    BY <2>1, <2>3 DEF Holders
  <2> HIDE DEF h, n
  <2>5. /\ Len(slots') = Len(slots)
        /\ \A t \in SlotIds :
             /\ slots'[t].sha = slots[t].sha
             /\ slots'[t].inFlight = IF t = n THEN slots[t].inFlight - 1
                                      ELSE slots[t].inFlight
    <3>1. CASE n = 0
      BY <1>0, <2>1, <3>1 DEF SlotIds
    <3>2. CASE n # 0
      <4>1. n \in SlotIds /\ slots[n].inFlight - 1 \in Int
        BY <1>0, <2>2, <3>2 DEF SlotRecords
      <4> QED BY <1>0, <2>1, <3>2, <4>1, CountFacts DEF SlotIds
    <3> QED BY <3>1, <3>2
  <2>6. SlotIds' = SlotIds
    BY <2>5 DEF SlotIds
  <2>7. Live' \subseteq Live
    BY <2>1, <2>4, <2>6 DEF Live
  <2>8. OwnSlot'
    <3>1. \A s, t \in Live' : s # t => slots'[s].sha # slots'[t].sha
      BY <1>3, <2>5, <2>7, LiveShrinks
    <3>2. \A q \in Readers :
            /\ reader'[q].pc = "search" =>
                 \/ reader'[q].seen = reader'[q].slot
                 \/ slots'[reader'[q].seen].sha # slots'[reader'[q].slot].sha
            /\ reader'[q].pc = "count" => reader'[q].seen \in {0, reader'[q].slot}
      <4> TAKE q \in Readers
      <4>1. CASE q = r
        BY <2>3, <4>1
      <4>2. CASE q # r
        <5>1. reader'[q] = reader[q]
          BY <2>3, <4>2
        <5> QED BY <1>0, <1>3, <2>5, <5>1 DEF OwnSlot
      <4> QED BY <4>1, <4>2
    <3> QED BY <3>1, <3>2 DEF OwnSlot
  <2>9. \A s \in SlotIds : slots'[s].inFlight >= Cardinality(Holders(s)')
    <3> TAKE s \in SlotIds
    <3>0. slots[s].inFlight \in Int /\ n \in {0, h} /\ s # 0
      BY <1>0, <2>2 DEF SlotRecords, SlotIds
    <3>1. CASE s = h
      <4>1. Cardinality(Holders(s)') = Cardinality(Holders(s)) - 1
        BY <1>1, <2>4, <3>1, FS_RemoveElement
      <4> QED BY <1>1, <1>3, <2>5, <3>0, <3>1, <4>1
    <3>2. CASE s # h
      <4>1. Holders(s)' = Holders(s)
        BY <2>4, <3>2
      <4> QED BY <1>3, <2>5, <3>0, <3>2, <4>1
    <3> QED BY <3>1, <3>2
  <2> QED BY <2>6, <2>8, <2>9 DEF CountsReaders
<1>10. ASSUME NEW p \in Promoters, NEW sha \in Shas, SwapPointer(p, sha)
       PROVE  OwnSlot' /\ CountsReaders'
  <2>1. /\ Len(slots') = Len(slots) + 1
        /\ slots'[Len(slots) + 1].sha = sha /\ slots'[Len(slots) + 1].inFlight = 0
        /\ \A t \in SlotIds : slots'[t] = slots[t]
    BY <1>10, SwapFacts
  <2>2. /\ active' = Len(slots) + 1 /\ swapping = "none" /\ swapping' = p
        /\ UNCHANGED <<draining, reader>> /\ ~InUse(sha)
        /\ call' = [call EXCEPT ![p] = [pc |-> "swap", old |-> active, new |-> Len(slots) + 1]]
    BY <1>10 DEF SwapPointer
  <2>3. call'[p].old = active
    BY <1>0, <2>2
  <2>4. /\ SlotIds' = SlotIds \cup {Len(slots) + 1} /\ Len(slots) + 1 \notin SlotIds
        /\ \A s : Holders(s)' = Holders(s)
    <3>1. SlotIds' = SlotIds \cup {Len(slots) + 1} /\ Len(slots) + 1 \notin SlotIds
      BY <1>0, <2>1 DEF SlotIds
    <3>2. \A s : Holders(s)' = Holders(s)
      BY <2>2 DEF Holders
    <3> QED BY <3>1, <3>2
  \* What was in use has another SHA than the new slot.
  <2>5. \A s \in Live : slots[s].sha # sha
    BY <1>1, <2>2, PromoterAssumption DEF Live, InUse
  <2>6. Live' \subseteq Live \cup {Len(slots) + 1}
    <3>1. {q \in Promoters : swapping' = q} = {p}
      BY <2>2
    <3>2. {s \in SlotIds' : Holders(s)' # {}} \subseteq {s \in SlotIds : Holders(s) # {}}
      BY <1>1, <2>4
    <3> QED BY <2>2, <2>3, <3>1, <3>2 DEF Live
  <2>7. \A s, t \in Live' : s # t => slots'[s].sha # slots'[t].sha
    BY <1>1, <1>3, <2>1, <2>5, <2>6 DEF OwnSlot
  <2>8. \A q \in Readers :
          /\ reader'[q].pc = "search" =>
               \/ reader'[q].seen = reader'[q].slot
               \/ slots'[reader'[q].seen].sha # slots'[reader'[q].slot].sha
          /\ reader'[q].pc = "count" => reader'[q].seen \in {0, reader'[q].slot}
    BY <1>0, <1>3, <2>1, <2>2 DEF OwnSlot
  <2>9. \A s \in SlotIds' : slots'[s].inFlight >= Cardinality(Holders(s)')
    <3> TAKE s \in SlotIds'
    <3>1. CASE s \in SlotIds
      BY <1>3, <2>1, <2>4, <3>1
    <3>2. CASE s = Len(slots) + 1
      BY <1>1, <2>1, <2>4, <3>2, FS_EmptySet
    <3> QED BY <2>4, <3>1, <3>2
  <2> QED BY <2>7, <2>8, <2>9 DEF OwnSlot, CountsReaders
<1>11. ASSUME NEW p \in Promoters, Rollback(p) PROVE OwnSlot' /\ CountsReaders'
  <2>1. slots[previous].sha \in Shas
    BY <1>0, <1>11 DEF Rollback, TypeOK, SlotIds, SlotRecords
  <2> QED BY <1>10, <1>11, <2>1 DEF Rollback
\* The steps that only let go of slots.
<1>12. ASSUME UNCHANGED <<slots, reader>>, Live' \subseteq Live
       PROVE  OwnSlot' /\ CountsReaders'
  <2>1. SlotIds' = SlotIds /\ \A s : Holders(s)' = Holders(s)
    BY <1>12 DEF SlotIds, Holders
  <2>2. \A s, t \in Live' : s # t => slots'[s].sha # slots'[t].sha
    BY <1>3, <1>12, LiveShrinks
  <2> QED BY <1>3, <1>12, <2>1, <2>2 DEF OwnSlot, CountsReaders
<1>13. ASSUME NEW p \in Promoters, SwapEnd(p) PROVE OwnSlot' /\ CountsReaders'
  <2>1. /\ swapping = p /\ swapping' = "none" /\ UNCHANGED <<slots, active, reader>>
        /\ draining' = draining \cup {call[p].old}
    BY <1>13 DEF SwapEnd, TypeOK
  <2>2. call[p].old \in Live
    BY <2>1 DEF Live
  <2>3. SlotIds' = SlotIds /\ \A s : Holders(s)' = Holders(s)
    BY <2>1 DEF SlotIds, Holders
  <2>4. {q \in Promoters : swapping' = q} = {}
    BY <2>1, PromoterAssumption
  <2>5. Live' \subseteq Live
    BY <2>1, <2>2, <2>3, <2>4 DEF Live
  <2> QED BY <1>12, <2>1, <2>5
<1>14. ASSUME NEW p \in Promoters, DrainEnd(p) PROVE OwnSlot' /\ CountsReaders'
  <2>1. /\ swapping' = "none" /\ UNCHANGED <<slots, active, reader>>
        /\ draining' \subseteq draining
    BY <1>14 DEF DrainEnd
  <2>2. SlotIds' = SlotIds /\ \A s : Holders(s)' = Holders(s)
    BY <2>1 DEF SlotIds, Holders
  <2>3. {q \in Promoters : swapping' = q} = {}
    BY <2>1, PromoterAssumption
  <2>4. Live' \subseteq Live
    BY <2>1, <2>2, <2>3 DEF Live
  <2> QED BY <1>12, <2>1, <2>4
<1>15. CASE UNCHANGED vars
  <2>1. UNCHANGED <<slots, reader, active, draining, call, swapping>>
    BY <1>15 DEF vars
  <2>2. SlotIds' = SlotIds /\ \A s : Holders(s)' = Holders(s)
    BY <2>1 DEF SlotIds, Holders
  <2>3. Live' \subseteq Live
    BY <2>1, <2>2 DEF Live
  <2> QED BY <1>12, <2>1, <2>3
<1> QED
  BY <1>5, <1>7, <1>8, <1>9, <1>10, <1>11, <1>13, <1>14, <1>15
     DEF Next, ReaderStep, PromoterStep, Promote, Drained, DrainTimesOut

-----------------------------------------------------------------------------
(* The theorems.                                                           *)

PromotionInv == TypeOK /\ EventsInv /\ CountsInv

\* The initial states satisfy the inductive invariant.
LEMMA PromotionInit == Init => PromotionInv
<1> SUFFICES ASSUME Init PROVE PromotionInv
  OBVIOUS
<1> DEFINE d == [sha |-> FirstSha, inFlight |-> 0]
<1>1. d \in SlotRecords /\ d.inFlight = 0
  BY ShaAssumption DEF SlotRecords
<1>2. slots = <<d>>
  BY DEF Init
<1> HIDE DEF d
<1>3. slots \in Seq(SlotRecords) /\ Len(slots) = 1 /\ slots[1] = d /\ SlotIds = {1}
  BY <1>1, <1>2 DEF SlotIds
<1>4. /\ \A r \in Readers : reader[r] = [pc |-> "idle", slot |-> 0, seen |-> 0]
      /\ \A p \in Promoters : call[p] = [pc |-> "idle", old |-> 0, new |-> 0]
  BY DEF Init
<1>5. TypeOK
  <2>1. /\ call \in [Promoters -> Calls] /\ reader \in [Readers -> ReaderStates]
        /\ previous \in 0..Len(slots)
    BY <1>3 DEF Init, Calls, ReaderStates
  <2>2. \A p \in Promoters : call[p].pc = "swap" <=> swapping = p
    BY <1>4, PromoterAssumption DEF Init
  <2>3. /\ slots \in Seq([sha : Shas, inFlight : Int])
        /\ active \in SlotIds /\ draining \subseteq SlotIds
        /\ swapping \in Promoters \cup {"none"}
        /\ events \subseteq [number : Nat, from : Shas, to : Shas]
        /\ reused \in BOOLEAN
    BY <1>3 DEF Init, SlotRecords
  <2>4. draining = {call[p].old : p \in {q \in Promoters : call[q].pc = "drain"}}
    <3>1. {q \in Promoters : call[q].pc = "drain"} = {}
      BY <1>4
    <3> QED BY <3>1 DEF Init
  <2>5. /\ \A r \in Readers : reader[r].pc = "idle"
        /\ \A p \in Promoters : call[p].pc = "idle"
    BY <1>4
  <2> QED BY <2>1, <2>2, <2>3, <2>4, <2>5 DEF TypeOK, Calls, ReaderStates
<1>6. EventsInv
  BY <1>3, <1>4 DEF Init, EventsInv
<1>7. \A s : Holders(s) = {}
  BY <1>4 DEF Holders
<1>8. Live \subseteq {1}
  BY <1>7, PromoterAssumption DEF Init, Live
<1>9. CountsInv
  <2>1. OwnSlot
    BY <1>4, <1>8 DEF OwnSlot
  <2>2. CountsReaders
    <3>1. slots[1].inFlight = 0
      BY <1>1, <1>3
    <3>2. \A s : Cardinality(Holders(s)) = 0
      BY <1>7, FS_EmptySet
    <3> QED BY <1>3, <3>1, <3>2 DEF CountsReaders
  <2> QED BY <2>1, <2>2 DEF CountsInv, ReleaseInv
<1> QED BY <1>5, <1>6, <1>9 DEF PromotionInv

\* The inductive invariant holds of every reachable state.
LEMMA PromotionInvariant == Spec => []PromotionInv
<1>1. PromotionInv /\ [Next]_vars => PromotionInv'
  BY TypeNext, EventsNext, CountsNext DEF PromotionInv
<1> QED BY PromotionInit, <1>1, PTL DEF Spec

\* Slots, calls and readers keep their types, and _draining lists exactly the
\* slots that a promoter waits for.
THEOREM PromotionTypeCorrect == Spec => []TypeOK
<1>1. PromotionInv => TypeOK
  BY DEF PromotionInv
<1> QED BY PromotionInvariant, <1>1, PTL

\* As long as no SHA in use is installed again no slot counts fewer readers than
\* hold it.
THEOREM ReadersAlwaysCounted == Spec => []CountsReaders
<1>1. PromotionInv => CountsReaders
  BY DEF PromotionInv, CountsInv
<1> QED BY PromotionInvariant, <1>1, PTL

\* As long as no SHA in use is installed again a drain that ends before its
\* deadline leaves no reader of the old model behind.
THEOREM DrainAlwaysWaits == Spec => DrainWaits
<1> DEFINE Waits == \A p \in Promoters : ~reused /\ Drained(p) => Holders(call[p].old) = {}
<1>1. PromotionInv /\ [Next]_vars => [Waits]_vars
  <2> SUFFICES ASSUME PromotionInv, NEW p \in Promoters, ~reused, Drained(p)
               PROVE  Holders(call[p].old) = {}
    OBVIOUS
  <2>1. TypeOK /\ CountsReaders
    BY DEF PromotionInv, CountsInv
  <2>2. call[p].old \in SlotIds /\ slots[call[p].old].inFlight <= 0
    BY <2>1, TypeFacts DEF Drained
  <2>3. /\ IsFiniteSet(Holders(call[p].old)) /\ Cardinality(Holders(call[p].old)) \in Nat
        /\ slots[call[p].old].inFlight \in Int
    BY <2>1, <2>2, HoldersFacts, TypeFacts DEF SlotRecords
  <2>4. Cardinality(Holders(call[p].old)) = 0
    BY <2>1, <2>2, <2>3 DEF CountsReaders
  <2> QED BY <2>3, <2>4, FS_EmptySet
<1>2. PromotionInv /\ [Next]_vars => [Waits]_vars
  BY <1>1
<1> QED BY PromotionInvariant, <1>2, PTL DEF Spec, DrainWaits

\* The audited events of successive swaps always fit together.
THEOREM EventsAlwaysConnect == Spec => []EventsConnect
<1>1. PromotionInv => EventsConnect
  <2> SUFFICES ASSUME EventsInv, NEW e \in events, NEW f \in events,
                      f.number = e.number + 1
               PROVE  f.from = e.to
    BY DEF PromotionInv, EventsConnect
  <2> QED BY DEF EventsInv
<1> QED BY PromotionInvariant, <1>1, PTL
=============================================================================
