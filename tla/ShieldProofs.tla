---------------------------- MODULE ShieldProofs -----------------------------
(***************************************************************************)
(* Proofs about Shield, for every chain of invariants, every set of        *)
(* proposals and every rounding error.                                     *)
(***************************************************************************)
EXTENDS Shield, TLAPS

\* What project() leaves alone: each invariant owns the fields it may change.
LEMMA ProjectOwns ==
  ASSUME NEW a \in Actions, NEW c \in ContextRecords, NEW id \in Ids, NEW err \in Int
  PROVE  LET b == Project(id, a, c, err)
         IN /\ b.numeric = a.numeric /\ b.half = a.half /\ b.gain = a.gain
            /\ b.ntn = a.ntn /\ b.offset = a.offset
            /\ b.confident = a.confident /\ b.misplaced = a.misplaced
            /\ id # "spectral_mask_ts38104" => b.freq = a.freq
            /\ id \notin {"max_eirp", "pfd_ceiling_ntn"} => b.tx = a.tx
            /\ id \notin {"neural_rx_envelope", "constellation_legality"} =>
                 b.block = a.block /\ b.fallback = a.fallback
            /\ id # "neural_rx_envelope" => b.honest = a.honest
            /\ id # "constellation_legality" => b.order = a.order /\ b.papr = a.papr
            /\ id # "protected_slice_floor" => b.share = a.share /\ b.pool = a.pool
            /\ id # "lawful_intercept" => b.ues = a.ues
<1> DEFINE b == Project(id, a, c, err)
<1>1. CASE id = "numeric_domain_sanity"
  BY <1>1 DEF Project, Actions, Blocked
<1>2. CASE id = "lawful_intercept"
  BY <1>2 DEF Project, Actions, StripUes
<1>3. CASE id = "spectral_mask_ts38104"
  BY <1>3 DEF Project, Actions, PlaceCarrier, Blocked
<1>4. CASE id = "max_eirp"
  BY <1>4 DEF Project, Actions, CutPower
<1>5. CASE id = "pfd_ceiling_ntn"
  BY <1>5 DEF Project, Actions, CutPower
<1>6. CASE id = "protected_slice_floor"
  BY <1>6 DEF Project, Actions, RestoreFloor
<1>7. CASE id = "neural_rx_envelope"
  BY <1>7 DEF Project, Actions, ReplaceReceiver, Blocked, FallBack
<1>8. CASE id = "constellation_legality"
  BY <1>8 DEF Project, Actions, LegaliseConstellation, FallBack
<1> QED BY <1>1, <1>2, <1>3, <1>4, <1>5, <1>6, <1>7, <1>8 DEF Ids

\* Snapping an order gives an allowed one.
LEMMA SnapAllowed ==
  ASSUME NEW order \in Int
  PROVE  Snap(order) \in Orders
<1> DEFINE below == {o \in Orders : o <= order}
<1>1. CASE below = {}
  <2>1. Snap(order) = CHOOSE o \in Orders : \A n \in Orders : o <= n
    BY <1>1 DEF Snap
  <2> QED BY <2>1, OrdersAssumption
<1>2. CASE below # {}
  <2>1. Snap(order) = CHOOSE o \in below : \A n \in below : n <= o
    BY <1>2 DEF Snap
  <2>2. below \in SUBSET Orders
    OBVIOUS
  <2>3. \E o \in below : \A n \in below : n <= o
    BY <1>2, <2>2, OrdersAssumption
  <2>4. (CHOOSE o \in below : \A n \in below : n <= o) \in below
    BY <2>3
  <2> QED BY <2>1, <2>4
<1> QED BY <1>1, <1>2

\* The fields of an action have their types.
LEMMA Fields ==
  ASSUME NEW a \in Actions
  PROVE  /\ a.freq \in Int /\ a.half \in Int /\ a.tx \in Int /\ a.gain \in Int
         /\ a.offset \in Int /\ a.order \in Int /\ a.papr \in Int
         /\ a.share \in Int /\ a.pool \in Int /\ a.ues \subseteq Ues
         /\ a.block \in Blocks /\ a.blocked \in BOOLEAN
BY DEF Actions

\* A new value of the right type makes an action of an action.
LEMMA Updates ==
  ASSUME NEW a \in Actions, NEW x \in Int, NEW y \in Int, NEW block \in Blocks
  PROVE  /\ [a EXCEPT !.freq = x] \in Actions
         /\ [a EXCEPT !.tx = x] \in Actions
         /\ [a EXCEPT !.share = x, !.pool = y] \in Actions
         /\ [a EXCEPT !.order = x, !.papr = y] \in Actions
         /\ FallBack(a, block) \in Actions
         /\ Blocked(a) \in Actions
BY DEF Actions, FallBack, Blocked

\* Projecting an action gives an action.
LEMMA ProjectType ==
  ASSUME NEW a \in Actions, NEW c \in ContextRecords, NEW id \in Ids, NEW err \in Int
  PROVE  Project(id, a, c, err) \in Actions
<1>0. "classical_lmmse" \in Blocks /\ "classical_qam" \in Blocks
  BY DEF Blocks
<1>1. CASE id = "numeric_domain_sanity"
  BY <1>1, <1>0, Updates DEF Project
<1>2. CASE id = "lawful_intercept"
  BY <1>2 DEF Project, Actions, StripUes
<1>3. CASE id = "spectral_mask_ts38104"
  <2> DEFINE x == IF a.freq < Lowest(a) THEN Lowest(a) + err
                  ELSE IF a.freq > Highest(a) THEN Highest(a) + err ELSE a.freq
  <2>1. x \in Int
    BY Fields, LimitAssumption DEF Lowest, Highest
  <2>2. Project(id, a, c, err) = IF TooWide(a) THEN Blocked(a) ELSE [a EXCEPT !.freq = x]
    BY <1>3 DEF Project, PlaceCarrier
  <2> HIDE DEF x
  <2> QED BY <2>1, <2>2, <1>0, Updates
<1>4. CASE id = "max_eirp"
  <2> DEFINE x == Least(a.tx, a.tx - EirpOver(a) + err)
  <2>1. x \in Int
    BY Fields, LimitAssumption DEF Least, EirpOver
  <2>2. Project(id, a, c, err) = IF EirpOver(a) > 0 THEN [a EXCEPT !.tx = x] ELSE a
    BY <1>4 DEF Project, CutPower
  <2> HIDE DEF x
  <2> QED BY <2>1, <2>2, <1>0, Updates
<1>5. CASE id = "pfd_ceiling_ntn"
  <2> DEFINE x == Least(a.tx, a.tx - PfdOver(a) + err)
  <2>1. x \in Int
    BY Fields, LimitAssumption DEF Least, PfdOver
  <2>2. Project(id, a, c, err) =
          IF a.ntn /\ PfdOver(a) > 0 THEN [a EXCEPT !.tx = x] ELSE a
    BY <1>5 DEF Project, CutPower
  <2> HIDE DEF x
  <2> QED BY <2>1, <2>2, <1>0, Updates
<1>6. CASE id = "protected_slice_floor"
  <2> DEFINE given == Least(a.pool, Floor - a.share)
             x == a.share + given
             y == a.pool - given
  <2>1. x \in Int /\ y \in Int
    BY Fields, LimitAssumption DEF Least
  <2>2. Project(id, a, c, err) =
          IF AboveFloor(a) THEN a ELSE [a EXCEPT !.share = x, !.pool = y]
    BY <1>6 DEF Project, RestoreFloor, Actions
  <2> HIDE DEF x, y
  <2>3. [a EXCEPT !.share = x, !.pool = y] \in Actions
    BY <2>1, <1>0, Updates
  <2> QED BY <2>2, <2>3
<1>7. CASE id = "neural_rx_envelope"
  <2>1. FallBack(a, "classical_lmmse") \in Actions /\ Blocked(a) \in Actions
    BY <1>0, Updates
  <2>2. [FallBack(a, "classical_lmmse") EXCEPT !.honest = TRUE] \in Actions
    BY <2>1 DEF Actions
  <2> QED BY <1>7, <2>1, <2>2 DEF Project, ReplaceReceiver
<1>8. CASE id = "constellation_legality"
  <2> DEFINE f == FallBack(a, "classical_qam")
             x == IF f.order \in Orders THEN f.order ELSE Snap(f.order)
             y == Least(f.papr, MaxPapr)
  <2>1. f \in Actions
    BY <1>0, Updates
  <2>2. Project(id, a, c, err) =
          IF LegalConstellation(a) THEN a ELSE [f EXCEPT !.order = x, !.papr = y]
    BY <1>8, <2>1 DEF Project, LegaliseConstellation, Actions
  <2> HIDE DEF f
  <2>3. f.order \in Int /\ f.papr \in Int
    BY <2>1, Fields
  <2>4. Snap(f.order) \in Int
    <3>1. Snap(f.order) \in Orders
      BY <2>3, SnapAllowed
    <3>2. \A o \in Orders : o \in Nat
      BY OrdersAssumption, Zenon
    <3> QED BY <3>1, <3>2
  <2>5. x \in Int
    BY <2>3, <2>4
  <2>6. y \in Int
    BY <2>3, LimitAssumption DEF Least
  <2> HIDE DEF x, y
  <2>7. [f EXCEPT !.order = x, !.papr = y] \in Actions
    BY <2>1, <2>5, <2>6, <1>0, Updates
  <2> QED BY <2>2, <2>7
<1> QED BY <1>1, <1>2, <1>3, <1>4, <1>5, <1>6, <1>7, <1>8 DEF Ids

\* The chain in use is a chain of invariants.
LEMMA ChainType ==
  ASSUME chain \in Chains
  PROVE  /\ Len(chain) \in Nat \ {0}
         /\ \A i \in 1..Len(chain) : chain[i] \in Ids
         /\ InChain \subseteq Ids
         /\ "numeric_domain_sanity" \in InChain
<1>1. chain \in Seq(Ids) /\ Len(chain) > 0 /\ chain[1] = "numeric_domain_sanity"
  BY ChainAssumption
<1>2. Len(chain) \in Nat \ {0} /\ \A i \in 1..Len(chain) : chain[i] \in Ids
  BY <1>1
<1> QED BY <1>1, <1>2 DEF InChain

\* A rounding error is an integer.
LEMMA ErrorsType ==
  ASSUME NEW id, NEW a, NEW c
  PROVE  /\ Errors(id, a, c) \subseteq Int
         /\ \A err \in Errors(id, a, c) : -MaxError <= err /\ err <= MaxError
BY LimitAssumption DEF Errors

\* A pass is under way only while passes are left.
TypeInv == TypeOK /\ (pc = "project" => pass < MaxPasses)

\* Every state of the Shield is well typed (dispose(), shield/shield.py:126-206).
THEOREM TypeCorrect == Spec => []TypeOK
<1>1. Init => TypeInv
  <2> SUFFICES ASSUME Init PROVE TypeInv
    OBVIOUS
  <2>1. chain \in Chains /\ ctx \in ContextRecords /\ proposed \in Actions /\ safe \in Actions
    BY ProposalAssumption DEF Init
  <2>2. 1 \in 1..Len(chain)
    BY <2>1, ChainType
  <2>3. certificate \in [issued : BOOLEAN, violated : SUBSET InChain,
                         emit_blocked : BOOLEAN, fallback_used : BOOLEAN,
                         fallback_to : Blocks \cup {"none"}]
    BY DEF Init, NoCertificate
  <2>4. pass \in 0..MaxPasses
    BY LimitAssumption DEF Init
  <2> QED BY <2>1, <2>2, <2>3, <2>4 DEF Init, TypeInv, TypeOK
<1>2. TypeInv /\ [Next]_vars => TypeInv'
  <2> SUFFICES ASSUME TypeInv, [Next]_vars PROVE TypeInv'
    OBVIOUS
  <2>0. Len(chain) \in Nat \ {0} /\ InChain \subseteq Ids /\ chain[at] \in Ids /\ chain[at] \in InChain
    BY ChainType DEF TypeInv, TypeOK, InChain
  <2>1. CASE Check
    <3>1. at' \in 1..Len(chain)
      BY <2>0, <2>1 DEF TypeInv, TypeOK, Check
    <3>3. exact' \in BOOLEAN /\ projected' \in BOOLEAN
      BY <2>1, Zenon DEF TypeInv, TypeOK, Check
    <3>2. pc' \in {"certify", "project"} /\ (pc' = "project" => pass < MaxPasses)
      BY <2>1 DEF Check
    <3> QED BY <2>1, <3>1, <3>2, <3>3 DEF TypeInv, TypeOK, Check, InChain
  <2>2. CASE ProjectNext
    <3>1. PICK err \in Errors(chain[at], safe, ctx) :
            safe' = Project(chain[at], safe, ctx, err) /\ exact' = (exact /\ err = 0)
      BY <2>2 DEF ProjectNext
    <3>2. safe' \in Actions
      BY <3>1, <2>0, ErrorsType, ProjectType DEF TypeInv, TypeOK
    <3>3. corrections' \subseteq InChain'
      BY <2>2, <2>0 DEF TypeInv, TypeOK, ProjectNext, InChain
    <3>4. exact' \in BOOLEAN
      BY <3>1
    <3>5. pc' \in {"check", "project", "certify"} /\ at' \in 1..Len(chain)
      BY <2>2, <2>0 DEF TypeInv, TypeOK, ProjectNext
    <3>6. pass' \in 0..MaxPasses
      BY <2>2, LimitAssumption DEF TypeInv, TypeOK, ProjectNext
    <3> QED BY <2>2, <3>2, <3>3, <3>4, <3>5, <3>6 DEF TypeInv, TypeOK, ProjectNext, InChain
  <2>3. CASE Certify
    <3>1. safe' \in Actions
      BY <2>3 DEF TypeInv, TypeOK, Certify, Actions
    <3>2. certificate' \in [issued : BOOLEAN, violated : SUBSET InChain,
                            emit_blocked : BOOLEAN, fallback_used : BOOLEAN,
                            fallback_to : Blocks \cup {"none"}]
      BY <2>3 DEF TypeInv, TypeOK, Certify, Actions
    <3> QED BY <2>3, <3>1, <3>2 DEF TypeInv, TypeOK, Certify, InChain
  <2>4. CASE Guard
    BY <2>4 DEF TypeInv, TypeOK, Guard, InChain
  <2>5. CASE UNCHANGED vars
    BY <2>5 DEF TypeInv, TypeOK, vars, InChain
  <2> QED BY <2>1, <2>2, <2>3, <2>4, <2>5 DEF Next
<1>3. TypeInv => TypeOK
  BY DEF TypeInv
<1> QED BY <1>1, <1>2, <1>3, PTL DEF Spec

-----------------------------------------------------------------------------
(* What is certified, what is emitted and what is_feasible() promises.     *)

\* An action that was not projected is the proposal, one that was projected was
\* not feasible, and a certificate that does not block is true of the action.
CertInv ==
  /\ ~proposed.blocked
  /\ certificate.issued <=> pc \in {"guard", "done"}
  /\ pc \in {"check", "project"} => ~safe.blocked
  /\ projected => ~Feasible(proposed)
  /\ ~projected => safe = proposed
  /\ pc = "check" /\ ~projected => pass = 0
  /\ pc = "certify" /\ ~projected => Feasible(safe)
  /\ pc = "project" => projected
  /\ certificate.issued => (safe.blocked <=> certificate.emit_blocked)
  /\ certificate.issued /\ ~certificate.emit_blocked => Feasible(safe)
  /\ outcome = "emitted" =>
       certificate.issued /\ ~certificate.emit_blocked /\ safe.tx >= MinTxPower

\* Taking back a block that is not there changes nothing.
LEMMA Unblocked ==
  ASSUME NEW a \in Actions, ~a.blocked
  PROVE  [a EXCEPT !.blocked = FALSE] = a
BY DEF Actions

THEOREM Certified == Spec => []CertInv
<1>1. Init => CertInv
  BY ProposalAssumption DEF Init, CertInv, NoCertificate
<1>2. CertInv /\ TypeOK /\ [Next]_vars => CertInv'
  <2> SUFFICES ASSUME CertInv, TypeOK, [Next]_vars PROVE CertInv'
    OBVIOUS
  <2>1. CASE Check
    <3>1. \A a : Feasible(a)' <=> Feasible(a)
      BY <2>1 DEF Check, Feasible, InChain
    <3>2. CASE pc' = "certify"
      BY <2>1, <3>1, <3>2, LimitAssumption DEF Check, CertInv
    <3>3. CASE pc' = "project"
      BY <2>1, <3>1, <3>3 DEF Check, CertInv
    <3> QED BY <2>1, <3>2, <3>3 DEF Check
  <2>2. CASE ProjectNext
    <3>1. Feasible(proposed)' <=> Feasible(proposed)
      BY <2>2 DEF ProjectNext, Feasible, InChain
    <3>2. pc = "project" /\ projected /\ projected' /\ ~certificate.issued /\ outcome # "emitted"
      BY <2>2 DEF ProjectNext, CertInv
    <3>3. /\ pc' \in {"certify", "check", "project"}
          /\ pc' # "certify" => ~safe'.blocked
      BY <2>2 DEF ProjectNext
    <3> QED BY <2>2, <3>1, <3>2, <3>3 DEF ProjectNext, CertInv
  <2>3. CASE Certify
    <3> DEFINE violated == {id \in InChain : ~Satisfied(id, safe, ctx)}
               emit_blocked == safe.blocked \/ violated # {}
    <3>1. /\ certificate'.issued /\ (certificate'.emit_blocked <=> emit_blocked)
          /\ safe' = [safe EXCEPT !.blocked = emit_blocked]
          /\ pc' = "guard" /\ outcome' = outcome /\ pc = "certify"
          /\ UNCHANGED <<chain, ctx, proposed, projected>>
      BY <2>3 DEF Certify
    <3>2. safe'.blocked <=> emit_blocked
      BY <3>1 DEF TypeOK, Actions
    <3>3. ~emit_blocked => safe' = safe /\ Feasible(safe)
      <4> SUFFICES ASSUME ~emit_blocked PROVE safe' = safe /\ Feasible(safe)
        OBVIOUS
      <4>1. safe' = safe
        <5>1. ~safe.blocked /\ emit_blocked = FALSE
          OBVIOUS
        <5>2. safe' = [safe EXCEPT !.blocked = FALSE]
          BY <3>1, <5>1
        <5> QED BY <5>1, <5>2, Unblocked DEF TypeOK
      <4>2. Feasible(safe)
        BY DEF Feasible
      <4> QED BY <4>1, <4>2
    <3>4. ~projected => ~emit_blocked
      BY <3>1 DEF CertInv, Feasible
    <3>5. \A a : Feasible(a)' <=> Feasible(a)
      BY <3>1 DEF Feasible, InChain
    <3>6. ~certificate.issued /\ outcome # "emitted"
      BY <3>1 DEF CertInv
    <3> HIDE DEF emit_blocked
    <3> QED BY <3>1, <3>2, <3>3, <3>4, <3>5, <3>6 DEF CertInv
  <2>4. CASE Guard
    <3>1. \A a : Feasible(a)' <=> Feasible(a)
      BY <2>4 DEF Guard, Feasible, InChain
    <3>2. outcome' = "emitted" => ~certificate.emit_blocked /\ safe.tx >= MinTxPower
      BY <2>4, LimitAssumption, Fields DEF Guard, Refuses, TypeOK
    <3> QED BY <2>4, <3>1, <3>2 DEF Guard, CertInv
  <2>5. CASE UNCHANGED vars
    BY <2>5 DEF CertInv, vars, Feasible, InChain
  <2> QED BY <2>1, <2>2, <2>3, <2>4, <2>5 DEF Next
<1> QED BY <1>1, <1>2, TypeCorrect, PTL DEF Spec

\* What the guards let out satisfies every invariant of its chain, can be
\* transmitted and touches no warrant (emit_guards.py:46-68, pipeline.py:385-405).
THEOREM EmittedIsSafe == Spec => []EmittedSafe
<1>1. CertInv /\ TypeOK => EmittedSafe
  <2> SUFFICES ASSUME CertInv, TypeOK, outcome = "emitted" PROVE EmittedSafe
    BY DEF EmittedSafe
  <2>1. Feasible(safe) /\ ~safe.blocked /\ safe.tx >= MinTxPower
    BY DEF CertInv
  <2>2. safe.block = "neural_rx" /\ "neural_rx_envelope" \in InChain =>
          ctx.measured = "good" \/ ~ctx.required
    BY <2>1 DEF Feasible, Satisfied, EnvelopeHolds
  <2>3. "lawful_intercept" \in InChain /\ ctx.li = "rules" =>
          safe.ues \cap ProtectedUes = {} /\ ~safe.misplaced
    BY <2>1 DEF Feasible, Satisfied, LiConflict
  <2> QED BY <2>1, <2>2, <2>3 DEF EmittedSafe
<1> QED BY <1>1, Certified, TypeCorrect, PTL

\* A projection pass is entered exactly when the action comes back changed, as
\* the contract of is_feasible() has it (shield.py:100-118).
THEOREM ProjectedIsChanged == Spec => []ProjectedMeansChanged
<1>1. CertInv => ProjectedMeansChanged
  <2> SUFFICES ASSUME CertInv, certificate.issued PROVE projected <=> safe # proposed
    BY DEF ProjectedMeansChanged
  <2>1. CASE projected
    <3>1. CASE certificate.emit_blocked
      BY <2>1, <3>1 DEF CertInv
    <3>2. CASE ~certificate.emit_blocked
      BY <2>1, <3>2 DEF CertInv
    <3> QED BY <2>1, <3>1, <3>2
  <2>2. CASE ~projected
    BY <2>2 DEF CertInv
  <2> QED BY <2>1, <2>2
<1> QED BY <1>1, Certified, PTL

-----------------------------------------------------------------------------
(* How far the projected action is from the proposal.                      *)

\* Fields no projection touches.
SameFrame(a, b) ==
  /\ b.numeric = a.numeric /\ b.half = a.half /\ b.gain = a.gain
  /\ b.ntn = a.ntn /\ b.offset = a.offset
  /\ b.confident = a.confident /\ b.misplaced = a.misplaced

\* b is a with the changes the invariants in done may make.
PowerInv(a, b, done) ==
  /\ b.tx <= a.tx
  /\ b.tx # a.tx =>
       \/ "max_eirp" \in done /\ b.tx >= MaxEirp - a.gain - MaxError
       \/ "pfd_ceiling_ntn" \in done /\ a.ntn /\ b.tx >= MaxPfd - a.offset - MaxError

\* After a rounding error the carrier may be moved once more, to the far edge,
\* but only in a band that is no wider than the error.
CarrierInv(a, b, done) ==
  b.freq # a.freq =>
    /\ "spectral_mask_ts38104" \in done
    /\ \/ a.freq < Lowest(a) /\ (b.freq <= Lowest(a) + MaxError \/ Highest(a) - Lowest(a) <= MaxError)
       \/ a.freq > Highest(a) /\ (b.freq >= Highest(a) - MaxError \/ Highest(a) - Lowest(a) <= MaxError)

UesInv(a, b, done) ==
  /\ b.ues \subseteq a.ues /\ a.ues \ ProtectedUes \subseteq b.ues
  /\ b.ues # a.ues => "lawful_intercept" \in done

BlockInv(a, b, done) ==
  /\ b.block # a.block =>
       /\ b.block \in {"classical_lmmse", "classical_qam"}
       /\ done \cap {"neural_rx_envelope", "constellation_legality"} # {}
  /\ b.honest # a.honest => "neural_rx_envelope" \in done
  /\ b.order # a.order \/ b.papr # a.papr =>
       "constellation_legality" \in done /\ ~LegalConstellation(a)
  /\ a.order \in Orders => b.order = a.order

SliceInv(a, b, done) ==
  /\ b.share + b.pool = a.share + a.pool
  /\ b.share # a.share \/ b.pool # a.pool => "protected_slice_floor" \in done

Change(a, b, done) ==
  /\ SameFrame(a, b) /\ PowerInv(a, b, done) /\ CarrierInv(a, b, done)
  /\ UesInv(a, b, done) /\ BlockInv(a, b, done) /\ SliceInv(a, b, done)
  /\ Sane(a) => Sane(b)

\* Nothing changed is a change by nobody.
LEMMA NoChange ==
  ASSUME NEW a \in Actions
  PROVE  Change(a, a, {})
<1>1. a.tx <= a.tx
  BY Fields
<1> QED BY <1>1 DEF Change, SameFrame, PowerInv, CarrierInv, UesInv, BlockInv, SliceInv

\* One more projection, and its correction, keep an action in these limits.
LEMMA ProjectChanges ==
  ASSUME NEW a \in Actions, NEW s \in Actions, NEW c \in ContextRecords,
         NEW id \in Ids, NEW err \in Errors(id, s, c), NEW done,
         Change(a, s, done)
  PROVE  LET b == Project(id, s, c, err)
         IN Change(a, b, done \cup (IF Corrects(id, s, b, c) THEN {id} ELSE {}))
<1> DEFINE b == Project(id, s, c, err)
           more == done \cup (IF Corrects(id, s, b, c) THEN {id} ELSE {})
<1>0. err \in Int /\ -MaxError <= err /\ err <= MaxError /\ MaxError \in Nat
  BY ErrorsType, LimitAssumption
<1>1. b \in Actions
  BY <1>0, ProjectType
<1>2. done \subseteq more
  OBVIOUS
<1>3. /\ b.numeric = s.numeric /\ b.half = s.half /\ b.gain = s.gain
      /\ b.ntn = s.ntn /\ b.offset = s.offset
      /\ b.confident = s.confident /\ b.misplaced = s.misplaced
      /\ id # "spectral_mask_ts38104" => b.freq = s.freq
      /\ id \notin {"max_eirp", "pfd_ceiling_ntn"} => b.tx = s.tx
      /\ id \notin {"neural_rx_envelope", "constellation_legality"} =>
           b.block = s.block /\ b.fallback = s.fallback
      /\ id # "neural_rx_envelope" => b.honest = s.honest
      /\ id # "constellation_legality" => b.order = s.order /\ b.papr = s.papr
      /\ id # "protected_slice_floor" => b.share = s.share /\ b.pool = s.pool
      /\ id # "lawful_intercept" => b.ues = s.ues
  BY <1>0, ProjectOwns
<1>4. SameFrame(a, b)
  BY <1>3 DEF Change, SameFrame
<1>5. PowerInv(a, b, more)
  <2>1. CASE id = "max_eirp"
    <3>1. Corrects(id, s, b, c) <=> ~(EirpOver(s) <= 0)
      BY <2>1 DEF Corrects, Satisfied
    <3>2. b.tx = IF EirpOver(s) > 0 THEN Least(s.tx, s.tx - EirpOver(s) + err) ELSE s.tx
      BY <2>1 DEF Project, CutPower, Actions
    <3> HIDE DEF b
    <3> QED BY <2>1, <3>1, <3>2, <1>0, Fields, LimitAssumption
            DEF PowerInv, Change, SameFrame, EirpOver, Least
  <2>2. CASE id = "pfd_ceiling_ntn"
    <3>1. Corrects(id, s, b, c) <=> ~(s.ntn => PfdOver(s) <= 0)
      BY <2>2 DEF Corrects, Satisfied
    <3>2. b.tx = IF s.ntn /\ PfdOver(s) > 0 THEN Least(s.tx, s.tx - PfdOver(s) + err) ELSE s.tx
      BY <2>2 DEF Project, CutPower, Actions
    <3> HIDE DEF b
    <3> QED BY <2>2, <3>1, <3>2, <1>0, Fields, LimitAssumption
            DEF PowerInv, Change, SameFrame, PfdOver, Least
  <2>3. CASE id \notin {"max_eirp", "pfd_ceiling_ntn"}
    BY <2>3, <1>2, <1>3 DEF PowerInv, Change
  <2> QED BY <2>1, <2>2, <2>3
<1>6. CarrierInv(a, b, more)
  <2>1. CASE id = "spectral_mask_ts38104"
    <3>1. b.freq # s.freq => id \in more
      BY <2>1 DEF Corrects
    <3>2. b.freq # s.freq =>
            \/ s.freq < Lowest(s) /\ b.freq = Lowest(s) + err
            \/ s.freq > Highest(s) /\ b.freq = Highest(s) + err
      BY <2>1 DEF Project, PlaceCarrier, Blocked, Actions
    <3>3. Lowest(s) = Lowest(a) /\ Highest(s) = Highest(a)
      BY DEF Change, SameFrame, Lowest, Highest
    <3>4. Lowest(a) \in Int /\ Highest(a) \in Int /\ s.freq \in Int /\ a.freq \in Int
      BY Fields, LimitAssumption DEF Lowest, Highest
    <3> HIDE DEF b, more
    <3>5. CASE b.freq = s.freq
      BY <2>1, <3>5, <1>2 DEF CarrierInv, Change
    <3>6. CASE b.freq # s.freq /\ s.freq = a.freq
      BY <2>1, <3>1, <3>2, <3>3, <3>4, <3>6, <1>0 DEF CarrierInv
    <3>7. CASE b.freq # s.freq /\ s.freq # a.freq
      BY <2>1, <3>1, <3>2, <3>3, <3>4, <3>7, <1>0 DEF CarrierInv, Change
    <3> QED BY <3>5, <3>6, <3>7
  <2>2. CASE id # "spectral_mask_ts38104"
    BY <2>2, <1>2, <1>3 DEF CarrierInv, Change
  <2> QED BY <2>1, <2>2
<1>7. UesInv(a, b, more)
  <2>1. CASE id = "lawful_intercept"
    <3>1. b.ues = IF c.li = "rules" THEN s.ues \ ProtectedUes ELSE s.ues
      BY <2>1 DEF Project, StripUes, Actions
    <3>2. b.ues # s.ues => id \in more
      BY <2>1, <3>1 DEF Corrects, Satisfied, LiConflict
    <3> HIDE DEF b, more
    <3> QED BY <2>1, <3>1, <3>2, <1>2 DEF UesInv, Change
  <2>2. CASE id # "lawful_intercept"
    BY <2>2, <1>2, <1>3 DEF UesInv, Change
  <2> QED BY <2>1, <2>2
<1>8. SliceInv(a, b, more)
  <2>1. CASE id = "protected_slice_floor"
    <3>1. \/ b.share = s.share /\ b.pool = s.pool
          \/ ~AboveFloor(s) /\ b.share + b.pool = s.share + s.pool
      BY <2>1, Fields, LimitAssumption DEF Project, RestoreFloor, Least, Actions
    <3>2. ~AboveFloor(s) => id \in more
      BY <2>1 DEF Corrects, Satisfied
    <3> HIDE DEF b, more
    <3> QED BY <2>1, <3>1, <3>2, <1>2 DEF SliceInv, Change
  <2>2. CASE id # "protected_slice_floor"
    BY <2>2, <1>2, <1>3 DEF SliceInv, Change
  <2> QED BY <2>1, <2>2
<1>9. BlockInv(a, b, more)
  <2>1. CASE id = "neural_rx_envelope"
    <3>1. EnvelopeHolds(s, c) \/ c.measured = "malformed" => b.block = s.block /\ b.honest = s.honest
      BY <2>1 DEF Project, ReplaceReceiver, Blocked, Actions
    <3>2. b.block = s.block \/ b.block = "classical_lmmse"
      BY <2>1 DEF Project, ReplaceReceiver, Blocked, FallBack, Actions
    <3>3. ~EnvelopeHolds(s, c) => id \in more
      BY <2>1 DEF Corrects, Satisfied
    <3> HIDE DEF b, more
    <3> QED BY <2>1, <3>1, <3>2, <3>3, <1>2, <1>3 DEF BlockInv, Change
  <2>2. CASE id = "constellation_legality"
    <3>1. LegalConstellation(s) => b.block = s.block /\ b.order = s.order /\ b.papr = s.papr
      BY <2>2 DEF Project, LegaliseConstellation
    <3>2. ~LegalConstellation(s) =>
            id \in more /\ b.block = "classical_qam" /\ (s.order \in Orders => b.order = s.order)
      BY <2>2 DEF Project, LegaliseConstellation, FallBack, Actions, Corrects, Satisfied
    <3>3. ~LegalConstellation(s) => ~LegalConstellation(a)
      <4> SUFFICES ASSUME ~LegalConstellation(s), LegalConstellation(a) PROVE FALSE
        OBVIOUS
      <4>1. s.order = a.order /\ s.papr = a.papr
        BY DEF Change, BlockInv
      <4>2. HasConstellation(s) => HasConstellation(a)
        BY <4>1 DEF HasConstellation, Change, BlockInv
      <4> QED BY <4>1, <4>2 DEF LegalConstellation
    <3> HIDE DEF b, more
    <3> QED BY <2>2, <3>1, <3>2, <3>3, <1>2, <1>3 DEF BlockInv, Change
  <2>3. CASE id \notin {"neural_rx_envelope", "constellation_legality"}
    BY <2>3, <1>2, <1>3 DEF BlockInv, Change
  <2> QED BY <2>1, <2>2, <2>3
<1>10. Sane(a) => Sane(b)
  <2> SUFFICES ASSUME Sane(s) PROVE Sane(b)
    BY DEF Change
  <2>1. b.freq > 0
    <3>1. CASE id = "spectral_mask_ts38104"
      <4>1. CASE TooWide(s)
        BY <3>1, <4>1 DEF Project, PlaceCarrier, Blocked, Actions, Sane
      <4>2. CASE ~TooWide(s)
        <5>1. Lowest(s) + err > 0 /\ Highest(s) + err > 0
          BY <4>2, <1>0, Fields, LimitAssumption DEF TooWide, Lowest, Highest, Sane
        <5>2. b.freq = s.freq \/ b.freq = Lowest(s) + err \/ b.freq = Highest(s) + err
          BY <3>1, <4>2 DEF Project, PlaceCarrier, Actions
        <5> QED BY <5>1, <5>2 DEF Sane
      <4> QED BY <4>1, <4>2
    <3>2. CASE id # "spectral_mask_ts38104"
      BY <3>2, <1>3 DEF Sane
    <3> QED BY <3>1, <3>2
  <2>2. b.order >= 0 /\ b.papr >= 0
    <3>1. CASE id = "constellation_legality"
      <4>1. b.order = s.order \/ b.order = Snap(s.order)
        BY <3>1 DEF Project, LegaliseConstellation, FallBack, Actions
      <4>2. Snap(s.order) \in Orders /\ \A o \in Orders : o \in Nat
        BY SnapAllowed, Fields, OrdersAssumption
      <4>3. b.papr = s.papr \/ b.papr = Least(s.papr, MaxPapr)
        BY <3>1 DEF Project, LegaliseConstellation, FallBack, Actions
      <4> HIDE DEF b
      <4>4. b.order >= 0
        BY <4>1, <4>2 DEF Sane
      <4>5. b.papr >= 0
        BY <4>3, Fields, LimitAssumption DEF Sane, Least
      <4> QED BY <4>4, <4>5
    <3>2. CASE id # "constellation_legality"
      BY <3>2, <1>3 DEF Sane
    <3> QED BY <3>1, <3>2
  <2> QED BY <2>1, <2>2, <1>3 DEF Sane
<1> HIDE DEF b, more
<1>11. Change(a, b, more)
  BY <1>4, <1>5, <1>6, <1>7, <1>8, <1>9, <1>10 DEF Change
<1> QED BY <1>11 DEF b, more

\* An invariant reports its first correction only if the proposal violates it:
\* no other projection makes an action violate what the proposal satisfied.
LEMMA CorrectsFaulted ==
  ASSUME NEW a \in Actions, NEW s \in Actions, NEW c \in ContextRecords,
         NEW id \in Ids, NEW err \in Int, NEW done, Change(a, s, done), id \notin done,
         Corrects(id, s, Project(id, s, c, err), c)
  PROVE  ~Satisfied(id, a, c)
<1>1. CASE id = "numeric_domain_sanity"
  BY <1>1 DEF Corrects, Satisfied, Change
<1>2. CASE id = "lawful_intercept"
  <2>1. LiConflict(s, c)
    BY <1>2 DEF Corrects, Satisfied
  <2>2. s.ues \subseteq a.ues /\ s.misplaced = a.misplaced
    BY DEF Change, UesInv, SameFrame
  <2>3. LiConflict(a, c)
    BY <2>1, <2>2 DEF LiConflict
  <2> QED BY <1>2, <2>3 DEF Satisfied
<1>3. CASE id = "spectral_mask_ts38104"
  <2>1. s.freq = a.freq /\ s.half = a.half
    BY <1>3 DEF Change, CarrierInv, SameFrame
  <2>2. TooWide(s) \/ s.freq < Lowest(s) \/ s.freq > Highest(s)
    <3> SUFFICES ASSUME ~TooWide(s), ~(s.freq < Lowest(s)), ~(s.freq > Highest(s)) PROVE FALSE
      OBVIOUS
    <3>1. Project(id, s, c, err) = [s EXCEPT !.freq = s.freq]
      BY <1>3 DEF Project, PlaceCarrier, Actions
    <3>2. Project(id, s, c, err) = s
      BY <3>1 DEF Actions
    <3> QED BY <1>3, <3>2 DEF Corrects
  <2>3. ~InBand(a)
    BY <2>1, <2>2, Fields, LimitAssumption DEF TooWide, Lowest, Highest, InBand
  <2> QED BY <1>3, <2>3 DEF Satisfied
<1>4. CASE id = "max_eirp"
  <2>1. ~(EirpOver(s) <= 0)
    BY <1>4 DEF Corrects, Satisfied
  <2>2. s.tx <= a.tx /\ s.gain = a.gain
    BY DEF Change, PowerInv, SameFrame
  <2>3. ~(EirpOver(a) <= 0)
    BY <2>1, <2>2, Fields, LimitAssumption DEF EirpOver
  <2> QED BY <1>4, <2>3 DEF Satisfied
<1>5. CASE id = "pfd_ceiling_ntn"
  <2>1. s.ntn /\ ~(PfdOver(s) <= 0)
    BY <1>5 DEF Corrects, Satisfied
  <2>2. s.tx <= a.tx /\ s.offset = a.offset /\ s.ntn = a.ntn
    BY DEF Change, PowerInv, SameFrame
  <2>3. ~(PfdOver(a) <= 0)
    BY <2>1, <2>2, Fields, LimitAssumption DEF PfdOver
  <2> QED BY <1>5, <2>1, <2>2, <2>3 DEF Satisfied
<1>6. CASE id = "protected_slice_floor"
  <2>1. ~AboveFloor(s)
    BY <1>6 DEF Corrects, Satisfied
  <2>2. s.share = a.share /\ s.pool = a.pool
    BY <1>6 DEF Change, SliceInv
  <2> QED BY <1>6, <2>1, <2>2 DEF Satisfied, AboveFloor, HasAllocation
<1>7. CASE id = "neural_rx_envelope"
  <2>1. ~EnvelopeHolds(s, c)
    BY <1>7 DEF Corrects, Satisfied
  <2>2. s.block = "neural_rx"
    BY <2>1 DEF EnvelopeHolds
  <2>3. a.block = s.block /\ a.honest = s.honest /\ a.confident = s.confident
    BY <1>7, <2>2 DEF Change, BlockInv, SameFrame
  <2> QED BY <1>7, <2>1, <2>3 DEF Satisfied, EnvelopeHolds
<1>8. CASE id = "constellation_legality"
  <2>1. ~LegalConstellation(s)
    BY <1>8 DEF Corrects, Satisfied
  <2>2. s.order = a.order /\ s.papr = a.papr
    BY <1>8 DEF Change, BlockInv
  <2>3. HasConstellation(s) => HasConstellation(a)
    BY <2>2 DEF HasConstellation, Change, BlockInv
  <2> QED BY <1>8, <2>1, <2>2, <2>3 DEF Satisfied, LegalConstellation
<1> QED BY <1>1, <1>2, <1>3, <1>4, <1>5, <1>6, <1>7, <1>8 DEF Ids

ChangeInv ==
  /\ Change(proposed, safe, corrections)
  /\ \A id \in corrections : ~Satisfied(id, proposed, ctx)

\* At every moment of dispose() the action is the proposal with the changes of
\* invariants that it violated, within the limits of Change.
THEOREM ChangesBounded == Spec => []ChangeInv
<1>1. Init => ChangeInv
  BY NoChange, ProposalAssumption DEF Init, ChangeInv
<1>2. ChangeInv /\ TypeOK /\ [Next]_vars => ChangeInv'
  <2> SUFFICES ASSUME ChangeInv, TypeOK, [Next]_vars PROVE ChangeInv'
    OBVIOUS
  <2>1. CASE ProjectNext
    <3>1. PICK err \in Errors(chain[at], safe, ctx) :
            safe' = Project(chain[at], safe, ctx, err)
      BY <2>1 DEF ProjectNext
    <3>2. corrections' = corrections \cup
            (IF Corrects(chain[at], safe, safe', ctx) THEN {chain[at]} ELSE {})
      BY <2>1 DEF ProjectNext
    <3>3. chain[at] \in Ids /\ err \in Int
      BY ChainType, ErrorsType DEF TypeOK
    <3>4. proposed \in Actions /\ safe \in Actions /\ ctx \in ContextRecords
      BY DEF TypeOK
    <3>5. UNCHANGED <<proposed, ctx>>
      BY <2>1 DEF ProjectNext
    <3>6. Change(proposed, safe', corrections')
      BY <3>1, <3>2, <3>3, <3>4, ProjectChanges DEF ChangeInv
    <3>7. Corrects(chain[at], safe, safe', ctx) /\ chain[at] \notin corrections =>
            ~Satisfied(chain[at], proposed, ctx)
      BY <3>1, <3>3, <3>4, CorrectsFaulted DEF ChangeInv
    <3>8. \A id \in corrections' : ~Satisfied(id, proposed, ctx)
      BY <3>2, <3>7 DEF ChangeInv
    <3> QED BY <3>5, <3>6, <3>8 DEF ChangeInv
  <2>2. CASE Certify
    <3>1. PICK x \in BOOLEAN : safe' = [safe EXCEPT !.blocked = x]
      BY <2>2 DEF Certify, TypeOK, Actions
    <3>2. /\ safe'.numeric = safe.numeric /\ safe'.freq = safe.freq /\ safe'.half = safe.half
          /\ safe'.tx = safe.tx /\ safe'.gain = safe.gain /\ safe'.ntn = safe.ntn
          /\ safe'.offset = safe.offset /\ safe'.block = safe.block
          /\ safe'.order = safe.order /\ safe'.papr = safe.papr
          /\ safe'.confident = safe.confident /\ safe'.honest = safe.honest
          /\ safe'.share = safe.share /\ safe'.pool = safe.pool
          /\ safe'.ues = safe.ues /\ safe'.misplaced = safe.misplaced
      BY <3>1 DEF TypeOK, Actions
    <3>3. UNCHANGED <<proposed, ctx, corrections>>
      BY <2>2 DEF Certify
    <3>4. Change(proposed, safe', corrections)
      BY <3>2 DEF ChangeInv, Change, SameFrame, PowerInv, CarrierInv, UesInv, BlockInv,
                  SliceInv, Sane
    <3> QED BY <3>3, <3>4 DEF ChangeInv
  <2>3. CASE Check \/ Guard \/ UNCHANGED vars
    BY <2>3 DEF Check, Guard, vars, ChangeInv
  <2> QED BY <2>1, <2>2, <2>3 DEF Next
<1> QED BY <1>1, <1>2, TypeCorrect, PTL DEF Spec

\* No change without a correction that owns it, and no correction of what was
\* right (the corrections of shield.py:150-163 and of every project()).
THEOREM ChangesAreAudited == Spec => []ChangesAudited
<1>1. ChangeInv => ChangesAudited
  BY DEF ChangeInv, ChangesAudited, Audited, Change, PowerInv, CarrierInv, UesInv,
         BlockInv, SliceInv
<1> QED BY <1>1, ChangesBounded, PTL

\* What the Shield certifies is the proposal changed as little as the ceilings
\* and the band demand, up to one rounding error (invariants.py:189-223,
\* 253-269, 446-465).
THEOREM CertifiedIsLeastChange == Spec => []LeastChange
<1>1. ChangeInv /\ CertInv /\ TypeOK => LeastChange
  <2> SUFFICES ASSUME ChangeInv, CertInv, TypeOK,
                      certificate.issued, ~certificate.emit_blocked
               PROVE  LeastChange
    BY DEF LeastChange
  <2>1. Change(proposed, safe, corrections) /\ corrections \subseteq InChain /\ Feasible(safe)
    BY DEF ChangeInv, TypeOK, CertInv
  <2>2. safe.freq # proposed.freq =>
          \/ proposed.freq < Lowest(proposed) /\ safe.freq <= Lowest(proposed) + MaxError
          \/ proposed.freq > Highest(proposed) /\ safe.freq >= Highest(proposed) - MaxError
    <3> SUFFICES ASSUME safe.freq # proposed.freq
                 PROVE
                   \/ proposed.freq < Lowest(proposed) /\ safe.freq <= Lowest(proposed) + MaxError
                   \/ proposed.freq > Highest(proposed) /\ safe.freq >= Highest(proposed) - MaxError
      OBVIOUS
    <3>1. "spectral_mask_ts38104" \in InChain
      BY <2>1 DEF Change, CarrierInv
    <3>2. InBand(safe) /\ safe.half = proposed.half
      BY <2>1, <3>1 DEF Feasible, Satisfied, Change, SameFrame
    <3>3. Lowest(proposed) <= safe.freq /\ safe.freq <= Highest(proposed)
      BY <3>2, Fields, LimitAssumption DEF InBand, Lowest, Highest, TypeOK
    <3>4. /\ Lowest(proposed) \in Int /\ Highest(proposed) \in Int
          /\ safe.freq \in Int /\ MaxError \in Nat
      BY Fields, LimitAssumption DEF Lowest, Highest, TypeOK
    <3> QED BY <2>1, <3>3, <3>4 DEF Change, CarrierInv
  <2>3. /\ \/ safe.tx = proposed.tx
           \/ "max_eirp" \in InChain /\ safe.tx >= MaxEirp - proposed.gain - MaxError
           \/ /\ "pfd_ceiling_ntn" \in InChain /\ proposed.ntn
              /\ safe.tx >= MaxPfd - proposed.offset - MaxError
        /\ safe.tx <= proposed.tx
    BY <2>1 DEF Change, PowerInv
  <2>4. /\ proposed.ues \ ProtectedUes \subseteq safe.ues
        /\ proposed.order \in Orders => safe.order = proposed.order
        /\ safe.share + safe.pool = proposed.share + proposed.pool
    BY <2>1 DEF Change, UesInv, BlockInv, SliceInv
  <2> QED BY <2>2, <2>3, <2>4 DEF LeastChange
<1> QED BY <1>1, ChangesBounded, Certified, TypeCorrect, PTL

-----------------------------------------------------------------------------
(* The verdict: what is blocked, and what the certificate calls a fallback. *)

\* A projection takes nothing away that was achieved: an invariant that holds
\* of an action holds of what any project() without rounding error makes of it.
LEMMA ProjectKeeps ==
  ASSUME NEW s \in Actions, NEW c \in ContextRecords, NEW id \in Ids, NEW other \in Ids,
         Satisfied(other, s, c)
  PROVE  Satisfied(other, Project(id, s, c, 0), c)
<1> DEFINE b == Project(id, s, c, 0)
           X == IF Corrects(id, s, b, c) THEN {id} ELSE {}
<1>1. 0 \in Errors(id, s, c)
  BY LimitAssumption DEF Errors
<1>2. b \in Actions
  BY ProjectType
<1>3. Change(s, b, X)
  <2>1. Change(s, b, {} \cup X)
    BY <1>1, NoChange, ProjectChanges
  <2> QED BY <2>1
<1>4. X \subseteq {id}
  OBVIOUS
<1> HIDE DEF X
<1>5. CASE other = "numeric_domain_sanity"
  BY <1>3, <1>5 DEF Change, Satisfied
<1>6. CASE other = "lawful_intercept"
  <2>1. b.ues \subseteq s.ues /\ b.misplaced = s.misplaced
    BY <1>3 DEF Change, UesInv, SameFrame
  <2>2. ~LiConflict(s, c)
    BY <1>6 DEF Satisfied
  <2> HIDE DEF b
  <2>3. ~LiConflict(b, c)
    BY <2>1, <2>2 DEF LiConflict
  <2> QED BY <1>6, <2>3 DEF Satisfied, b
<1>7. CASE other = "spectral_mask_ts38104"
  <2>1. InBand(s)
    BY <1>7 DEF Satisfied
  <2>2. b.freq = s.freq
    <3>1. CASE id = "spectral_mask_ts38104"
      <4>1. ~(s.freq < Lowest(s)) /\ ~(s.freq > Highest(s)) /\ ~TooWide(s)
        BY <2>1, Fields, LimitAssumption DEF InBand, Lowest, Highest, TooWide
      <4> QED BY <3>1, <4>1 DEF Project, PlaceCarrier, Actions
    <3>2. CASE id # "spectral_mask_ts38104"
      BY <3>2, ProjectOwns
    <3> QED BY <3>1, <3>2
  <2>3. b.half = s.half
    BY <1>3 DEF Change, SameFrame
  <2> HIDE DEF b
  <2> QED BY <1>7, <2>1, <2>2, <2>3 DEF Satisfied, InBand, b
<1>8. CASE other = "max_eirp"
  <2>1. EirpOver(s) <= 0
    BY <1>8 DEF Satisfied
  <2>2. b.tx <= s.tx /\ b.gain = s.gain
    BY <1>3 DEF Change, PowerInv, SameFrame
  <2> HIDE DEF b
  <2>3. EirpOver(b) <= 0
    BY <1>2, <2>1, <2>2, Fields, LimitAssumption DEF EirpOver
  <2> QED BY <1>8, <2>3 DEF Satisfied, b
<1>9. CASE other = "pfd_ceiling_ntn"
  <2>1. s.ntn => PfdOver(s) <= 0
    BY <1>9 DEF Satisfied
  <2>2. b.tx <= s.tx /\ b.offset = s.offset /\ b.ntn = s.ntn
    BY <1>3 DEF Change, PowerInv, SameFrame
  <2> HIDE DEF b
  <2>3. b.ntn => PfdOver(b) <= 0
    BY <1>2, <2>1, <2>2, Fields, LimitAssumption DEF PfdOver
  <2> QED BY <1>9, <2>3 DEF Satisfied, b
<1>10. CASE other = "protected_slice_floor"
  <2>1. AboveFloor(s)
    BY <1>10 DEF Satisfied
  <2>2. b.share = s.share /\ b.pool = s.pool
    <3>1. CASE id = "protected_slice_floor"
      BY <2>1, <3>1 DEF Project, RestoreFloor
    <3>2. CASE id # "protected_slice_floor"
      BY <3>2, ProjectOwns
    <3> QED BY <3>1, <3>2
  <2> HIDE DEF b
  <2> QED BY <1>10, <2>1, <2>2 DEF Satisfied, AboveFloor, HasAllocation, b
<1>11. CASE other = "neural_rx_envelope"
  <2>1. EnvelopeHolds(s, c)
    BY <1>11 DEF Satisfied
  <2>2. b.block = "neural_rx" => s.block = "neural_rx"
    BY <1>3 DEF Change, BlockInv
  <2>3. b.honest = s.honest /\ b.confident = s.confident
    <3>1. CASE id = "neural_rx_envelope"
      BY <2>1, <3>1 DEF Project, ReplaceReceiver
    <3>2. CASE id # "neural_rx_envelope"
      BY <3>2, ProjectOwns
    <3> QED BY <3>1, <3>2
  <2> HIDE DEF b
  <2> QED BY <1>11, <2>1, <2>2, <2>3 DEF Satisfied, EnvelopeHolds, b
<1>12. CASE other = "constellation_legality"
  <2>1. LegalConstellation(s)
    BY <1>12 DEF Satisfied
  <2>2. b.order = s.order /\ b.papr = s.papr
    BY <1>3, <2>1 DEF Change, BlockInv
  <2>3. b.block = "learned_constellation" => s.block = "learned_constellation"
    BY <1>3 DEF Change, BlockInv
  <2> HIDE DEF b
  <2> QED BY <1>12, <2>1, <2>2, <2>3
          DEF Satisfied, LegalConstellation, HasConstellation, b
<1> QED BY <1>5, <1>6, <1>7, <1>8, <1>9, <1>10, <1>11, <1>12 DEF Ids

\* What keeps one invariant's own project() from mending an action.
Beyond(id, a, c) ==
  \/ id = "numeric_domain_sanity" /\ ~Sane(a)
  \/ id = "lawful_intercept" /\ (c.li = "fail_closed" \/ (c.li = "rules" /\ a.misplaced))
  \/ id = "spectral_mask_ts38104" /\ TooWide(a)
  \/ id = "protected_slice_floor" /\ ~AboveFloor(a) /\ a.share + a.pool < Floor
  \/ id = "neural_rx_envelope" /\ a.block = "neural_rx" /\ c.measured = "malformed"

\* A project() without rounding error establishes its invariant, and blocks
\* nothing, unless the action is beyond it.
LEMMA ProjectMends ==
  ASSUME NEW s \in Actions, NEW c \in ContextRecords, NEW id \in Ids,
         ~Beyond(id, s, c)
  PROVE  Satisfied(id, Project(id, s, c, 0), c)
<1> DEFINE b == Project(id, s, c, 0)
<1>0. b \in Actions
  BY ProjectType
<1>1. CASE id = "numeric_domain_sanity"
  BY <1>1 DEF Beyond, Satisfied, Project
<1>2. CASE id = "lawful_intercept"
  <2>1. b.ues = IF c.li = "rules" THEN s.ues \ ProtectedUes ELSE s.ues
    BY <1>2 DEF Project, StripUes, Actions
  <2>2. b.misplaced = s.misplaced
    BY ProjectOwns
  <2> HIDE DEF b
  <2>3. ~LiConflict(b, c)
    BY <1>2, <2>1, <2>2 DEF Beyond, LiConflict
  <2> QED BY <1>2, <2>3 DEF Satisfied, b
<1>3. CASE id = "spectral_mask_ts38104"
  <2>1. ~TooWide(s)
    BY <1>3 DEF Beyond
  <2>2. b.freq = IF s.freq < Lowest(s) THEN Lowest(s) + 0
                 ELSE IF s.freq > Highest(s) THEN Highest(s) + 0 ELSE s.freq
    BY <1>3, <2>1 DEF Project, PlaceCarrier, Actions
  <2>3. b.half = s.half
    BY ProjectOwns
  <2> HIDE DEF b
  <2>4. InBand(b)
    BY <2>1, <2>2, <2>3, Fields, LimitAssumption DEF InBand, TooWide, Lowest, Highest
  <2> QED BY <1>3, <2>4 DEF Satisfied, b
<1>4. CASE id = "max_eirp"
  <2>1. b.tx = IF EirpOver(s) > 0 THEN Least(s.tx, s.tx - EirpOver(s) + 0) ELSE s.tx
    BY <1>4 DEF Project, CutPower, Actions
  <2>2. b.gain = s.gain
    BY ProjectOwns
  <2> HIDE DEF b
  <2>3. EirpOver(b) <= 0
    BY <2>1, <2>2, Fields, LimitAssumption DEF EirpOver, Least
  <2> QED BY <1>4, <2>3 DEF Satisfied, b
<1>5. CASE id = "pfd_ceiling_ntn"
  <2>1. b.tx = IF s.ntn /\ PfdOver(s) > 0
               THEN Least(s.tx, s.tx - PfdOver(s) + 0) ELSE s.tx
    BY <1>5 DEF Project, CutPower, Actions
  <2>2. b.offset = s.offset /\ b.ntn = s.ntn
    BY ProjectOwns
  <2> HIDE DEF b
  <2>3. b.ntn => PfdOver(b) <= 0
    BY <2>1, <2>2, Fields, LimitAssumption DEF PfdOver, Least
  <2> QED BY <1>5, <2>3 DEF Satisfied, b
<1>6. CASE id = "protected_slice_floor"
  <2>1. CASE AboveFloor(s)
    BY <1>6, <2>1 DEF Project, RestoreFloor, Satisfied
  <2>2. CASE ~AboveFloor(s)
    <3>1. ~(s.share + s.pool < Floor)
      BY <1>6, <2>2 DEF Beyond
    <3>2. b.share = s.share + Least(s.pool, Floor - s.share)
      BY <1>6, <2>2 DEF Project, RestoreFloor, Actions
    <3> HIDE DEF b
    <3>3. b.share >= Floor
      BY <3>1, <3>2, Fields, LimitAssumption DEF Least
    <3> QED BY <1>6, <3>3 DEF Satisfied, AboveFloor, b
  <2> QED BY <2>1, <2>2
<1>7. CASE id = "neural_rx_envelope"
  <2>1. CASE EnvelopeHolds(s, c)
    BY <1>7, <2>1 DEF Project, ReplaceReceiver, Satisfied
  <2>2. CASE ~EnvelopeHolds(s, c)
    <3>1. c.measured # "malformed"
      BY <1>7, <2>2 DEF Beyond, EnvelopeHolds
    <3>2. b.block = "classical_lmmse"
      BY <1>7, <2>2, <3>1 DEF Project, ReplaceReceiver, FallBack, Actions
    <3> HIDE DEF b
    <3> QED BY <1>7, <3>2 DEF Satisfied, EnvelopeHolds, b
  <2> QED BY <2>1, <2>2
<1>8. CASE id = "constellation_legality"
  <2>1. CASE LegalConstellation(s)
    BY <1>8, <2>1 DEF Project, LegaliseConstellation, Satisfied
  <2>2. CASE ~LegalConstellation(s)
    <3>1. /\ b.order = IF s.order \in Orders THEN s.order ELSE Snap(s.order)
          /\ b.papr = Least(s.papr, MaxPapr)
      BY <1>8, <2>2 DEF Project, LegaliseConstellation, FallBack, Actions
    <3>2. Snap(s.order) \in Orders
      BY SnapAllowed, Fields
    <3> HIDE DEF b
    <3>3. b.order \in Orders
      BY <3>1, <3>2
    <3>4. b.papr <= MaxPapr
      BY <3>1, Fields, LimitAssumption DEF Least
    <3> QED BY <1>8, <3>3, <3>4 DEF Satisfied, LegalConstellation, b
  <2> QED BY <2>1, <2>2
<1> QED BY <1>1, <1>2, <1>3, <1>4, <1>5, <1>6, <1>7, <1>8 DEF Ids

\* project() blocks only an action that is beyond its invariant.
LEMMA ProjectBlocks ==
  ASSUME NEW s \in Actions, NEW c \in ContextRecords, NEW id \in Ids, NEW err \in Int,
         ~s.blocked, ~Beyond(id, s, c)
  PROVE  ~Project(id, s, c, err).blocked
<1>1. CASE id = "numeric_domain_sanity"
  BY <1>1 DEF Project, Beyond
<1>2. CASE id = "lawful_intercept"
  BY <1>2 DEF Project, StripUes, Actions
<1>3. CASE id = "spectral_mask_ts38104"
  BY <1>3 DEF Project, PlaceCarrier, Beyond, Actions
<1>4. CASE id = "max_eirp"
  BY <1>4 DEF Project, CutPower, Actions
<1>5. CASE id = "pfd_ceiling_ntn"
  BY <1>5 DEF Project, CutPower, Actions
<1>6. CASE id = "protected_slice_floor"
  BY <1>6 DEF Project, RestoreFloor, Actions
<1>7. CASE id = "neural_rx_envelope"
  <2>1. EnvelopeHolds(s, c) \/ c.measured # "malformed"
    BY <1>7 DEF Beyond, EnvelopeHolds
  <2> QED BY <1>7, <2>1 DEF Project, ReplaceReceiver, FallBack, Actions
<1>8. CASE id = "constellation_legality"
  BY <1>8 DEF Project, LegaliseConstellation, FallBack, Actions
<1> QED BY <1>1, <1>2, <1>3, <1>4, <1>5, <1>6, <1>7, <1>8 DEF Ids

\* A fallback names the block in force, and receiver and constellation change
\* only together with a fall back to a classical block.
LEMMA ProjectFallsBack ==
  ASSUME NEW s \in Actions, NEW c \in ContextRecords, NEW id \in Ids, NEW err \in Int,
         s.fallback # "none" => s.block = s.fallback
  PROVE  LET b == Project(id, s, c, err)
         IN /\ b.fallback # "none" => b.block = b.fallback
            /\ \/ b.block = s.block /\ b.order = s.order /\ b.papr = s.papr
               \/ b.block \in {"classical_lmmse", "classical_qam"}
            /\ id = "constellation_legality" /\ ~LegalConstellation(s) =>
                 b.block = "classical_qam"
            /\ id = "neural_rx_envelope" /\ s.block = "neural_rx" /\
                 c.measured = "malformed" => b.blocked
<1>1. CASE id = "neural_rx_envelope"
  <2>1. CASE EnvelopeHolds(s, c)
    BY <1>1, <2>1 DEF Project, ReplaceReceiver, EnvelopeHolds
  <2>2. CASE ~EnvelopeHolds(s, c) /\ c.measured = "malformed"
    BY <1>1, <2>2 DEF Project, ReplaceReceiver, Blocked, Actions
  <2>3. CASE ~EnvelopeHolds(s, c) /\ c.measured # "malformed"
    BY <1>1, <2>3 DEF Project, ReplaceReceiver, FallBack, Actions
  <2> QED BY <2>1, <2>2, <2>3
<1>2. CASE id = "constellation_legality"
  <2>1. CASE LegalConstellation(s)
    BY <1>2, <2>1 DEF Project, LegaliseConstellation
  <2>2. CASE ~LegalConstellation(s)
    BY <1>2, <2>2 DEF Project, LegaliseConstellation, FallBack, Actions
  <2> QED BY <2>1, <2>2
<1>3. CASE id \notin {"neural_rx_envelope", "constellation_legality"}
  BY <1>3, ProjectOwns
<1> QED BY <1>1, <1>2, <1>3

\* A slice that cannot reach its floor stays below it.
LEMMA ProjectShort ==
  ASSUME NEW s \in Actions, NEW c \in ContextRecords, NEW id \in Ids, NEW err \in Int,
         ~AboveFloor(s), s.share + s.pool < Floor
  PROVE  LET b == Project(id, s, c, err)
         IN ~AboveFloor(b) /\ b.share + b.pool < Floor
<1> DEFINE b == Project(id, s, c, err)
<1>1. CASE id = "protected_slice_floor"
  <2>1. /\ b.share = s.share + Least(s.pool, Floor - s.share)
        /\ b.pool = s.pool - Least(s.pool, Floor - s.share)
    BY <1>1 DEF Project, RestoreFloor, Actions
  <2> HIDE DEF b
  <2>2. b.pool = 0 /\ b.share = s.share + s.pool
    BY <2>1, Fields, LimitAssumption DEF Least
  <2>3. ~AboveFloor(b) /\ b.share + b.pool < Floor
    BY <2>2, Fields, LimitAssumption DEF AboveFloor, HasAllocation
  <2> QED BY <2>3 DEF b
<1>2. CASE id # "protected_slice_floor"
  <2>1. b.share = s.share /\ b.pool = s.pool
    BY <1>2, ProjectOwns
  <2> HIDE DEF b
  <2> QED BY <2>1 DEF AboveFloor, HasAllocation, b
<1> QED BY <1>1, <1>2

-----------------------------------------------------------------------------

Classical == {"classical_lmmse", "classical_qam"}
Malformed == proposed.block = "neural_rx" /\ ctx.measured = "malformed"

\* The certificate's fallback, and the receiver and the constellation behind it.
FallbackInv ==
  /\ safe.fallback # "none" => safe.block = safe.fallback
  /\ \/ safe.block = proposed.block /\ safe.order = proposed.order
        /\ safe.papr = proposed.papr
     \/ safe.block \in Classical
  /\ FallbackInForce

\* What is hopeless at the beginning: bad numbers do not pass the first
\* projection, a receiver with a malformed measurement not its own.
HopelessInv ==
  /\ ~Sane(proposed) =>
       /\ pc \in {"check", "project"} => at = 1 /\ safe = proposed
       /\ pc = "certify" => safe = proposed \/ safe.blocked
  /\ Malformed /\ "neural_rx_envelope" \in InChain /\ ReceiverStays(proposed) =>
       /\ pc = "check" => safe = proposed
       /\ pc = "project" => /\ safe.block = "neural_rx"
                            /\ \A j \in 1..(at - 1) : chain[j] # "neural_rx_envelope"
       /\ pc = "certify" => safe = proposed \/ safe.blocked
  /\ ~AboveFloor(proposed) /\ proposed.share + proposed.pool < Floor =>
       ~AboveFloor(safe) /\ safe.share + safe.pool < Floor
  /\ certificate.issued /\ Hopeless(proposed) => certificate.emit_blocked

\* What is not hopeless is never blocked, and an exact pass leaves every
\* invariant it has been through satisfied; a constellation that falls back has
\* taken the receiver with it.
MendInv ==
  ~Hopeless(proposed) =>
    /\ pc \in {"check", "project", "certify"} => ~safe.blocked
    /\ pc = "project" =>
         /\ exact => \A i \in 1..(at - 1) : Satisfied(chain[i], safe, ctx)
         /\ ~LegalConstellation(proposed) =>
              \A i \in 1..(at - 1) : chain[i] = "constellation_legality" =>
                safe.block # "neural_rx"
    /\ pc = "check" /\ projected /\ exact => Feasible(safe)
    /\ pc = "certify" /\ exact => Feasible(safe)
    /\ certificate.issued /\ certificate.emit_blocked => ~exact

\* The invariant at the reader's place is not beyond mending unless the proposal
\* was hopeless.
LEMMA NotBeyond ==
  ASSUME TypeOK, ChangeInv, FallbackInv, MendInv, pc = "project", ~Hopeless(proposed)
  PROVE  ~Beyond(chain[at], safe, ctx)
<1>0. /\ chain[at] \in Ids /\ chain[at] \in InChain /\ at \in 1..Len(chain)
      /\ Change(proposed, safe, corrections) /\ at \in Nat /\ Len(chain) \in Nat
  BY ChainType DEF TypeOK, InChain, ChangeInv
<1>1. Sane(safe) /\ safe.misplaced = proposed.misplaced /\ safe.half = proposed.half
  BY <1>0 DEF Hopeless, Change, SameFrame
<1>2. CASE chain[at] \in {"numeric_domain_sanity", "lawful_intercept"}
  BY <1>0, <1>1, <1>2 DEF Beyond, Hopeless
<1>3. CASE chain[at] = "spectral_mask_ts38104"
  BY <1>0, <1>1, <1>3 DEF Beyond, Hopeless, TooWide
<1>4. CASE chain[at] = "protected_slice_floor"
  <2>1. AboveFloor(proposed) \/ ~(proposed.share + proposed.pool < Floor)
    BY <1>0, <1>4 DEF Hopeless
  <2>2. CASE ~(proposed.share + proposed.pool < Floor)
    <3>1. ~(safe.share + safe.pool < Floor)
      BY <1>0, <2>2 DEF Change, SliceInv
    <3> QED BY <1>4, <3>1 DEF Beyond
  <2>3. CASE AboveFloor(proposed)
    <3>1. "protected_slice_floor" \notin corrections
      BY <2>3 DEF ChangeInv, Satisfied
    <3>2. safe.share = proposed.share /\ safe.pool = proposed.pool
      BY <1>0, <3>1 DEF Change, SliceInv
    <3>3. AboveFloor(safe)
      BY <2>3, <3>2 DEF AboveFloor, HasAllocation
    <3> QED BY <1>4, <3>3 DEF Beyond
  <2> QED BY <2>1, <2>2, <2>3
<1>5. CASE chain[at] = "neural_rx_envelope"
  <2> SUFFICES ASSUME safe.block = "neural_rx", ctx.measured = "malformed" PROVE FALSE
    BY <1>5 DEF Beyond
  <2>1. Malformed
    BY DEF FallbackInv, Classical, Malformed
  <2>2. ~ReceiverStays(proposed)
    BY <1>0, <1>5, <2>1 DEF Hopeless, Malformed
  <2>3. PICK i \in 1..Len(chain) :
          /\ chain[i] = "constellation_legality"
          /\ \A j \in 1..i : chain[j] # "neural_rx_envelope"
    BY <2>2 DEF ReceiverStays
  <2>4. i < at
    BY <1>0, <1>5, <2>3
  <2>5. i \in 1..(at - 1)
    BY <1>0, <2>3, <2>4
  <2> QED BY <2>2, <2>3, <2>5 DEF ReceiverStays, MendInv
<1>6. CASE chain[at] \in {"max_eirp", "pfd_ceiling_ntn", "constellation_legality"}
  BY <1>6 DEF Beyond
<1> QED BY <1>0, <1>2, <1>3, <1>4, <1>5, <1>6 DEF Ids

VerdictInv == FallbackInv /\ HopelessInv /\ MendInv

\* A call keeps its chain, its context and its proposal, and so what is feasible
\* and what is hopeless.
LEMMA SameCall ==
  ASSUME UNCHANGED <<chain, ctx, proposed>>
  PROVE  /\ InChain' = InChain
         /\ \A a : Feasible(a)' <=> Feasible(a)
         /\ Hopeless(proposed)' <=> Hopeless(proposed)
         /\ ReceiverStays(proposed)' <=> ReceiverStays(proposed)
         /\ Malformed' <=> Malformed
<1>1. InChain' = InChain
  BY DEF InChain
<1>2. ReceiverStays(proposed)' <=> ReceiverStays(proposed)
  BY DEF ReceiverStays
<1> QED BY <1>1, <1>2 DEF Feasible, Hopeless, Malformed

\* A projection keeps the receiver, the constellation and the fallback together.
LEMMA FallbackProject ==
  ASSUME TypeOK, CertInv, FallbackInv, ProjectNext
  PROVE  FallbackInv'
<1>1. PICK err \in Errors(chain[at], safe, ctx) :
        safe' = Project(chain[at], safe, ctx, err)
  BY DEF ProjectNext
<1>2. /\ chain[at] \in Ids /\ err \in Int /\ safe \in Actions /\ ctx \in ContextRecords
      /\ UNCHANGED <<proposed, certificate>> /\ ~certificate.issued
  BY ChainType, ErrorsType DEF TypeOK, ProjectNext, CertInv
<1>3. /\ safe'.fallback # "none" => safe'.block = safe'.fallback
      /\ \/ safe'.block = safe.block /\ safe'.order = safe.order /\ safe'.papr = safe.papr
         \/ safe'.block \in Classical
  BY <1>1, <1>2, ProjectFallsBack DEF FallbackInv, Classical
<1>4. FallbackInForce'
  BY <1>2 DEF FallbackInForce
<1> QED BY <1>2, <1>3, <1>4 DEF FallbackInv

\* A projection blocks bad numbers and malformed measurements, and mends no
\* slice that is short.
LEMMA HopelessProject ==
  ASSUME TypeOK, CertInv, FallbackInv, HopelessInv, ProjectNext
  PROVE  HopelessInv'
<1>1. PICK err \in Errors(chain[at], safe, ctx) :
        safe' = Project(chain[at], safe, ctx, err)
  BY DEF ProjectNext
<1>2. /\ chain[at] \in Ids /\ err \in Int /\ safe \in Actions /\ ctx \in ContextRecords
      /\ UNCHANGED <<chain, ctx, proposed, certificate>> /\ ~certificate.issued
      /\ pc = "project" /\ at \in 1..Len(chain) /\ Len(chain) \in Nat
      /\ safe'.blocked => pc' = "certify"
      /\ ~safe'.blocked => \/ at < Len(chain) /\ at' = at + 1 /\ pc' = "project"
                           \/ at = Len(chain) /\ pc' = "check"
  BY ChainType, ErrorsType DEF TypeOK, ProjectNext, CertInv
<1>3. ASSUME ~Sane(proposed) PROVE safe'.blocked
  <2>1. at = 1 /\ safe = proposed
    BY <1>2, <1>3 DEF HopelessInv
  <2>2. chain[at] = "numeric_domain_sanity"
    BY <2>1, ChainAssumption DEF TypeOK
  <2>3. safe' = Blocked(safe)
    BY <1>1, <1>3, <2>1, <2>2 DEF Project
  <2> QED BY <1>2, <2>3 DEF Blocked, Actions
<1>4. ASSUME Malformed, "neural_rx_envelope" \in InChain, ReceiverStays(proposed),
             ~safe'.blocked
      PROVE  /\ safe'.block = "neural_rx" /\ pc' = "project"
             /\ \A j \in 1..(at' - 1) : chain[j] # "neural_rx_envelope"
  <2>1. /\ safe.block = "neural_rx"
        /\ \A j \in 1..(at - 1) : chain[j] # "neural_rx_envelope"
    BY <1>2, <1>4 DEF HopelessInv
  <2>2. safe.order = proposed.order /\ safe.papr = proposed.papr
    BY <2>1 DEF FallbackInv, Classical
  <2>3. chain[at] # "neural_rx_envelope"
    BY <1>1, <1>2, <1>4, <2>1, ProjectFallsBack DEF Malformed, FallbackInv
  <2>4. \A j \in 1..at : chain[j] # "neural_rx_envelope"
    BY <1>2, <2>1, <2>3
  <2>5. safe'.block = "neural_rx"
    <3>1. CASE chain[at] = "constellation_legality"
      <4>1. LegalConstellation(proposed)
        BY <1>2, <1>4, <2>4, <3>1 DEF ReceiverStays
      <4>2. LegalConstellation(safe)
        BY <2>1, <2>2, <4>1, <1>4 DEF LegalConstellation, HasConstellation, Malformed
      <4>3. safe' = safe
        BY <1>1, <3>1, <4>2 DEF Project, LegaliseConstellation
      <4> QED BY <2>1, <4>3
    <3>2. CASE chain[at] # "constellation_legality"
      BY <1>1, <1>2, <2>1, <2>3, <3>2, ProjectOwns
    <3> QED BY <3>1, <3>2
  <2>6. at < Len(chain)
    <3>1. PICK k \in 1..Len(chain) : chain[k] = "neural_rx_envelope"
      BY <1>4 DEF InChain
    <3> QED BY <1>2, <2>4, <3>1
  <2>7. at' = at + 1 /\ pc' = "project"
    BY <1>2, <1>4, <2>6
  <2>8. 1..(at' - 1) = 1..at
    BY <1>2, <2>7
  <2> QED BY <2>4, <2>5, <2>7, <2>8
<1>5. ASSUME ~AboveFloor(proposed), proposed.share + proposed.pool < Floor
      PROVE  ~AboveFloor(safe') /\ safe'.share + safe'.pool < Floor
  BY <1>1, <1>2, <1>5, ProjectShort DEF HopelessInv
<1>6. /\ ReceiverStays(proposed)' <=> ReceiverStays(proposed)
      /\ InChain' = InChain /\ (Malformed' <=> Malformed)
  BY <1>2, SameCall
<1>7. (~Sane(proposed) =>
         /\ pc \in {"check", "project"} => at = 1 /\ safe = proposed
         /\ pc = "certify" => safe = proposed \/ safe.blocked)'
  BY <1>2, <1>3
<1>8. (Malformed /\ "neural_rx_envelope" \in InChain /\ ReceiverStays(proposed) =>
         /\ pc = "check" => safe = proposed
         /\ pc = "project" =>
              /\ safe.block = "neural_rx"
              /\ \A j \in 1..(at - 1) : chain[j] # "neural_rx_envelope"
         /\ pc = "certify" => safe = proposed \/ safe.blocked)'
  BY <1>2, <1>4, <1>6
<1>9. (~AboveFloor(proposed) /\ proposed.share + proposed.pool < Floor =>
         ~AboveFloor(safe) /\ safe.share + safe.pool < Floor)'
  BY <1>2, <1>5 DEF AboveFloor, HasAllocation
<1> QED BY <1>2, <1>7, <1>8, <1>9 DEF HopelessInv

\* A projection of an action that is not hopeless blocks nothing, and an exact
\* one adds its invariant to those that are satisfied.
LEMMA MendProject ==
  ASSUME TypeOK, CertInv, ChangeInv, FallbackInv, MendInv, ProjectNext
  PROVE  MendInv'
<1>1. PICK err \in Errors(chain[at], safe, ctx) :
        /\ safe' = Project(chain[at], safe, ctx, err)
        /\ exact' = (exact /\ err = 0)
  BY DEF ProjectNext
<1>2. /\ chain[at] \in Ids /\ err \in Int /\ safe \in Actions /\ ctx \in ContextRecords
      /\ UNCHANGED <<chain, ctx, proposed, certificate>> /\ ~certificate.issued
      /\ pc = "project" /\ at \in 1..Len(chain) /\ Len(chain) \in Nat
      /\ safe'.blocked => pc' = "certify"
      /\ ~safe'.blocked => \/ at < Len(chain) /\ at' = at + 1 /\ pc' = "project"
                           \/ at = Len(chain) /\ pc' = "check"
      /\ ~safe.blocked
      /\ \A i \in 1..Len(chain) : chain[i] \in Ids
  BY ChainType, ErrorsType DEF TypeOK, ProjectNext, CertInv
<1>3. \A a : (Feasible(a)' <=> Feasible(a)) /\ (Hopeless(proposed)' <=> Hopeless(proposed))
  BY <1>2, SameCall
<1> SUFFICES ASSUME ~Hopeless(proposed) PROVE MendInv'
  BY <1>3 DEF MendInv
<1>4. ~Beyond(chain[at], safe, ctx)
  BY <1>2, NotBeyond
<1>5. ~safe'.blocked
  BY <1>1, <1>2, <1>4, ProjectBlocks
<1>6. ASSUME exact' PROVE \A i \in 1..at : Satisfied(chain[i], safe', ctx)
  <2>1. exact /\ err = 0
    BY <1>1, <1>6
  <2>2. \A i \in 1..(at - 1) : Satisfied(chain[i], safe, ctx)
    BY <1>2, <2>1 DEF MendInv
  <2>3. safe' = Project(chain[at], safe, ctx, 0)
    BY <1>1, <2>1
  <2>4. Satisfied(chain[at], safe', ctx)
    BY <1>2, <1>4, <2>3, ProjectMends
  <2>5. ASSUME NEW i \in 1..(at - 1) PROVE Satisfied(chain[i], safe', ctx)
    <3>1. chain[i] \in Ids
      BY <1>2
    <3> QED BY <1>2, <2>2, <2>3, <3>1, ProjectKeeps
  <2>6. ASSUME NEW i \in 1..at PROVE i = at \/ i \in 1..(at - 1)
    BY <1>2
  <2> QED BY <2>4, <2>5, <2>6
<1>7. ASSUME ~LegalConstellation(proposed), NEW i \in 1..at,
             chain[i] = "constellation_legality"
      PROVE  safe'.block # "neural_rx"
  <2>1. safe'.block = "neural_rx" =>
          safe.block = "neural_rx" /\
          ~(chain[at] = "constellation_legality" /\ ~LegalConstellation(safe))
    BY <1>1, <1>2, ProjectFallsBack DEF FallbackInv
  <2>2. CASE i = at
    <3>1. safe.block = "neural_rx" => ~LegalConstellation(safe)
      BY <1>7 DEF FallbackInv, Classical, LegalConstellation, HasConstellation
    <3> QED BY <1>7, <2>1, <2>2, <3>1
  <2>3. CASE i # at
    <3>1. i \in 1..(at - 1)
      BY <1>2, <2>3
    <3> QED BY <1>2, <1>7, <2>1, <3>1 DEF MendInv
  <2> QED BY <2>2, <2>3
<1>8. CASE at < Len(chain)
  <2>1. at' = at + 1 /\ pc' = "project" /\ 1..(at' - 1) = 1..at
    BY <1>2, <1>5, <1>8
  <2> QED BY <1>2, <1>5, <1>6, <1>7, <2>1 DEF MendInv
<1>9. CASE at = Len(chain)
  <2>1. pc' = "check"
    BY <1>2, <1>5, <1>9
  <2>2. exact' => Feasible(safe')
    BY <1>6, <1>9 DEF Feasible, InChain
  <2>3. exact' => Feasible(safe)'
    BY <1>2, <2>2 DEF Feasible, InChain
  <2> QED BY <1>2, <1>5, <2>1, <2>3 DEF MendInv
<1> QED BY <1>2, <1>8, <1>9

\* What is hopeless is violated, or blocked already, when the certificate is
\* made.
LEMMA HopelessBlocked ==
  ASSUME TypeOK, ChangeInv, HopelessInv, pc = "certify", Hopeless(proposed)
  PROVE  safe.blocked \/ ~Feasible(safe)
<1> SUFFICES ASSUME ~safe.blocked, Feasible(safe) PROVE FALSE
  OBVIOUS
<1>0. /\ Change(proposed, safe, corrections) /\ "numeric_domain_sanity" \in InChain
      /\ safe \in Actions /\ proposed \in Actions
  BY ChainType DEF ChangeInv, TypeOK
<1>1. CASE ~Sane(proposed)
  BY <1>0, <1>1 DEF HopelessInv, Feasible, Satisfied
<1>2. CASE "spectral_mask_ts38104" \in InChain /\ TooWide(proposed)
  <2>1. TooWide(safe)
    BY <1>0, <1>2 DEF TooWide, Change, SameFrame
  <2>2. InBand(safe)
    BY <1>2 DEF Feasible, Satisfied
  <2> QED BY <1>0, <2>1, <2>2, Fields, LimitAssumption DEF TooWide, InBand
<1>3. CASE "lawful_intercept" \in InChain /\
             (ctx.li = "fail_closed" \/ (ctx.li = "rules" /\ proposed.misplaced))
  <2>1. safe.misplaced = proposed.misplaced
    BY <1>0 DEF Change, SameFrame
  <2> QED BY <1>3, <2>1 DEF Feasible, Satisfied, LiConflict
<1>4. CASE /\ "neural_rx_envelope" \in InChain /\ proposed.block = "neural_rx"
           /\ ctx.measured = "malformed" /\ ReceiverStays(proposed)
  <2>1. safe = proposed
    BY <1>4 DEF HopelessInv, Malformed
  <2> QED BY <1>4, <2>1 DEF Feasible, Satisfied, EnvelopeHolds
<1>5. CASE /\ "protected_slice_floor" \in InChain /\ ~AboveFloor(proposed)
           /\ proposed.share + proposed.pool < Floor
  BY <1>5 DEF HopelessInv, Feasible, Satisfied
<1> QED BY <1>1, <1>2, <1>3, <1>4, <1>5 DEF Hopeless

\* The certificate blocks what is hopeless, and what an inexact pass left.
LEMMA VerdictCertify ==
  ASSUME TypeOK, CertInv, ChangeInv, VerdictInv, Certify
  PROVE  VerdictInv'
<1> DEFINE violated == {id \in InChain : ~Satisfied(id, safe, ctx)}
           emit_blocked == safe.blocked \/ violated # {}
           to_classical == /\ safe.block # proposed.block
                           /\ safe.block \in {"classical_lmmse", "classical_qam"}
<1>1. /\ certificate'.issued /\ (certificate'.emit_blocked <=> emit_blocked)
      /\ certificate'.fallback_used <=> (safe.fallback # "none" \/ to_classical)
      /\ certificate'.fallback_to = safe.fallback
      /\ safe' = [safe EXCEPT !.blocked = emit_blocked]
      /\ pc' = "guard" /\ pc = "certify"
      /\ UNCHANGED <<chain, ctx, proposed, exact>>
  BY DEF Certify
<1>2. /\ safe'.block = safe.block /\ safe'.fallback = safe.fallback
      /\ safe'.order = safe.order /\ safe'.papr = safe.papr
      /\ safe'.share = safe.share /\ safe'.pool = safe.pool
  BY <1>1 DEF TypeOK, Actions
<1>3. emit_blocked <=> safe.blocked \/ ~Feasible(safe)
  BY DEF Feasible
<1>4. /\ InChain' = InChain /\ (Hopeless(proposed)' <=> Hopeless(proposed))
  BY <1>1, SameCall
<1> HIDE DEF emit_blocked
<1>5. FallbackInv'
  <2>1. FallbackInForce'
    BY <1>1, <1>2 DEF VerdictInv, FallbackInv, FallbackInForce, Classical
  <2> QED BY <1>1, <1>2, <2>1 DEF VerdictInv, FallbackInv
<1>6. HopelessInv'
  <2>1. Hopeless(proposed) => certificate'.emit_blocked
    BY <1>1, <1>3, HopelessBlocked DEF VerdictInv
  <2>2. (~AboveFloor(proposed) /\ proposed.share + proposed.pool < Floor =>
           ~AboveFloor(safe) /\ safe.share + safe.pool < Floor)'
    BY <1>1, <1>2 DEF VerdictInv, HopelessInv, AboveFloor, HasAllocation
  <2> QED BY <1>1, <1>4, <2>1, <2>2 DEF HopelessInv
<1>7. MendInv'
  <2>1. ~Hopeless(proposed) /\ certificate'.emit_blocked => ~exact
    BY <1>1, <1>3 DEF VerdictInv, MendInv
  <2> QED BY <1>1, <1>4, <2>1 DEF MendInv
<1> QED BY <1>5, <1>6, <1>7 DEF VerdictInv

\* The certificate is an honest verdict, for every chain, in whatever order it
\* projects, and every rounding error: it blocks the proposals beyond mending,
\* and no other after a pass that was exact, and names the fallback in force
\* (dispose(), shield/shield.py:126-206).
THEOREM VerdictAlwaysHonest == Spec => []VerdictHonest
<1>1. Init => VerdictInv
  <2> SUFFICES ASSUME Init PROVE VerdictInv
    OBVIOUS
  <2>1. ~certificate.issued /\ safe = proposed /\ pc = "check" /\ at = 1 /\ ~projected
    BY DEF Init, NoCertificate
  <2>2. proposed.fallback = "none" /\ ~proposed.blocked
    BY ProposalAssumption DEF Init
  <2> QED BY <2>1, <2>2 DEF VerdictInv, FallbackInv, HopelessInv, MendInv, FallbackInForce
<1>2. VerdictInv /\ TypeOK /\ CertInv /\ ChangeInv /\ [Next]_vars => VerdictInv'
  <2> SUFFICES ASSUME VerdictInv, TypeOK, CertInv, ChangeInv, [Next]_vars PROVE VerdictInv'
    OBVIOUS
  <2>1. CASE ProjectNext
    BY <2>1, FallbackProject, HopelessProject, MendProject DEF VerdictInv
  <2>2. CASE Certify
    BY <2>2, VerdictCertify
  <2>3. CASE Check
    <3>1. /\ UNCHANGED <<chain, ctx, proposed, safe, certificate, pass>> /\ pc = "check"
          /\ ~certificate.issued /\ pass \in Nat /\ MaxPasses \in Nat \ {0}
          /\ \/ /\ pass = MaxPasses \/ Feasible(safe)
                /\ pc' = "certify" /\ UNCHANGED <<at, exact, projected>>
             \/ pc' = "project" /\ at' = 1 /\ exact' = TRUE
      BY <2>3, LimitAssumption DEF Check, CertInv, TypeOK
    <3>2. /\ InChain' = InChain /\ (Feasible(safe)' <=> Feasible(safe))
          /\ Hopeless(proposed)' <=> Hopeless(proposed)
          /\ ReceiverStays(proposed)' <=> ReceiverStays(proposed)
          /\ Malformed' <=> Malformed
      BY <3>1, SameCall DEF Feasible, InChain
    <3>3. FallbackInv'
      BY <3>1 DEF VerdictInv, FallbackInv, FallbackInForce
    <3>4. HopelessInv'
      <4>1. (~Sane(proposed) =>
               /\ pc \in {"check", "project"} => at = 1 /\ safe = proposed
               /\ pc = "certify" => safe = proposed \/ safe.blocked)'
        BY <3>1 DEF VerdictInv, HopelessInv
      <4>2. (Malformed /\ "neural_rx_envelope" \in InChain /\ ReceiverStays(proposed) =>
               /\ pc = "check" => safe = proposed
               /\ pc = "project" =>
                    /\ safe.block = "neural_rx"
                    /\ \A j \in 1..(at - 1) : chain[j] # "neural_rx_envelope"
               /\ pc = "certify" => safe = proposed \/ safe.blocked)'
        <5>1. pc' = "project" => 1..(at' - 1) = {}
          BY <3>1
        <5> QED BY <3>1, <3>2, <5>1 DEF VerdictInv, HopelessInv, Malformed
      <4>3. (~AboveFloor(proposed) /\ proposed.share + proposed.pool < Floor =>
               ~AboveFloor(safe) /\ safe.share + safe.pool < Floor)'
        BY <3>1 DEF VerdictInv, HopelessInv, AboveFloor, HasAllocation
      <4> QED BY <3>1, <4>1, <4>2, <4>3 DEF HopelessInv
    <3>5. MendInv'
      <4> SUFFICES ASSUME ~Hopeless(proposed) PROVE MendInv'
        BY <3>2 DEF MendInv
      <4>1. ~safe'.blocked
        BY <3>1 DEF VerdictInv, MendInv
      <4>2. pc' = "project" => 1..(at' - 1) = {}
        BY <3>1
      <4>3. pc' = "certify" /\ exact' => Feasible(safe)'
        BY <3>1, <3>2 DEF VerdictInv, MendInv, CertInv
      <4> QED BY <3>1, <4>1, <4>2, <4>3 DEF MendInv
    <3> QED BY <3>3, <3>4, <3>5 DEF VerdictInv
  <2>4. CASE Guard \/ UNCHANGED vars
    <3>1. /\ UNCHANGED <<chain, ctx, proposed, safe, pass, at, exact, projected, certificate>>
          /\ pc' = pc \/ (pc = "guard" /\ pc' = "done")
      BY <2>4 DEF Guard, vars
    <3>2. /\ InChain' = InChain /\ (Feasible(safe)' <=> Feasible(safe))
          /\ Hopeless(proposed)' <=> Hopeless(proposed)
          /\ ReceiverStays(proposed)' <=> ReceiverStays(proposed)
          /\ Malformed' <=> Malformed
      BY <3>1, SameCall DEF Feasible, InChain
    <3>3. FallbackInv'
      BY <3>1 DEF VerdictInv, FallbackInv, FallbackInForce
    <3>4. HopelessInv'
      BY <3>1, <3>2 DEF VerdictInv, HopelessInv, AboveFloor, HasAllocation, Sane
    <3>5. MendInv'
      BY <3>1, <3>2 DEF VerdictInv, MendInv, LegalConstellation, HasConstellation
    <3> QED BY <3>3, <3>4, <3>5 DEF VerdictInv
  <2> QED BY <2>1, <2>2, <2>3, <2>4 DEF Next
<1>3. VerdictInv => VerdictHonest
  <2> SUFFICES ASSUME VerdictInv PROVE VerdictHonest
    OBVIOUS
  <2>1. BlocksHopeless
    BY DEF BlocksHopeless, VerdictInv, HopelessInv, MendInv
  <2>2. FallbackInForce
    BY DEF VerdictInv, FallbackInv
  <2> QED BY <2>1, <2>2 DEF VerdictHonest
<1> QED BY <1>1, <1>2, <1>3, TypeCorrect, Certified, ChangesBounded, PTL DEF Spec
=============================================================================
