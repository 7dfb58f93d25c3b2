------------------------------- MODULE Shield --------------------------------
(***************************************************************************)
(* The Decision Safety Shield (shield/shield.py, shield/invariants.py,     *)
(* policy/li_constraint.py) and the guards behind it                       *)
(* (policy/emit_guards.py, rapp/pipeline.py): dispose() checks a proposed  *)
(* action against a chain of invariants, projects it pass by pass, and     *)
(* certifies or blocks what it gets; the guards then emit or refuse it.    *)
(*                                                                         *)
(* Frequencies and powers are integers that count one unit of floating-    *)
(* point rounding: a projected frequency or power may miss the exact value *)
(* by up to MaxError units, which is why dispose() checks again after it   *)
(* has projected.                                                          *)
(***************************************************************************)
EXTENDS Integers, Sequences

CONSTANTS Proposals,           \* the actions proposed
          Contexts,            \* the contexts they come with
          Chains,              \* the chains of invariants deployed
          MaxPasses,           \* ShieldConfig.max_passes
          MaxError,            \* the rounding error of a projection
          UsableLo, UsableHi,  \* the band, its guard bands taken off
          MaxEirp,             \* max_eirp_dBm
          MaxPfd,              \* max_pfd_dBW_m2_MHz
          Orders,              \* allowed_orders
          MaxPapr,             \* max_papr_dB
          Floor,               \* the protected slice's floor
          Ues, ProtectedUes,   \* all UEs, and those of the LI rules
          MinTxPower           \* MIN_VIABLE_TX_POWER_DBM

Blocks == {"policy_emit", "neural_rx", "learned_constellation",
           "classical_lmmse", "classical_qam"}

\* numeric tells whether every field given is a finite number in its domain,
\* but for the signs of freq, half, papr and order; half is half the bandwidth;
\* offset is PFD less Tx power, which no projection changes; order is 0 when
\* there is none; honest tells whether the reported TBLER is within tolerance
\* of the baseline's; share and pool are the PRBs of the protected slice and of
\* all others (pool is -1 without a prb_allocation); misplaced tells whether a
\* protected slice would leave its jurisdictions.
Actions ==
  [numeric : BOOLEAN, freq : Int, half : Int, tx : Int, gain : Int,
   ntn : BOOLEAN, offset : Int, block : Blocks, order : Int, papr : Int,
   confident : BOOLEAN, honest : BOOLEAN, share : Int, pool : Int,
   ues : SUBSET Ues, misplaced : BOOLEAN,
   blocked : BOOLEAN, fallback : Blocks \cup {"none"}]

\* The independent measurement of the neural receiver, whether the chain
\* requires one, and the catalogue of lawful-intercept rules.
ContextRecords ==
  [measured : {"none", "good", "bad", "malformed"}, required : BOOLEAN,
   li : {"rules", "fail_closed", "elected_off"}]

Ids == {"numeric_domain_sanity", "lawful_intercept", "spectral_mask_ts38104",
        "max_eirp", "protected_slice_floor", "pfd_ceiling_ntn",
        "neural_rx_envelope", "constellation_legality"}

ASSUME ProposalAssumption ==
  /\ Proposals \subseteq Actions /\ Contexts \subseteq ContextRecords
  /\ \A a \in Proposals : ~a.blocked /\ a.fallback = "none"
ASSUME ChainAssumption ==
  /\ Chains \subseteq Seq(Ids)
  /\ \A c \in Chains : Len(c) > 0 /\ c[1] = "numeric_domain_sanity"
ASSUME LimitAssumption ==
  /\ MaxPasses \in Nat \ {0} /\ MaxError \in Nat
  /\ UsableLo \in Int /\ UsableLo >= MaxError /\ UsableHi \in Int /\ MaxEirp \in Int /\ MaxPfd \in Int
  /\ MaxPapr \in Nat /\ Floor \in Int /\ MinTxPower \in Int
  /\ ProtectedUes \subseteq Ues
\* allowed_orders is a finite tuple that is not empty, so there is always a
\* lowest order, and a highest one among those that are low enough.
ASSUME OrdersAssumption ==
  /\ Orders \subseteq Nat \ {0}
  /\ \E o \in Orders : \A n \in Orders : o <= n
  /\ \A S \in SUBSET Orders : S # {} => \E o \in S : \A n \in S : n <= o

VARIABLES pc,           \* where dispose() and its caller are
          chain, ctx,   \* the Shield and the context of the call
          proposed,     \* the action as it came
          safe,         \* the action as projected so far
          pass, at,     \* projection passes ended, and the place in this one
          exact,        \* no rounding error in the latest pass
          projected,    \* a projection pass was entered
          corrections,  \* the invariants that reported a correction
          certificate,  \* what dispose() returns
          outcome       \* "none", "emitted" or "refused"

vars == <<pc, chain, ctx, proposed, safe, pass, at, exact, projected,
          corrections, certificate, outcome>>

InChain == {chain[i] : i \in 1..Len(chain)}
Least(x, y) == IF x <= y THEN x ELSE y

-----------------------------------------------------------------------------
(* evaluate() of each invariant.                                           *)

Sane(a) == a.numeric /\ a.freq > 0 /\ a.half > 0 /\ a.papr >= 0 /\ a.order >= 0

LiConflict(a, c) ==
  \/ c.li = "fail_closed"
  \/ c.li = "rules" /\ (a.ues \cap ProtectedUes # {} \/ a.misplaced)

InBand(a) == a.freq - a.half >= UsableLo /\ a.freq + a.half <= UsableHi

EirpOver(a) == a.tx + a.gain - MaxEirp
PfdOver(a) == a.tx + a.offset - MaxPfd

\* Fault: the receiver's own report decides, whatever was measured.
SelfAttested(a, c) == a.block = "neural_rx" => a.confident /\ a.honest

\* The measurement decides; without one the report does, if that is allowed.
EnvelopeHolds(a, c) ==
  a.block = "neural_rx" =>
    /\ a.confident
    /\ \/ c.measured = "good"
       \/ c.measured = "none" /\ ~c.required /\ a.honest

HasConstellation(a) == a.order # 0 \/ a.block = "learned_constellation"
LegalConstellation(a) ==
  HasConstellation(a) => a.order \in Orders /\ a.papr <= MaxPapr

HasAllocation(a) == a.pool # -1
AboveFloor(a) == HasAllocation(a) => a.share >= Floor

Satisfied(id, a, c) ==
  CASE id = "numeric_domain_sanity" -> Sane(a)
    [] id = "lawful_intercept" -> ~LiConflict(a, c)
    [] id = "spectral_mask_ts38104" -> InBand(a)
    [] id = "max_eirp" -> EirpOver(a) <= 0
    [] id = "pfd_ceiling_ntn" -> a.ntn => PfdOver(a) <= 0
    [] id = "protected_slice_floor" -> AboveFloor(a)
    [] id = "neural_rx_envelope" -> EnvelopeHolds(a, c)
    [] id = "constellation_legality" -> LegalConstellation(a)

Feasible(a) == \A id \in InChain : Satisfied(id, a, ctx)

-----------------------------------------------------------------------------
(* project() of each invariant; err is the rounding error of its result.   *)

Blocked(a) == [a EXCEPT !.blocked = TRUE]
FallBack(a, block) == [a EXCEPT !.block = block, !.fallback = block]

\* Protected UEs are taken out; a misplaced slice is reported and stays.
StripUes(a, c) == IF c.li = "rules" THEN [a EXCEPT !.ues = @ \ ProtectedUes] ELSE a

TooWide(a) == 2 * a.half > UsableHi - UsableLo

Lowest(a) == UsableLo + a.half
Highest(a) == UsableHi - a.half

\* Fault: the carrier is put in the middle of the band.
CentreCarrier(a, err) ==
  IF TooWide(a) THEN Blocked(a)
  ELSE [a EXCEPT !.freq = ((UsableLo + UsableHi) \div 2) + err]

PlaceCarrier(a, err) ==
  IF TooWide(a) THEN Blocked(a)
  ELSE [a EXCEPT !.freq = IF @ < Lowest(a) THEN Lowest(a) + err
                          ELSE IF @ > Highest(a) THEN Highest(a) + err ELSE @]

\* The difference of two floats is never above the minuend.
CutPower(a, over, err) ==
  IF over > 0 THEN [a EXCEPT !.tx = Least(@, @ - over + err)] ELSE a

\* A malformed measurement makes project() raise, and that blocks.
ReplaceReceiver(a, c) ==
  IF EnvelopeHolds(a, c) THEN a
  ELSE IF c.measured = "malformed" THEN Blocked(a)
  ELSE [FallBack(a, "classical_lmmse") EXCEPT !.honest = TRUE]

\* The highest allowed order that is no higher, else the lowest one.
Snap(order) ==
  LET below == {o \in Orders : o <= order}
  IN IF below = {} THEN CHOOSE o \in Orders : \A n \in Orders : o <= n
     ELSE CHOOSE o \in below : \A n \in below : n <= o

LegaliseConstellation(a) ==
  IF LegalConstellation(a) THEN a
  ELSE [FallBack(a, "classical_qam") EXCEPT
          !.order = IF @ \in Orders THEN @ ELSE Snap(@),
          !.papr = Least(@, MaxPapr)]

\* The other slices give what is missing, or all they have.
RestoreFloor(a) ==
  IF AboveFloor(a) THEN a
  ELSE LET given == Least(a.pool, Floor - a.share)
       IN [a EXCEPT !.share = @ + given, !.pool = @ - given]

Project(id, a, c, err) ==
  CASE id = "numeric_domain_sanity" -> IF Sane(a) THEN a ELSE Blocked(a)
    [] id = "lawful_intercept" -> StripUes(a, c)
    [] id = "spectral_mask_ts38104" -> PlaceCarrier(a, err)
    [] id = "max_eirp" -> CutPower(a, EirpOver(a), err)
    [] id = "pfd_ceiling_ntn" -> IF a.ntn THEN CutPower(a, PfdOver(a), err) ELSE a
    [] id = "protected_slice_floor" -> RestoreFloor(a)
    [] id = "neural_rx_envelope" -> ReplaceReceiver(a, c)
    [] id = "constellation_legality" -> LegaliseConstellation(a)

\* Fault: corrections are reported for fallbacks and for blocked actions only.
CorrectsWhenSerious(id, a, b, c) ==
  IF id \in {"spectral_mask_ts38104", "max_eirp"} THEN b.blocked
  ELSE ~Satisfied(id, a, c)

\* Whether project(), which made b of a, reports a correction.
Corrects(id, a, b, c) ==
  IF id = "spectral_mask_ts38104" THEN b # a ELSE ~Satisfied(id, a, c)

\* Only a projected frequency or power is the result of a computation.
Errors(id, a, c) ==
  IF /\ id \in {"spectral_mask_ts38104", "max_eirp", "pfd_ceiling_ntn"}
     /\ ~Satisfied(id, a, c)
  THEN -MaxError..MaxError ELSE {0}

-----------------------------------------------------------------------------
(* One call of dispose() and the guards on what it returns.  A Shield keeps  *)
(* nothing from one call to the next.                                        *)

NoCertificate == [issued |-> FALSE, violated |-> {}, emit_blocked |-> FALSE,
                  fallback_used |-> FALSE, fallback_to |-> "none"]

Init ==
  /\ pc = "check"
  /\ chain \in Chains /\ ctx \in Contexts /\ proposed \in Proposals
  /\ safe = proposed
  /\ pass = 0 /\ at = 1 /\ exact = TRUE /\ projected = FALSE
  /\ corrections = {} /\ certificate = NoCertificate /\ outcome = "none"

\* The head of the loop over the passes.
Check ==
  /\ pc = "check"
  /\ \/ /\ pass = MaxPasses \/ Feasible(safe)
        /\ pc' = "certify"
        /\ UNCHANGED <<at, exact, projected>>
     \/ /\ pass < MaxPasses /\ ~Feasible(safe)
        /\ pc' = "project" /\ at' = 1 /\ exact' = TRUE /\ projected' = TRUE
  /\ UNCHANGED <<chain, ctx, proposed, safe, pass, corrections, certificate, outcome>>

\* One invariant's project(); an action it blocks is projected no further.
ProjectNext ==
  /\ pc = "project"
  /\ \E err \in Errors(chain[at], safe, ctx) :
       /\ safe' = Project(chain[at], safe, ctx, err)
       /\ exact' = (exact /\ err = 0)
  /\ corrections' = corrections \cup
       (IF Corrects(chain[at], safe, safe', ctx) THEN {chain[at]} ELSE {})
  /\ IF safe'.blocked THEN pc' = "certify" /\ UNCHANGED <<pass, at>>
     ELSE IF at < Len(chain) THEN at' = at + 1 /\ UNCHANGED <<pc, pass>>
     ELSE pc' = "check" /\ pass' = pass + 1 /\ UNCHANGED at
  /\ UNCHANGED <<chain, ctx, proposed, projected, certificate, outcome>>

\* The checks are made once more, and any violation left blocks the action.
Certify ==
  /\ pc = "certify"
  /\ LET violated == {id \in InChain : ~Satisfied(id, safe, ctx)}
         emit_blocked == safe.blocked \/ violated # {}
         to_classical == /\ safe.block # proposed.block
                         /\ safe.block \in {"classical_lmmse", "classical_qam"}
     IN /\ certificate' =
             [issued |-> TRUE, violated |-> violated, emit_blocked |-> emit_blocked,
              fallback_used |-> safe.fallback # "none" \/ to_classical,
              fallback_to |-> safe.fallback]
        /\ safe' = [safe EXCEPT !.blocked = emit_blocked]
  /\ pc' = "guard"
  /\ UNCHANGED <<chain, ctx, proposed, pass, at, exact, projected, corrections, outcome>>

\* The corrections the pipeline puts into the decision record.
Audited == corrections

\* Fault: the power is compared with the hardware floor before the Shield cuts it.
RefusesOnProposal(late) ==
  \/ certificate.emit_blocked \/ late
  \/ corrections # {} /\ Audited = {}
  \/ proposed.tx < MinTxPower

\* The guard chain, and the pipeline's own test of the power.
Refuses(late) ==
  \/ certificate.emit_blocked \/ late
  \/ corrections # {} /\ Audited = {}
  \/ safe.tx < MinTxPower

Guard ==
  /\ pc = "guard"
  /\ \E late \in BOOLEAN : outcome' = IF Refuses(late) THEN "refused" ELSE "emitted"
  /\ pc' = "done"
  /\ UNCHANGED <<chain, ctx, proposed, safe, pass, at, exact, projected,
                 corrections, certificate>>

Next == Check \/ ProjectNext \/ Certify \/ Guard

Spec == Init /\ [][Next]_vars

-----------------------------------------------------------------------------
(* Properties.                                                             *)

\* Every variable has its type, and the places in the chain exist.
TypeOK ==
  /\ pc \in {"check", "project", "certify", "guard", "done"}
  /\ chain \in Chains /\ ctx \in ContextRecords
  /\ proposed \in Actions /\ safe \in Actions
  /\ pass \in 0..MaxPasses /\ at \in 1..Len(chain)
  /\ exact \in BOOLEAN /\ projected \in BOOLEAN
  /\ corrections \subseteq InChain
  /\ certificate \in [issued : BOOLEAN, violated : SUBSET InChain,
                      emit_blocked : BOOLEAN, fallback_used : BOOLEAN,
                      fallback_to : Blocks \cup {"none"}]
  /\ outcome \in {"none", "emitted", "refused"}

\* What leaves through the guards is what the licence, the warrants and the
\* hardware allow, although a later projection or a rounding error may undo what
\* an earlier projection achieved: every invariant of the chain holds of the
\* action sent, its power can be transmitted, a neural receiver was measured and
\* not merely trusted, and no warrant is touched.
EmittedSafe ==
  outcome = "emitted" =>
    /\ Feasible(safe) /\ ~safe.blocked
    /\ safe.tx >= MinTxPower
    /\ safe.block = "neural_rx" /\ "neural_rx_envelope" \in InChain =>
         ctx.measured = "good" \/ ~ctx.required
    /\ "lawful_intercept" \in InChain /\ ctx.li = "rules" =>
         safe.ues \cap ProtectedUes = {} /\ ~safe.misplaced

\* A constellation that falls back takes a neural receiver with it, and this
\* one does not, or not before the receiver's own projection.
ReceiverStays(a) ==
  \/ LegalConstellation(a)
  \/ \A i \in 1..Len(chain) : chain[i] = "constellation_legality" =>
       \E j \in 1..i : chain[j] = "neural_rx_envelope"

\* What no projection of the chain can mend.
Hopeless(a) ==
  \/ ~Sane(a)
  \/ "spectral_mask_ts38104" \in InChain /\ TooWide(a)
  \/ "lawful_intercept" \in InChain /\
       (ctx.li = "fail_closed" \/ (ctx.li = "rules" /\ a.misplaced))
  \/ "neural_rx_envelope" \in InChain /\ a.block = "neural_rx" /\
       ctx.measured = "malformed" /\ ReceiverStays(a)
  \/ "protected_slice_floor" \in InChain /\ ~AboveFloor(a) /\ a.share + a.pool < Floor

\* The Shield blocks exactly the actions no projection can mend: one pass whose
\* arithmetic is exact is enough, in whatever order the chain projects.
BlocksHopeless ==
  certificate.issued =>
    /\ Hopeless(proposed) => certificate.emit_blocked
    /\ certificate.emit_blocked => Hopeless(proposed) \/ ~exact

\* A certified action is the proposal changed as little as the chain demands:
\* the power is the lower of what was asked for and what each ceiling allows,
\* the carrier the nearest one in the band, up to one rounding error.
LeastChange ==
  certificate.issued /\ ~certificate.emit_blocked =>
    /\ \/ safe.tx = proposed.tx
       \/ "max_eirp" \in InChain /\ safe.tx >= MaxEirp - proposed.gain - MaxError
       \/ /\ "pfd_ceiling_ntn" \in InChain /\ proposed.ntn
          /\ safe.tx >= MaxPfd - proposed.offset - MaxError
    /\ safe.tx <= proposed.tx
    /\ safe.freq # proposed.freq =>
         \/ proposed.freq < Lowest(proposed) /\ safe.freq <= Lowest(proposed) + MaxError
         \/ proposed.freq > Highest(proposed) /\ safe.freq >= Highest(proposed) - MaxError
    /\ proposed.ues \ ProtectedUes \subseteq safe.ues
    /\ proposed.order \in Orders => safe.order = proposed.order
    /\ safe.share + safe.pool = proposed.share + proposed.pool

\* is_feasible() says that dispose() would change nothing: a projection pass is
\* entered exactly when the action that comes back is not the one that went in.
ProjectedMeansChanged ==
  certificate.issued => (projected <=> safe # proposed)

\* Nothing is changed behind the audit's back, and nothing is reported that was
\* not wrong with the proposal: a field that differs has a correction of an
\* invariant that owns it, and a correction names an invariant the proposal broke.
ChangesAudited ==
  certificate.issued =>
    /\ safe.tx # proposed.tx => Audited \cap {"max_eirp", "pfd_ceiling_ntn"} # {}
    /\ safe.freq # proposed.freq => "spectral_mask_ts38104" \in Audited
    /\ safe.ues # proposed.ues => "lawful_intercept" \in Audited
    /\ safe.share # proposed.share => "protected_slice_floor" \in Audited
    /\ safe.block # proposed.block =>
         Audited \cap {"neural_rx_envelope", "constellation_legality"} # {}
    /\ \A id \in Audited : ~Satisfied(id, proposed, ctx)

\* The certificate names the fallback that is in force, also when the receiver
\* and the constellation both fall back in one pass.
FallbackInForce ==
  certificate.issued =>
    /\ certificate.fallback_to # "none" => safe.block = certificate.fallback_to
    /\ certificate.fallback_used <=> safe.block # proposed.block \/ safe.fallback # "none"

\* The certificate is an honest verdict: it blocks what is beyond mending and
\* nothing else, and names the fallback the action really runs with.
VerdictHonest == BlocksHopeless /\ FallbackInForce
=============================================================================
