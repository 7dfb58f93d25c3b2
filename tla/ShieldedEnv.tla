----------------------------- MODULE ShieldedEnv -----------------------------
(***************************************************************************)
(* The learner's closed loop behind the Shield (learning/shield_env.py):   *)
(* step() executes the projection of a proposed carrier and records both,  *)
(* the feasibility masks tell a learner beforehand what will not be        *)
(* changed, and load_transitions() turns a verified store back into        *)
(* training data.  The Shield is the terrestrial chain as this payload     *)
(* meets it: sanity, occupied band, EIRP; Shield.tla has all of it.        *)
(* Frequencies are in MHz, powers and gains in dB.                         *)
(***************************************************************************)
EXTENDS Integers, Sequences, SequencesExt, FiniteSets, FiniteSetsExt

CONSTANTS EnvLow, EnvHigh,   \* band_lo_hz, band_hi_hz
          EnvWidths,         \* bandwidth_hz the environment may be built with
          EnvCap,            \* max_eirp_dbm
          AntennaGain,
          SubbandCentres,    \* subband_center_hz, a sequence
          ChannelGains,      \* per receiver, the gain in each subband
          RequiredEirp,      \* noise plus threshold: EIRP + gain must reach it
          ProposedMHz, ProposedDbm,
          MaxEnvRows

\* Proposals that are no numbers: an undefined frequency, an unbounded power.
NotANumber == -1
Unbounded == 1000000

\* Half a width is a whole number of MHz, every receiver has a gain in every
\* subband, and the subbands' centres lie in the band.
ASSUME EnvAssumption ==
  /\ EnvLow \in Nat \ {0} /\ EnvHigh \in Nat
  /\ \A w \in EnvWidths : w \in Nat /\ w % 2 = 0
  /\ {EnvCap, AntennaGain, RequiredEirp} \subseteq Int
  /\ EnvCap - AntennaGain < Unbounded
  /\ SubbandCentres # <<>> /\ SubbandCentres \in Seq(EnvLow..EnvHigh)
  /\ ChannelGains \in Seq([DOMAIN SubbandCentres -> Int])
  /\ ProposedMHz \subseteq Int /\ ProposedDbm \subseteq Int
  /\ MaxEnvRows \in Nat

VARIABLES envWidth,   \* self.bandwidth_hz
          envStore,   \* the rows of the evidence store
          envEdited,  \* whether a row was changed behind its back
          envReplay   \* what load_transitions() gave last

envVars == <<envWidth, envStore, envEdited, envReplay>>

NoReplayYet == [outcome |-> "none", transitions |-> <<>>]

EnvInit ==
  /\ envWidth \in EnvWidths
  /\ envStore = <<>> /\ envEdited = FALSE
  /\ envReplay = NoReplayYet

Proposals == [mhz : ProposedMHz, dbm : ProposedDbm]

Eirp(a) == a.dbm + AntennaGain

\* subband_for, 0 for None.  A comparison with an undefined frequency is false,
\* and the nearest of undefined distances is the first.
SubbandFor(mhz) ==
  LET away(b) == IF SubbandCentres[b] > mhz THEN SubbandCentres[b] - mhz
                 ELSE mhz - SubbandCentres[b]
  IN  IF mhz = NotANumber THEN 1
      ELSE IF mhz < EnvLow \/ mhz > EnvHigh THEN 0
      ELSE CHOOSE b \in DOMAIN SubbandCentres :
             \A c \in DOMAIN SubbandCentres :
               away(b) < away(c) \/ (away(b) = away(c) /\ b <= c)

\* reward: the receivers served, -1 for None.
Reward(a) ==
  LET b == SubbandFor(a.mhz)
  IN  IF b = 0 THEN -1
      ELSE Cardinality({r \in DOMAIN ChannelGains :
                          Eirp(a) + ChannelGains[r][b] >= RequiredEirp})

\* optimal_feasible_reward: over the centres of the subbands, at the cap.  The
\* carrier of an edge subband need not fit the band, so it is a bound only.
OptimalFeasibleReward ==
  Max({Reward([mhz |-> SubbandCentres[b], dbm |-> EnvCap - AntennaGain]) :
         b \in DOMAIN SubbandCentres} \cup {0})

\* The three invariants that can bite on this payload.
SanePayload(a) == a.mhz > 0 /\ a.dbm # Unbounded /\ envWidth > 0
OccupiedInBand(a) == a.mhz * 2 - envWidth >= 2 * EnvLow /\ a.mhz * 2 + envWidth <= 2 * EnvHigh
UnderCap(a) == Eirp(a) <= EnvCap

\* is_feasible: nothing for the Shield to correct.
IsFeasible(a) == SanePayload(a) /\ OccupiedInBand(a) /\ UnderCap(a)

\* feasible_mask_grid(fast=True), one cell: the vectorised restatement.
FeasibleMask(a) ==
  /\ a.mhz # NotANumber /\ a.mhz > 0 /\ envWidth > 0
  /\ a.mhz * 2 - envWidth >= 2 * EnvLow /\ a.mhz * 2 + envWidth <= 2 * EnvHigh
  /\ a.dbm # Unbounded /\ Eirp(a) <= EnvCap

\* dispose and the guards: what is not sane, or too wide for the band, is blocked
\* as it stands; the rest is moved and cut.
DisposeCarrier(a) ==
  IF ~SanePayload(a) \/ envWidth > EnvHigh - EnvLow THEN [safe |-> a, refused |-> TRUE]
  ELSE [safe |-> [mhz |-> Max({EnvLow + envWidth \div 2,
                               Min({a.mhz, EnvHigh - envWidth \div 2})}),
                  dbm |-> Min({a.dbm, EnvCap - AntennaGain})],
        refused |-> FALSE]

\* What step() records of a proposal: it, its projection, and what that earned.
StepRow(a) ==
  LET d == DisposeCarrier(a)
  IN  [kind |-> "step", proposed |-> a, executed |-> d.safe,
       reward |-> Reward(d.safe), refused |-> d.refused,
       projected |-> d.safe.mhz # a.mhz \/ Eirp(d.safe) < Eirp(a)]

\* step: project, execute, record; an executed action without a reward raises
\* before anything is recorded.
StepEnv(a) ==
  /\ Len(envStore) < MaxEnvRows
  /\ StepRow(a).reward # -1
  /\ envStore' = Append(envStore, StepRow(a))
  /\ UNCHANGED <<envWidth, envEdited, envReplay>>

\* Another program records a decision of another shape in the same store.
OtherRow ==
  /\ Len(envStore) < MaxEnvRows
  /\ envStore' = Append(envStore, [kind |-> "other"])
  /\ UNCHANGED <<envWidth, envEdited, envReplay>>

\* A row is changed on disk: its reward.
EditReward(i) ==
  /\ envStore[i].kind = "step" /\ ~envEdited
  /\ envStore' = [envStore EXCEPT ![i].reward = @ + 1]
  /\ envEdited' = TRUE
  /\ UNCHANGED <<envWidth, envReplay>>

\* load_transitions, one row: a row that is no step is passed over.
NextTransition(out, row) == IF row.kind = "step" THEN Append(out, row) ELSE out

\* load_transitions: a store that does not verify yields nothing.
LoadTransitions ==
  /\ envReplay' =
       IF envEdited THEN [outcome |-> "refused", transitions |-> <<>>]
       ELSE [outcome |-> "loaded",
             transitions |-> FoldLeft(NextTransition, <<>>, envStore)]
  /\ UNCHANGED <<envWidth, envStore, envEdited>>

EnvNext ==
  \/ \E a \in Proposals : StepEnv(a)
  \/ OtherRow
  \/ \E i \in DOMAIN envStore : EditReward(i)
  \/ LoadTransitions

EnvSpec == EnvInit /\ [][EnvNext]_envVars

EnvTypeOK ==
  /\ envWidth \in EnvWidths
  /\ Len(envStore) <= MaxEnvRows
  /\ envReplay.outcome \in {"none", "loaded", "refused"}
  /\ \A i \in DOMAIN envStore :
       envStore[i].kind = "step" =>
         envStore[i].reward \in 0..(Cardinality(DOMAIN ChannelGains) + MaxEnvRows)

\* What a learner is told is what the loop does.  The mask it consults marks
\* exactly the proposals the Shield passes unchanged, the edge carriers of the
\* band and values that are no numbers included; and a transition it trains on,
\* unless marked as refused, was executed inside the limits, earned the reward
\* noted, no better than the optimum regret is measured against, and is marked as
\* projected exactly if it is not what was proposed.
LearnerToldTruth ==
  /\ \A a \in Proposals :
       /\ FeasibleMask(a) <=> IsFeasible(a)
       /\ FeasibleMask(a) <=> DisposeCarrier(a) = [safe |-> a, refused |-> FALSE]
  /\ \A i \in DOMAIN envReplay.transitions :
       LET t == envReplay.transitions[i]
       IN  /\ t.reward = Reward(t.executed)
           /\ ~t.refused => /\ IsFeasible(t.executed)
                            /\ t.reward <= OptimalFeasibleReward
           /\ t.projected <=> t.executed # t.proposed
=============================================================================
