------------------------------ MODULE MCRuntime ------------------------------
(***************************************************************************)
(* The parts of the rApp that share no state, checked in one run: each     *)
(* behaviour is one of a single part, the others staying as they began.    *)
(***************************************************************************)
EXTENDS Lifecycle, Degradation, Liveness, LoopState, A1Policy, A1Auth, O1Session,
        AccessControl, Hsm, OperatorApi, Nis2Reporter, ShadowExecutor,
        ArtefactVault, Registries, KafkaFeed, Connectors, KpmBridge,
        SecureAggregation, Federated, ShieldedEnv, Anchoring

VARIABLE part

vars == <<part, lcVars, degVars, liveVars, loopVars, a1Vars, authVars, o1Vars,
          acVars, hsmVars, opVars, nsVars, shVars, vaultVars, regVars, kfVars,
          cnVars, kpVars, agVars, fedVars, envVars, anVars>>

Parts == {"lifecycle", "degradation", "liveness", "loop", "a1", "auth", "o1",
          "access", "hsm", "operator", "nis2", "shadow", "vault", "registry",
          "kafka", "connectors", "kpm", "secagg", "federated", "env",
          "anchoring"}

\* Updates and noise, in tenths of a quantum: two of the updates lie half way.
SignedUpdates == {-12, 5, 15}
DrawnNoise == {-3, 8}

\* Honest clients' data, agreeing or not.
ClientData == {<<0, 0, 0, 0>>, <<0, 0, 0, 16>>, <<0, 4, 8, 12>>, <<40, 8, 4, 0>>,
               <<-8, 0, 4, 40>>}

\* A part that does not move starts in one of its initial states.
Init ==
  /\ part \in Parts
  /\ LcInit /\ DegInit /\ LiveInit /\ LoopInit /\ A1Init /\ AuthInit /\ O1Init
  /\ AcInit /\ HsmInit /\ OpInit /\ NisInit /\ ShInit /\ VaultInit /\ RegInit
  /\ KfInit /\ CnInit /\ KpInit /\ AgInit /\ FedInit /\ EnvInit
  /\ AnInit
  /\ part # "operator" => opApi = "dashboard"
  /\ part # "registry" => regOf = "guards"
  /\ part # "secagg" => scheme = "shamir"
  /\ part # "federated" =>
       fedMethod = "median" /\ fedClients = <<>>
  /\ part # "env" => envWidth = 20

Still(p, v) == IF part = p THEN TRUE ELSE UNCHANGED v

\* Part p takes the step A.
In(p, A) ==
  /\ part = p
  /\ A
  /\ UNCHANGED part
  /\ Still("lifecycle", lcVars) /\ Still("degradation", degVars)
  /\ Still("liveness", liveVars) /\ Still("loop", loopVars)
  /\ Still("a1", a1Vars) /\ Still("auth", authVars) /\ Still("o1", o1Vars)
  /\ Still("access", acVars) /\ Still("hsm", hsmVars)
  /\ Still("operator", opVars) /\ Still("nis2", nsVars)
  /\ Still("shadow", shVars) /\ Still("vault", vaultVars)
  /\ Still("registry", regVars) /\ Still("kafka", kfVars)
  /\ Still("connectors", cnVars) /\ Still("kpm", kpVars)
  /\ Still("secagg", agVars) /\ Still("federated", fedVars)
  /\ Still("env", envVars) /\ Still("anchoring", anVars)

Next ==
  \/ In("lifecycle", LcNext) \/ In("degradation", DegNext)
  \/ In("liveness", LiveNext) \/ In("loop", LoopNext)
  \/ In("a1", A1Next) \/ In("auth", AuthNext) \/ In("o1", O1Next)
  \/ In("access", AcNext) \/ In("hsm", HsmNext) \/ In("operator", OpNext)
  \/ In("nis2", NisNext) \/ In("shadow", ShNext) \/ In("vault", VaultNext)
  \/ In("registry", RegNext) \/ In("kafka", KfNext)
  \/ In("connectors", CnNext) \/ In("kpm", KpNext)
  \/ In("secagg", AgNext) \/ In("federated", FedNext)
  \/ In("env", EnvNext) \/ In("anchoring", AnNext)

Spec == Init /\ [][Next]_vars

\* The event loop runs every coroutine that can go on, a wait ends at its
\* deadline, a cancelled task ends, and each detector keeps calling enter().
FairSpec ==
  /\ Spec
  /\ WF_vars(In("lifecycle", MainStep))
  /\ WF_vars(In("lifecycle", WatchdogBegins))
  /\ WF_vars(In("lifecycle", DrainTimesOut))
  /\ \A t \in Planners :
       WF_vars(In("lifecycle", planner[t] = "cancelling" /\ EndTask(t)))
  /\ \A m \in Modes : /\ WF_vars(In("degradation", Enter(m)))
                      /\ WF_vars(In("degradation", RaiseAlarm(m)))

Entry(kind, name, fn) == [kind |-> kind, name |-> name, fn |-> fn]

\* A guard that passes, one that fails, and a connector.
ShippedPlugins == {Entry("guard", "b1", "passes"), Entry("guard", "b2", "fails"),
                   Entry("source", "file", "C1"), Entry("sink", "file", "C2")}

\* Installed plug-ins: a guard and a sink, one that does not load, and a guard
\* that raises when it is run.
Plugins == <<Entry("guard", "p1", "passes"), Entry("sink", "p1", "C3"),
             Entry("broken", "p2", "none"), Entry("guard", "p3", "raises")>>

\* What the program registers: over built-ins, over plug-ins, something that is
\* neither, and under a name of its own.
OwnPlugins == {Entry("guard", "b1", "raises"), Entry("guard", "p1", "fails"),
               Entry("data", "mine", "none"), Entry("guard", "mine", "passes"),
               Entry("source", "file", "C4"), Entry("sink", "p1", "C5")}

TopicWithOneBad ==
  [i \in 1..4 |-> IF i = 3 THEN "malformed" ELSE "event"]

MixedSchemas == <<"telemetry", "audit", "telemetry">>

\* Carriers at the edges of the band, outside it and undefined; powers under, at
\* and over the cap, and unbounded.
CarrierMHz == {3299, 3310, 3350, 3391, NotANumber}
CarrierDbm == {20, 30, 31, Unbounded}
Centres == <<3305, 3375>>

\* Two receivers, each reached in one subband only.
PathGains == <<<<-90, -100>>, <<-100, -90>>>>
NeededDbm == -60

\* What is asked of the part that moves; the others are as they began.
Of(p, P) == part = p => P

\* The type invariants of the parts.
TypesOK ==
  /\ Of("lifecycle", LcTypeOK) /\ Of("degradation", DegTypeOK)
  /\ Of("liveness", LiveTypeOK) /\ Of("loop", LoopTypeOK) /\ Of("a1", A1TypeOK)
  /\ Of("auth", AuthTypeOK) /\ Of("o1", O1TypeOK) /\ Of("access", AcTypeOK)
  /\ Of("hsm", HsmTypeOK) /\ Of("operator", OpTypeOK) /\ Of("nis2", NisTypeOK)
  /\ Of("shadow", ShTypeOK) /\ Of("vault", VaultTypeOK) /\ Of("registry", RegTypeOK)
  /\ Of("kafka", KfTypeOK) /\ Of("connectors", CnTypeOK) /\ Of("kpm", KpTypeOK)
  /\ Of("secagg", AgTypeOK) /\ Of("federated", FedTypeOK) /\ Of("env", EnvTypeOK)
  /\ Of("anchoring", AnTypeOK)

\* However keys rotate, tokens expire and operators are changed meanwhile, a
\* credential is honoured for exactly what it was issued for: API requests
\* (AccessSound), hardware keys (HandlesKeepKeys), and A1 requests whose token
\* outlasts them (TokenOutlastsRequest).
CredentialsSound ==
  /\ Of("access", AccessSound) /\ Of("hsm", HandlesKeepKeys)
  /\ Of("auth", TokenOutlastsRequest)

\* Telemetry reaches the pipeline whole: no message of a topic is passed over
\* unseen, what a sink was given is delivered or reported, and an indication
\* becomes events that say what it said.
TelemetryKept ==
  /\ Of("kafka", NoMessagePassedOver) /\ Of("connectors", DeliveryAccounted)
  /\ Of("kpm", EventsFaithful)

\* The federation's arithmetic keeps its promises: an aggregate is proven, a
\* poisoner's influence bounded and found, and what is unlearned or erased gone.
FederationSound ==
  /\ Of("secagg", AggregateProven)
  /\ Of("federated", InfluenceBounded /\ DetectionFlags /\ UnlearnExact /\ ErasureExact)

\* What a policy learns from and is promoted on is what happened: the shadow's
\* verdict counts the decisions it saw (PromotedOnTruth), and the learner's masks
\* and transitions are the loop's (LearnerToldTruth).
LearningOnTruth == Of("shadow", PromotedOnTruth) /\ Of("env", LearnerToldTruth)

\* What an operator or an auditor reads of the evidence is what was recorded: the
\* APIs' answers (ApiTruthful) and the anchors of the chain (AnchorsHold).
EvidenceTruthful == Of("operator", ApiTruthful) /\ Of("anchoring", AnchorsHold)

\* An rApp's words to systemd, the SMO and the checkpoint are true
\* (OutsideToldTruth, CountNeverAhead), and it has fallen silent before it
\* closes its clients (NoEmitAfterClose).
LifecycleTruthful ==
  Of("lifecycle", OutsideToldTruth /\ CountNeverAhead /\ NoEmitAfterClose)
=============================================================================
