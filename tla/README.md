# Horizon-RIC: TLA+ models and proofs

TLA+ models of the Horizon-RIC rApp (`src/src/horizon_ric/`), the TLC
configurations that check them on small instances, and theorems that TLAPS
proves for every value of the constants. `PROJECT.json` lists components, runs,
the definitions and the source lines they model, mutants, hazards and theorems.

## 1. The system

Horizon-RIC is an O-RAN rApp. A daemon reads telemetry events, plans a policy
for each, has the policy checked by the Decision Safety Shield, sends it to the
Near-RT RIC over A1 and writes a hash-chained evidence record. Around that loop
are circuit breakers, an alarm bus, model promotion, degradation modes, health
and liveness probes, and operator APIs.

```
 telemetry -> Daemon -> DecisionPipeline -> Shield -> emit guards
                |             |                          |
            checkpoint        |                 A1 adapter (breaker, auth) -> RIC
                |             v                          |
             restart    EvidenceStore (JSONL, SQLite, Postgres)   AlarmBus
 AtomicPromoter -> the model in use         Degradation, LoopState, health probes
```

### Inventory

| Component | State | Operations | What is hard | What makes it correct |
|---|---|---|---|---|
| Evidence store (`evidence/store.py`) | rows, per-tenant chain heads, instance lock, Postgres advisory lock | append, verify, verify_tenant | threads and processes, torn writes, lost commit replies, a walk while rows are added | chains stay linear; a loss or an edit is noticed; no false alarm; locks are released |
| Daemon (`rapp/daemon.py`) | checkpoint, stop flag, counters | start, tail, account, save, shutdown | crash between emission and checkpoint, failed saves, signals | no event skipped; nothing repeated after a clean stop; it stops |
| Decision pipeline (`rapp/pipeline.py`) | one decision in progress, audit rows, chain-length gauge | plan, dispose, guard, PUT, record, retry | PUT and append fail separately; late answers of the RIC | rows tell the truth; one row per decision; nothing un-evidenced |
| A1 adapter (`rapp/a1_adapter.py`) | policy table, breaker, token | put, get, delete, subscribe | timeouts with the policy live | the answer given is the RIC's |
| Circuit breaker (`runtime/circuit_breaker.py`) | state, failure counter, time it opened | call, reset, listener | overlapping calls, late results | threshold, reset window, recovery, alarms |
| Alarm bus (`observability/x733_alarms.py`) | active alarms by key | emit, emit_event | several sources share a key | the active list tells the sources' states |
| Shield (`shield/`), LI constraint, emit guards (`policy/`) | none between calls | check, dispose, guard chain | projections that interact, rounding, malformed inputs, bounded passes | only safe actions leave; least change; every change audited |
| Atomic promoter (`runtime/atomic_promotion.py`) | slots with in-flight counts, active/previous pointers, draining list, events | get, release, promote, rollback | readers racing a swap, overlapping drains, timeouts | a model is not released while in use; events form a chain |
| LoopState (`runtime/loop_state.py`) | state, history | transition, replay | the sink raises or re-enters under the lock | only table edges; history matches the state |
| Degradation (`runtime/graceful_degradation.py`) | mode, reason, buffers | enter, recover, buffer, hold, drain | alarms raised after the lock is released; one recovery ends all modes | the alarm list tells the mode; a dependency that stays down keeps being noticed |
| Lifecycle, R1, health, state recovery (`rapp/lifecycle.py`, `rapp/r1_adapter.py`, `rapp/health.py`, `runtime/state_recovery.py`) | lifecycle state, planner tasks, registration, checkpoint file | boot, serve, shutdown, probes, checkpoint | tasks tracked during the drain, failed boots, crash in a save | drained before clients close; systemd, SMO and probes are told the truth; a stop ends the process |
| Liveness, watchdog (`runtime/liveness.py`, `watchdog.py`) | ages, loop lag, providers | heartbeat, probe, evaluate | timers on the very loop they judge | a hung loop is noticed, a live one is not reported |
| A1 authentication (`rapp/auth.py`) | token, expiry, lock | get token, refresh | requests that queued with an old clock | a token outlasts the request it is given to |
| O1 adapter (`rapp/o1_adapter.py`) | the session | connect, close, operations, notifications | cancelled connects, drops, operations without the lock | no session is lost track of |
| Access control (`security/jwt.py`, `rbac.py`, `middleware.py`, `scripts/horizon_security.py`) | signing keys, bindings in memory and on disk | mint, verify, rotate, add, remove, decide | rotation under live tokens, two processes on one file | rotation costs nobody access; a revoked role is refused |
| Key custody, provenance (`security/hsm.py`, `provenance/signing.py`) | key pairs by label | generate, sign, wrap, sign_model | labels that PKCS#11 takes twice | a handle keeps its key |
| Operator APIs (`rapp/api_v1.py`, `rapp/dashboard_api.py`) | list, chain, users | submit, list, verify, login | two appends per submit, several reads per answer | what is answered is in the chain |
| NIS2 reporter (`security/nis2_reporter.py`) | window of events | record, check, trigger | deliveries that fail, window edges | every incident delivered or evidenced |
| Shadow executor, vault (`runtime/shadow_executor.py`, `artefact_vault.py`) | log; files | step, annotate, recommend; store, retrieve | overlapping steps, crash between writes | promotion on what happened; no torn artefact |
| Telemetry (`io/`, `e2/kpm_bridge.py`) | offsets, files, numbering | stream, write, retry, decode | crashes around commits, lost answers, NaN, word order | nothing is passed over or said wrongly |
| Registries (`policy/guard_registry.py`, `io/registry.py`) | names | register, look up, load plug-ins | lookups during the load | names keep their first binding; no guard is skipped |
| Federation (`federated/`) | models, uploads, shares, logs | train, aggregate, unlearn, erase, share, verify | poisoners at the breakdown point, altered shares, wrap-around | bounded influence, exact sums, unlearned means gone |
| Learning loop (`learning/shield_env.py`) | transitions in a store | step, mask, replay | restated predicates at the edges | the learner is told what the loop does |
| Anchoring (`evidence/rfc3161.py`) | time of the last anchor | anchor, verify | rows appended while an authority is asked | a verified chain was signed as it is |
| PHY and spectrum simulation, observability, data sets, command line | see `PROJECT.json` | | floating-point numerics, rendering, I/O | |

## 2. Modules

| Module | Models | Composes |
|---|---|---|
| `EvidenceLedger` | what a caller of append() may rely on: an append-only sequence per tenant, and acknowledged hashes of its prefixes | abstract specification |
| `EvidenceStore` | `evidence/store.py`, the scope of `security/tenant.py` | refines `EvidenceLedger` |
| `AlarmBus` | the event table and the registry of active alarms | extended by `CircuitBreaker` |
| `CircuitBreaker` | `runtime/circuit_breaker.py`; pybreaker is external | `AlarmBus` |
| `DecisionLoop` | daemon, pipeline and A1 emission, as one process with crashes and restarts, and the RIC as environment | the verdicts of `Shield`, of the breaker and of the store are choices here, constrained in their own modules |
| `Shield` | `shield/`, `policy/li_constraint.py`, `policy/emit_guards.py`, and how the pipeline uses them | its two outcomes are the `refused` choice of `DecisionLoop!Decide` |
| `AtomicPromotion` | `runtime/atomic_promotion.py` | |
| `Lifecycle` | `rapp/lifecycle.py`, `rapp/r1_adapter.py`, `runtime/state_recovery.py`, `rapp/health.py`, the notifications of `runtime/watchdog.py` | one process on one event loop, over restarts |
| `Degradation` | `runtime/graceful_degradation.py` | extends `AlarmBus` |
| `Liveness` | `runtime/liveness.py`, `runtime/watchdog.py` | |
| `LoopState` | `runtime/loop_state.py` | |
| `A1Policy` | planner candidates, `rapp/a1_adapter.py`, `deploy/osc_emulator/server.py` | planner, adapter, network and RIC together |
| `A1Auth` | `rapp/auth.py`, its configuration in `rapp/lifecycle.py` | |
| `O1Session` | `rapp/o1_adapter.py` | |
| `AccessControl` | `security/jwt.py`, `rbac.py`, `middleware.py`, `rapp/api.py`, `scripts/horizon_security.py` | server, command line and file together |
| `Hsm` | `security/hsm.py`, `provenance/signing.py` | |
| `OperatorApi` | `rapp/api_v1.py`, `rapp/dashboard_api.py` | |
| `Nis2Reporter`, `ShadowExecutor`, `ArtefactVault` | the file of that name | |
| `Registries` | `policy/guard_registry.py`, `io/registry.py` | |
| `KafkaFeed`, `Connectors`, `KpmBridge` | `io/`, `e2/kpm_bridge.py`, the Kafka side of `rapp/daemon.py` | |
| `SecureAggregation`, `Federated` | `federated/` | |
| `ShieldedEnv` | `learning/shield_env.py` with the Shield as it meets this payload | |
| `Anchoring` | `evidence/rfc3161.py` | |
| `MCRuntime` | the modules from `Lifecycle` on, side by side | one part moves in each behaviour |
| the other `MC*` | instances for TLC | |
| `EvidenceStoreProofs`, `CircuitBreakerProofs`, `DecisionLoopProofs`, `AtomicPromotionProofs`, `ShieldProofs` | theorems about the module of that name | |
| `InterfaceProofs` | theorems about `O1Session`, `A1Auth`, `AccessControl`, `Hsm`, `A1Policy`, `OperatorApi` | |
| `ServiceProofs` | theorems about `Degradation`, `Lifecycle`, `ArtefactVault`, `Liveness`, `LoopState`, `Nis2Reporter`, `Registries`, `Anchoring`, `KafkaFeed`; lemmas about folds; theorems about `Connectors`, `KpmBridge`, `ShadowExecutor`, `ShieldedEnv`, `Federated` | |
| `RuntimeProofs` | theorems about `SecureAggregation`, and what all of them give for the parts together | `MCRuntime`, `InterfaceProofs`, `ServiceProofs` |

### How state and actions correspond to the code

*EvidenceStore.* A hash is the sequence of records it commits to (SHA-256 is
taken to be injective), so `Chain` appends and a forked or edited chain is a
sequence that does not extend its predecessor's. One action per step at which
another thread or process can come between: `AcquireLock`, `AdvisoryLock`
(Postgres), `ReadPrev`, `WriteRow`, `Return`, and a failing counterpart of each
step that can raise. `CommitReplyLost` is a commit whose acknowledgement never
arrives, so the caller sees an error for a stored row. `Crash` ends all threads
of a process and may leave a torn last line in a JSONL file. `VerifyStart`,
`VerifyRow`, `VerifyEnd` walk row by row; SQLite and Postgres walk a snapshot,
JSONL sees rows added meanwhile. `EditRow` is a row changed out of band.

*CircuitBreaker.* A call remembers the breaker, the state that admitted it and
whether the remote side was up. Its result is applied in `Finish` to the state
the breaker is in by then. Time is a count-down of the reset window.

*DecisionLoop.* `pc` is the place of the daemon's coroutine. A decision carries
its fate at the RIC (unsent, sent, accepted, refused), which the RIC decides in
its own time (`RicAccepts`, `RicRefuses`), also after the PUT has timed out.
`Account` holds all the daemon does after process_event() returns: counters,
checkpoint, its save that may fail. `Halt` is a signal that ends the loop,
`Crash` loses everything but the stored rows and the saved checkpoint.

*Shield.* `Actions` holds the fields that invariants read. Frequency, power and
PRBs are integers; one unit of frequency or power is one floating-point rounding
unit, and a projected value may be off by up to `MaxError` units, so the
re-checks of dispose() matter. PFD is power plus an offset that no projection
changes. A comparison of two error rates is a Boolean (`honest`, `measured`).
`Check`, `ProjectNext` and `Certify` are the head, the body and the tail of
dispose(); `Guard` is the guard chain with the pipeline's hardware floor.

*AtomicPromotion.* Slots are never removed from the model, so a reader can hold
one that the code has dropped. release() is three steps (look at the active
slot, look through the draining ones, decrement), because readers may be
threads. Promoters are coroutines of one event loop: a swap is atomic up to its
await. `reused` is a history variable: some SHA was installed while in use.

*The parts in MCRuntime.* They share no state, so their product would only
multiply states: `part` picks one, whose actions run while the others stay as
they began, and `Of(p, P)` asks P of part p. Every module has a prefix of its own
for its variables, an `Init`, a `Next` and a type invariant. What a step is
follows from who can come in between:

- on one event loop (`Lifecycle`, `A1Auth`, `O1Session`, `Connectors`,
  `KafkaFeed`) a step reaches from one await to the next, and a task may be
  cancelled at each; worker threads of `O1Session` go on without their task;
- with threads (`Degradation`, `LoopState`, `OperatorApi`, `ShadowExecutor`,
  `Registries`, `Hsm`) it is what is done under one lock, or one access without;
- across processes (`AccessControl`, `ArtefactVault`) it is one read or one
  write of a file, and a crash may come after each;
- over a network (`A1Policy`, `Connectors`, `Nis2Reporter`, `Anchoring`) a request
  and its answer are lost separately, and a request that timed out may arrive.

Ghost variables (marked as such) record what really happened: who emitted, what
was asked for, which token was signed. In `AccessControl`, `Hsm`, `Anchoring` and
`SecureAggregation` a signature, ciphertext or hash is the key or the content it
stands for; group, field and share prime of `SecureAggregation` are small and of
the code's shape (P = 2Q + 1, G of order Q). `Federated` works on one coordinate
in integers. `KpmBridge` keeps the two words of a time stamp as digits of base
`WordBase`, with the window at the same place relative to them.

## 3. Runs

All bounds are CONSTANTs of the cfg files. Passing runs end in under two
minutes with two workers.

| Run | Instance | Shows |
|---|---|---|
| `EvidenceStore_threads` | JSONL, one process, 2 threads, 3 rows of two kinds, one row edited | chains stay linear through failed writes, torn lines and crashes; any lost row but a tenant's last shows; verify() names the first edited row in scope and nothing else |
| `EvidenceStore_postgres` | two processes, 3 rows of two kinds, fair | refinement of `EvidenceLedger`, locks released |
| `EvidenceStore_two_processes` | JSONL, two processes | **violation** of `ChainLinear` |
| `CircuitBreaker_one` | one breaker, 3 overlapping calls, threshold 3, window 2, fair | threshold, window, alarm and recovery |
| `CircuitBreaker_alarms` | two breakers | **violation** of `OpenIsAlarmed` |
| `DecisionLoop_restarts` | 2 events, 3 decisions, 3 starts | truth and completeness of the audit, no event skipped, checkpoints, gauge |
| `DecisionLoop_live` | 2 events, 2 starts, fair | the source is drained, a signal is honoured |
| `DecisionLoop_unevidenced` | one start | **violation** of `EvidencedOnly` |
| `AtomicPromotion_readers` | 2 readers, 2 promoters, 3 slots, fair | counts, drains, events, swaps return |
| `AtomicPromotion_rollback` | the same, 4 slots | **violation** of `DrainedMeansUnused` |
| `Shield_dispose` | default terrestrial and NTN chains, the slice floor and a chain that legalises the constellation first, 3 passes, rounding of one unit, all contexts | see below |
| `Runtime_parts` | two tasks, threads or processes of each kind, two starts, two to four items; see the cfg | see below |

Why the bounds are enough. Three rows give a first, a middle and a last row of a
chain, and two tenants interleave in them; a lock has one holder, so a third
thread would only be one more waiter (the theorems are for any number). The
`VIEW` of that run leaves out the returned hashes, which no action and none of its
properties reads. Three overlapping calls with a threshold of three let results arrive in
every state of the breaker, two transitions late. Three starts cover a crash
after a resume; two events cover "before", "at" and "after" the resume point.
Three slots let two drains overlap and end in either order. For the Shield each
field has a value inside, on and outside its limit; projections are piecewise
linear, and two passes with an error before a third show that errors do not add
up. DecisionLoop and Shield runs stop: the source is at its end and no start is
left, or the call has returned, so deadlock is not checked there. The same holds
of `Runtime_parts`, whose parts stop at their bounds.

In `Runtime_parts` two actors suffice for every race the code has, as no lock or
file there is shared in a way that needs a third; clocks run past the longest
interval once (token life, overlap, window, cadence); queues hold one item more
than their bound; and inputs have a value below, at and above each threshold. The
federation has five clients, of which one may poison, the smallest number for
which Krum and the trimmed mean are defined with something left to choose. Secrets
are shared among four holders with a threshold of three, so that the polynomials have
degree two and a mean is recovered both from just enough holders and from one more.

What `Shield_dispose` shows: what is emitted satisfies every invariant
(`EmittedSafe`); only what no projection can mend, or what was rounded badly in
the last pass, is blocked, and the certificate names the fallback in force
(`VerdictHonest`); a certified action is the proposal changed as little as
possible (`LeastChange`); every change has a correction and every correction a
cause (`ChangesAudited`).

What `Runtime_parts` shows, part by part:

| Property | Shows |
|---|---|
| `TypesOK` | the type invariant of each part |
| `LifecycleTruthful` | no emit after the adapters close; systemd, SMO and probes are told the truth; the checkpointed count is never ahead |
| `StopEndsProcess` | a stop signal ends the process, also with tasks that do not end |
| `AlarmMatchesMode`, `FailureNoticed` | the alarm tells the mode once transitions do not overlap; a dependency that stays down keeps degrading the rApp, although one recover() ends every mode |
| `HealthzTruthful` | a stall is reported when it ends and a free loop is not reported |
| `HistoryTellsState` | state, history and sink agree, whatever the sink does |
| `PoliciesAsAnswered` | what the adapter answered is what the RIC holds, through lost and late requests; planner and schema agree |
| `SessionsAccounted` | no NETCONF session is lost, but for connects cancelled half way |
| `CredentialsSound` | rotation without downtime, revocation, key handles, A1 tokens that outlast their requests |
| `EvidenceTruthful` | a submit that was answered is listed and chained; verdicts lie within the chain; anchors were signed for the rows before them |
| `ReportsComplete` | every incident is delivered or its failure evidenced; the rate is judged over exactly its window |
| `LearningOnTruth` | outcomes belong to their decisions while steps do not overlap; masks and replayed transitions are the loop's |
| `ArtefactsWhole` | no torn artefact, whatever store() dies in the middle of |
| `GuardsKept` | names keep their first binding; a chain run after a complete load has every guard |
| `TelemetryKept` | no message behind the offset was passed over; sinks deliver or report; indications become true events |
| `FederationSound` | altered aggregates are found and the others exact; poisoners' influence is bounded; unlearned and erased data is gone |

### Fairness

- `EvidenceStore`: weak fairness of every step of a thread inside append(), since
  every database call returns or raises; strong fairness of the advisory lock,
  since Postgres queues its waiters. No fairness for callers, crashes or faults.
- `CircuitBreaker`: weak fairness of the clock, of results (every wrapped call has
  a timeout) and of callers (the daemon keeps calling). `Recovers` also assumes
  that the remote side stays up from some time on.
- `DecisionLoop`: weak fairness of the coroutine, as every wait in it has a
  timeout, and of the supervisor that starts the process again.
- `AtomicPromotion`: fairness of promoters only, from asyncio's ready queue; a
  reader may hold a model forever.
- `Runtime_parts`: weak fairness of the main coroutine, the watchdog's start, the
  drain's deadline and the end of a cancelled task, which asyncio's ready queue
  and timers give; and of each detector, which by the controller's docstring
  reports its dependency as often as it finds it down. Callers, signals, planner
  tasks that are not cancelled, networks and crashes are not fair.

### Findings

1. Two processes on one JSONL file fork the chain (`evidence/store.py:218`).
2. Breakers share one alarm key, so one closing clears another's alarm
   (`observability/x733_alarms.py:229`).
3. When the append and its retry both fail, a policy is live and reported as
   accepted with no row (`rapp/pipeline.py:548`).
4. After a rollback to a model still held, release() decrements the wrong slot
   and a drain ends early (`runtime/atomic_promotion.py:113`).

Seen while modelling, and visible as an exception in a property above or as a
hazard in `PROJECT.json`:

- a half-open breaker admits every call that comes before the first answer,
  although its comment allows "one trial call", and may be closed by a late
  answer to a call from before it opened;
- `emit_failed` can be the verdict of a policy that goes live after the timeout;
  events between the last saved checkpoint and a crash are emitted again;
- a boot that fails after R1 registration leaves the SMO with the registration;
- one malformed Kafka message ends the generator and with it the daemon's loop,
  where the comment at `rapp/daemon.py:564` keeps the daemon alive; a consumer
  group without an offset starts at the end of its topic;
- the window for E2 collection times ends at 1e19 microseconds
  (`e2/kpm_bridge.py:173`), not in the year 2286 its docstring names, so
  FlexRIC's word order can be misread; a first metric that is NaN hides the rest;
- a conflicting entry point raises out of the first lookup, and later ones go on
  without the remaining plug-ins (`policy/guard_registry.py:121`);
- vault processes share the name of the temporary file, and the metadata is
  written in place; shadow outcomes are attached by position;
- SoftHSM's export_public() returns the bare modulus, which verify_model() cannot
  load; sign_model() lists before it generates;
- a role saved by a process that had not loaded another's change undoes it;
- rows appended while an anchor is fetched make verify_chain_with_anchors() fail
  on an untouched chain; overlapping anchor() calls break the cadence;
  verify_anchor() compares imprints only, while its docstring also names the
  nonce and the signature;
- the erasure of a subject leaves it in other clients' logs;
- optimal_feasible_reward() takes the centre of every subband, the edge ones
  included whose carriers do not fit: it bounds the reward, and need not be
  reached; the reward of a refused action is recorded (with `guard_refused`).

## 4. Proofs

TLAPS proves, from the ASSUMEs of the modules alone:

- **EvidenceStoreProofs.** `ChainAlwaysLinear` and `StoreImplementsLedger`, under
  the condition `Serialised` (one process, or Postgres), which the violation run
  shows to be needed. `ChainLinear` is not inductive: a writer's `prev` may be
  stale. `ChainInv` adds that the threads inside the critical section hold the
  locks (`LocksHeld`), that what they have read is still the last hash of their
  tenant (`PrevFresh`) and that returned hashes are of stored prefixes
  (`ReturnsPrefix`). `LossAlwaysNoticed` follows from the linear chain: the rows of
  a tenant before and after a lost one no longer fit, and no others are touched.
  `VerifyAlwaysExact` needs what a walk knows half way: that it has seen the
  chains of its scope up to its position and no edited row before it.
- **CircuitBreakerProofs.** `BreakerSafe`, `WindowAlwaysRespected` for any number
  of breakers and calls; `LoneBreakerAlarm` for a single breaker on the bus.
- **DecisionLoopProofs.** `VerdictsAlwaysTrue` and `OneRowAlways` from
  `PipelineInv`, which relates `pc` to the fate and the rows of the decision in
  progress; `NoEventEverSkipped` from `ReaderInv`: every checkpoint, saved or
  not, is behind the reader, and all before it was handed on.
  `RestartAlwaysSound` needs three more facts. `GaugeInv`: between two events the
  gauge counts the rows unless an append failed or a decision ended in an error.
  `EmittedInv`: the counts in memory and on disk are at most the live policies of
  finished decisions. `OnceInv`, while no checkpoint is lost and ids are
  distinct: a finished decision's event lies before the checkpoint, so a resume
  (`ResumeBehind`) never reads it again.
- **AtomicPromotionProofs.** `ReadersAlwaysCounted` and `DrainAlwaysWaits` while no
  SHA in use is installed again (`~reused`), from `ReleaseInv`: a reader's search
  ends in its own slot (`OwnSlot`). `EventsAlwaysConnect` from `EventsInv`.
- **ShieldProofs.** `EmittedIsSafe` and `ProjectedIsChanged` from `CertInv`, which
  relates the flags of dispose() to the feasibility of what went in and of what
  is there; `ChangesAreAudited` and `CertifiedIsLeastChange` from `ChangeInv`:
  the action at any moment is within `Change` of the proposal, given the
  corrections so far. It rests on `ProjectOwns` (which fields each projection may
  change), `ProjectChanges` (one more projection stays within `Change`) and
  `CorrectsFaulted` (no projection makes an action violate what the proposal
  satisfied). All hold for any chain that starts with the numeric domains, in any
  order, and for any rounding error. `OrdersAssumption` states what finiteness
  of `allowed_orders` gives. `VerdictAlwaysHonest` is from `VerdictInv`: the
  certificate's fallback is the one in force (`FallbackInv`), what blocks a
  hopeless proposal stays until the end (`HopelessInv`), and after an exact pass
  every projection that has run has mended its invariant, which no later one
  undoes (`MendInv`). The proof showed that an order matters after all: a chain that
  legalises the constellation before it checks the receiver falls back to
  classical QAM first, which takes the neural receiver along, and a malformed
  measurement then blocks nothing. `ReceiverStays` says which chains keep
  the receiver, and `Shield_dispose` has such a chain of each kind.
- **InterfaceProofs.** One inductive invariant per part, each a conjunction of
  named facts. `SessionsAlwaysAccounted` (`O1Ind`): who talks to the device
  holds the lock, and connects only when `_mgr` is not open. `TokenAlwaysOutlasts`
  (`AuthInd`): the cache gives a token up before the issuer does, and a request
  read the clock before the token it fetches was issued. `AccessAlwaysSound`
  (`AcInd`): a retired key is dropped no earlier than its last token ends, and the
  file is what was asked for unless a save raced. `HandlesAlwaysKeepKeys`
  (`HsmInd`): keys are numbered as they are made, and in memory a label has one
  pair. `PoliciesAlwaysAsAnswered` (`A1Ind`): a request that may still arrive late
  is for a policy the book is unsure of, and an answer on its way is still true.
  `ApiAlwaysTruthful` (`OpInd`): decisions are numbered as they are made, no two
  handlers append the same one, and a walk under way has seen a part of the chain.
- **ServiceProofs.** `AlarmAlwaysMatchesMode` (`DegInd`): a pending alarm is the one
  that the last transition still owes. `LifecycleAlwaysTruthful` (`LcInd`): one fact
  per phase of boot, service, drain and stop. `ArtefactsAlwaysWhole` (`VaultInd`):
  where a store() is tells which of its files are whole. `HealthzAlwaysTruthful`
  (`LiveInd`): how the ages, the stall and the lag determine one another.
  `HistoryAlwaysTellsState` (`LoopInd`): whose edge the sink knows ahead of the
  history. `ReportsAlwaysComplete` (`NisInd`): what has been told at each place of a
  trigger, and that the deque is the window of all events. `GuardsAlwaysKept`
  (`RegInd`): built-ins and loaded plug-ins stay installed, names are unique, and
  loading is over only when every entry point was. `AnchorsAlwaysHold` (`AnInd`):
  tokens are what authorities signed, a head being signed is that of the chain
  while no row joins, and a lone call still finds the cadence passed. Heads contain
  heads, so the types in it are up to them. `NoMessageEverPassedOver` (`KfInd`): what
  is committed lies behind the consumer, and every handed message without a
  decision is being decided or was cut off by a crash.
  The parts that compute along sequences rest on one induction: the numbers up to
  which a fold has the stated value are a set that contains 0 and with each number
  the next, hence `Nat`. Each fold gets a `...Steps` lemma that gives its value
  place by place. `DeliveryAlwaysAccounted` (`CnInd`): who holds the lock writes the
  last line, which alone may be torn, and what was yielded shows the lines before it.
  `EventsAlwaysFaithful` (`KpInd`): every event is what `_build_event` makes of some
  report. In `ShadowExecutor` (`ShInd`): each prediction is in one task's hands or
  logged once, and in order unless two overlapped; the counts of the verdict are sums
  over the log. In `ShieldedEnv` (`EnvInd`): an unedited store holds step records only
  as step() computes them. `FederationAlwaysHolds` (`FedInd`): the global model is the
  aggregate of the last round in the trace (`TraceKept`), and certificates are of what
  detection and retraining give (`CertifiedTrue`, `ErasedTrue`). Under it lie lemmas
  about the aggregators: with all but one upload between two ends, median, trimmed
  mean and Krum stay between them (`RobustWithin`), and a lone upload further away is
  flagged (`Flagged`).
- **RuntimeProofs.** *Secure aggregation.* `AggregatesAlwaysProven` from `AgInd`: the
  sums of the two servers are congruent to the encoded sum of the releases plus what
  was altered (`ServersHold`), the holders' sums lie on a polynomial with as many
  coefficients as the threshold, which is that sum at 0 (`HoldersHold`), and what is
  published is computed from them (`PublishedTrue`). The proof goes through modular
  arithmetic from the definition: powers of G agree exactly when exponents do modulo Q
  (`PowerSame`), so commitments verify only if nothing drifted; an encoded sum decodes
  because the field is wide enough. Polynomials are maps from points to integers,
  built by multiplying with the point and adding a number: what `split` evaluates is
  one (`EvaluatedPolynomial`) and every one is evaluated from some coefficients
  (`EvaluatedFinds`). Dividing by the distance from a point (`PolynomialDivide`)
  gives, by induction on their number, that Lagrange's weights recover the value at 0
  for any distinct holders that reach the threshold (`Recovers`). Newton's
  interpolation (`ThroughAll`) gives that fewer holders' sums fit every secret
  (`SharesHide`): secrecy for any threshold, where `Runtime_parts` checks 3 of 4
  holders.
  *The composition.* `StepsOfParts`: a step of the composition is a step or a stutter
  of every part, so an invariant of a part is one of the whole. Every invariant that
  `Runtime_parts` checks follows: `LifecycleTruthfulAlways`, `CredentialsAlwaysSound`,
  `EvidenceAlwaysTruthful`, `TelemetryAlwaysKept`, `LearningAlwaysOnTruth`,
  `FederationAlwaysSound` and `TypesAlwaysOK`. The last needs facts no other property
  did: that each A1 call is answered once (`A1Counted`), that records and time stay
  within their bounds (`OpBounded`, `AnBounded`), and that a registry holds only what
  it takes (`RegTakes`).

Assumptions. Bounds are natural numbers and the sets that calls range over are
not empty; a constant that stands for a table of the code is of the table's shape
(built-in guards have distinct names, as their registration demands). No assumption
bounds the number of threads, tasks, processes, requests, rows or restarts. These
relate constants to one another:

- the watchdog's interval is at most its age limit, which `runtime/liveness.py:7`
  states of the defaults;
- `SharesAssumption`, `GroupAssumption`: P = 2Q + 1, G has order Q, and every residue
  of the share prime other than 0 has the inverse the code computes. These are facts
  about the code's constants (the group of RFC 3526 at `federated/verifiable_secagg.py`,
  the prime 2^127 - 1 at `federated/secure.py`); `Runtime_parts` evaluates them on the
  small ones;
- `WidthAssumption`: the releases of all clients, quantised, sum to less than half
  of either field. The code's fields have 127 bits and more, its quanta fewer
  than 64 per client, and nothing in it checks this;
- `FedAssumption`: at least three clients, the last of which may be the poisoner, as in
  the experiments of `federated/`. With fewer no aggregator can tell who is honest;
- `EnvAssumption`: carriers have an even number of MHz, and the centres of the
  subbands lie in the band, as `learning/shield_env.py` builds them;
- `KpmAssumption`: collection times are inside the window of plausible times.

Only model-checked: all liveness (`LockReleased`, `Recovers`, `SourceDrained`,
`StopHonoured`, `SwapReturns`, `StopEndsProcess`, `FailureNoticed`), as fairness and
ENABLED are out of TLAPS's reach. No safety property of a passing run is left
without a theorem. Three definitions of the models are written for both tools:
`Federated!Sorted` gives each order statistic (no library theorem describes
`SortSeq`), and the lines of a file, the metrics of a report and the rows of a store
are gone through by folds (none describes `SelectSeq`). `Federated!ModelList` makes a
list a tuple, so that TLC trains each client once; it is the list itself
(`ModelsListed`).

The type invariants of the first five proved modules are theorems, as is
`ProjectedMeansChanged`, and no run repeats them; SQLite, whose only difference is a
unique key, is covered by the theorems on `EvidenceStore` alone.


## 5. Not modelled, and abstractions

- Cryptography and time stamps: hashes are injective, signatures are left out.
- A JSONL file whose last line lacks only its newline is taken as torn.
- `--once`, the synthetic source, the admin server and the report of the daemon.
  Malformed lines of a file source never become events.
- DecisionLoop counts decisions from the moment a record exists; an exception
  before it is `PlanRaises`.
- Floating-point arithmetic beyond a bounded rounding error. Negative PRB shares.
- A release() between a swap's pointer change and its append to the draining
  list is possible only for reader threads; it is in the model.
- Real-valued computations, which TLC cannot evaluate and whose faults are of
  accuracy, not of order: PHY and spectrum simulation, FLTrust, the privacy
  accountant of `federated/dp.py`, the attack generators. Of the federation the
  aggregators are modelled on one coordinate, in integers.
- The nested dialects of RICs other than the OSC one: they are taken to answer as
  the emulator does. The imprint of a time stamp is taken to be the head itself;
  which hash `TimestampRequestBuilder.data()` applies is the library's.
- Stateless conversions and renderings (record layouts, explanations, model
  cards, spans, certificates' signatures, lineage manifests, counterfactuals),
  command lines, data set builders and benchmark scripts. They keep no state and
  have no order of steps to get wrong.
- Read-only views of the dashboard (time line, breakers, connectors) and paging.

## 6. Plan

1. `DecisionLoop` over `A1Policy`'s RIC instead of its own, with the degradation
   controller's modes deciding whether an event is held.
2. The daemon's admin server and `--once`.
