# TLA+ verification of oxdeai-core

OxDeAI decides, before an agent acts, whether the action is within the limits
an operator has configured, signs the decision, and keeps a verifiable trail of
it. This directory holds TLA+ specifications of the decision core, of the SDK
that runs it, of what makes its decisions durable, and of the parties who rely
on its artifacts; the TLC configurations that model-check them; and theorems
that TLAPS checks. Paths below are relative to the root of the repository.

Run `tlc -config <run>.cfg <module>.tla` for a run of section 4 and
`tlapm <module>Proofs.tla` for the proofs of section 5.

## 1. Inventory

| Component | State it keeps | Operations | Hard behaviour | What makes it correct |
|---|---|---|---|---|
| `PolicyEngine` evaluation (`packages/core/src/policy/PolicyEngine.ts`) | the caller's `State` object, written in place; `currentState`; `auditEventCount`; `audit` | `evaluate`, `evaluatePure`, checkpoints | merges before a denial, a state hash or a signature that throws, two modes | limits hold over every history; a denial loosens nothing; what a decision leaves can be hashed |
| Policy modules (`policy/modules/*.ts`) | none; each owns a slice of `State` | decision, reasons, state delta | windows, caps, boundaries, timestamps the caller chooses | per-window, per-budget and per-slot bounds |
| Codecs, export and import (`_codec.ts`, `PolicyEngine.ts:538-620`) | none | normalise, hash, export, import | a payload that is refused half-way; fields that are filled in | equal hashes mean equal decisions; a refused import changes nothing |
| SDK guard and client (`packages/sdk/src/guard.ts`, `client.ts`) | an `auditCursor` for each guard and each client; per call a loaded state, events, authorization | `createGuard()(input, execute)`, `evaluateAndCommit` | overlapping calls; failures of load, append, callback and save; crashes | one intent is decided, executed and charged as if in one step |
| SDK adapters (`adapters.ts`) | a state, a list of events | load, save, append | settle in any order | save replaces, append appends |
| Audit log (`audit/HashChainedLog.ts`) | chain, head | append, snapshot, drain, verify | drain keeps the head | head commits to the whole history |
| Audit and replay verification (`verification/verifyAuditEvents.ts`, `replay/`) | none | recompute the head, judge a trace | two start values, strictness, checkpoints that are stepped over | the verifiers agree and accept what the engine emits |
| Engine persistence (`PolicyEngine.ts:243-301`, `adapters/File.ts`) | two promise chains, two sticky errors, the sink's queue | emit, commit, flush | writes after the decision, one failure among many, crashes | order kept, errors surface, nothing vouched for is lost |
| Authorization, envelope, snapshot verification (`verification/`, `crypto/`, the Rust verifier in `examples/`) | key sets | sign, verify at a time | rotation, revocation, stale key sets, three verifiers | what is executed is what was issued |
| Conformance (`packages/conformance`) | frozen vectors | run them against an adapter | deviations the vectors do not see | which deviations are noticed |
| CLI (`packages/cli/src`) | a state file, an audit file | init, build, launch, auth create, make-envelope, verify... | crash between two writes, two invocations | files agree |
| Schemas, utilities, benchmarks, scripts, examples | | | | drive or check the library |

Interactions: a caller (CLI, guard, client or an example's enforcement point)
hands an intent and a state to the engine; the engine runs the modules, merges
their deltas, hashes the state through the codecs, issues an authorization and
appends events to its log. Two chains of promises carry events and states to a
sink and a store; the guard instead copies new events to its audit adapter, runs
the callback and saves the state. Verifiers read the artifacts later, elsewhere,
without the engine. `PROJECT.json` lists every component with its status, and
under `hazards` what is hard to test, each at its line.

## 2. Plan

Done, in this order:

1. `PolicyModules`, `PolicyPipeline`, `PolicyEngine`, `PolicyAdmin`; proofs of
   type correctness and of the budget bound.
2. `Guard` and `GuardPromise`, and the refinement between them.
3. `AuditVerification`, `AuditDelivery`, `StateCommits` and their composition
   `EnginePersistence`, with liveness.
4. `Verifiers`, `Conformance` and `RelyingParty`.
5. `StateCodecs` and `Standby`.
6. `CommandLine` and `Cli`.
7. Theorems on the engine's limits and history, the guard's audit trail and the
   persistence chains.
8. Theorems on rates (`ToolCallBound`, `VelocityBurst`), on the operator who
   lowers a limit, on the guard's stored state and its refinement of
   `GuardPromise`, on the parties who rely on authorizations, on the verifiers
   of a trail, and on the files of the command line.
9. Theorems on the codecs and the engine that takes over (`StandbyProofs`), and
   on decisions from equal hashes.

Left, most valuable first:

* `simulateSequence`, and malformed intents and states field by field.

A module that is to be proved about uses no RECURSIVE operator; `Prune` is a
recursive function for this reason.

## 3. Modules

### Deciding

**PolicyModules** has, for each module in `packages/core/src/policy/modules`,
an operator for its reasons (empty: it allows) and one for each value of its
state delta. Limits are CONSTANTS, except `max_concurrent`, which the codec
compares with a counter and which therefore is part of the state. `State` has
one field per slice that changes. An `AuthId` stands for the SHA-256 of the
authorization and holds what tells two of one agent apart: nonce, timestamp and
the velocity counter in the hashed state (the counter is what differs when
nonce and timestamp recur). Hashing is injective here and everywhere.

**PolicyPipeline** is `evaluatePure` on one intent and one state.
`EarlyReasons` are the returns before the audit; `Denying`, `Reached` and
`Merged` are the loop at `PolicyEngine.ts:395-405` in both modes: all modules
read the state as it was, and those before the first denial (in collect-all:
all that allow) are merged. `MergeInto` adds and never deletes, like
`mergeInto`. `Hashable` is what the codecs assert.

**PolicyEngine** runs it over one `State` object. Each return of
`evaluatePure` is an action: `RejectIntent` (before the audit), `DenyIntent` (a
module denies; the checkpoint of the denial may throw), `FailIntent` (the state
hash throws, or signing does, because the engine is to sign with Ed25519 and has
no private key, `PolicyEngine.ts:461-464`: the catch), `AllowExecute`,
`AllowRelease`. A call is one step
because evaluation is synchronous. `Tick` and `SetKillSwitch` are the
environment. History variables (`accepted`, `authorised`, `credited`, `released`,
`rereleased`, `evicted`) are read by properties only, but for the bound on
`credited`. `auditCount` is kept
modulo the checkpoint interval, which is all that is read of it.
**PolicyAdmin** adds an operator who sets `max_concurrent` and
`policy_version` on the live state and puts other engines to work on it, with or
without the key (`canSign`).

**StateCodecs** takes a state apart into a slice per module, and has for each
codec what it normalises, refuses, fills in and forgets, and
`exportState`/`importState` over them: codecs write into the target one after
the other until one throws. **Standby** is a second engine that takes over from
a snapshot, whole or damaged, and is then given the same intents.

### Doing

**Guard** has one action per stretch of `guard()` or `evaluateAndCommit()`
between two awaits, and one per moment an adapter or the callback takes
effect: `Load`, `Evaluate` (evaluation, collection of events and the move of
the cursor, synchronous), `AppendLands`/`AppendSettles`,
`ExecuteLands`/`ExecuteSettles`, `SaveLands`/`SaveSettles`; `LoadFails` and
`Fails` are rejections, before or after the effect; `Crash` ends all calls and
starts a new engine and new guards over the same files. Each guard
(`guard.ts:66`) and each client (`client.ts:40`) has a cursor of its own into the
log of the one engine; `ObjectOf` says of which a call is made, and the history
variable `by` which of them appended an event. An event is known by its
call, type, process and position in that process's log. The mode of the guard
does not matter here: it saves nothing on a denial and both modes agree on what
is allowed and on the state that follows (`ModesAgree`). An audit adapter is always present.
The authorization the guard verifies is the one the engine has just issued for
the same intent, at the intent's own timestamp, so the check always passes.

**GuardPromise** is the abstract service: `Serve` decides, runs and charges in
one step. **GuardService** is the refinement mapping: a call counts as charged
once its state is saved.

### Keeping

**AuditVerification** is the log (`AppendAll`, `Drain`, `VerifyLog`) and both
verifiers. They work on the positions of the events, as the loops of the code
do: `Checked` are those that `verifyAuditEvents` does not step over. A head is the sequence it commits to, so `HeadFrom(start, events)`
differs for the two start values, the empty string and `GENESIS`.

**AuditDelivery** is the chain from `emitAudit` to the sink: an append is
queued per event, lands or fails, and the chain goes on; errors stick until a
`flushAudit` takes them. Three sinks: one that applies an append at once, one
whose appends fail independently, and `FileAuditSink`, whose own queue rejects
for good after a failure. **StateCommits** is the chain of `commitState` over
`FileStateStore`, whose `set` writes a temporary file and renames it.

**EnginePersistence** composes the two with an engine that emits and commits in
each evaluation, drains its log, and crashes: a restart finds what was landed.
What is decided is a kind here (`PolicyEngine` says which), a state the number
of the step that made it. A module's denial of a state that is over its limits
(`OVER_LIMIT`) is a kind of its own: where a checkpoint is due its hash throws,
and received and DECISION stay without one (`PolicyEngine.ts:418, 265, 531`).

### Relying on it

**Verifiers** are operators for the three verifiers of an authorization
(`verifyAuthorization.ts`, `PolicyEngine.verifyAuthorization`, the Rust one),
for key lookup and key windows, snapshots and envelopes. A signature is key,
domain and payload; a verdict is a set of codes. `canonicalJson` writes an
undefined field as null (`hashes.ts:27`), so `SigningPayload` covers all signed
fields, absent ones too, while the Rust verifier drops them. A public key is a
text (`KeyText`): the core reads PEM (`crypto/signatures.ts:29-48`), the Rust key
set the base64 of 32 bytes, and answers `AUTH_KEY_MALFORMED` to anything else
(`keyset.rs:21-30`).
**RelyingParty** is an issuer who rotates and revokes keys, parties with key
sets of different age, and authorizations on their way: lost, late, handed on,
delivered again, altered. The party verifies, executes and records the
`auth_id` in one step, as SPEC.md:441-454 asks of the host; it is external.

**Conformance** has the vectors and every suite of `validate.ts`, run against
an implementation that is given by what it omits.

**CommandLine** is `parseFlags` and what the verification commands answer, as
operators. **Cli** runs every command that writes a file as a process: it
reads, decides, and then writes in several steps, next to another invocation,
and may be killed between any two. `order` records how the writers went: one
after the other, the same but for an init killed between its two writes (`cut`),
launches side by side, or an init beside another writer.

`MCPolicyEngine`, `MCGuard`, `MCEnginePersistence`, `MCRelyingParty`,
`MCStandby` and `MCCli` hold values for the constants. Operators marked
"Mutant" in the modules are deliberately wrong variants of the definition that
follows; substituting one must break the property named in `PROJECT.json`.

## 4. Runs

| Run | Module | Checks | Shows |
|---|---|---|---|
| `engine_limits` | MCPolicyEngine | TypeOK, BudgetBound, SlotBound, StateStaysHashable, VelocityBurst, ToolCallBound, DenyNeverLoosens | nothing is authorised or held beyond budget (but for denied negative amounts), slots and rates, although denials leave charges behind, and the hash never throws |
| `engine_replay` | MCPolicyEngine | VelocityBound, NoReplay, FreshAuthorization | with old timestamps and a full nonce list, replays are refused except where skew or the cap explain it; no authorization overwrites another |
| `engine_admin` | MCPolicyEngine | InternalErrorExplained, OverLimitStopsEveryAgent | INTERNAL_ERROR has two causes, a missing private key and a lowered limit; the second stops all agents |
| `guard_serial` | MCGuard | ImplementsPromise, ChargedExactly, EffectsWithinBudget, AppendsInOrder | calls that do not overlap, and whose callback and save do not fail, are atomic, and what each guard and client appends is in order |
| `guard_concurrent` | MCGuard | TypeOK, ExecutedIsAudited, AuditedOnce, NoEventDropped, StoredIsWhole | what overlapping, failing and crashing calls still keep |
| `ledger` | MCEnginePersistence | SinkKeepsOrder, HeadCommitsToHistory, FlushIsHonest, PromisedStateIsStored, VerifiersAgree, StoredNeverGoesBack, SinkCatchesUp, EveryFlushSettles | events and states arrive in order or their loss is thrown to a flush; the verifiers agree on whatever was emitted; every flush ends |
| `relying_party` | MCRelyingParty | ExecutedAsIssued, RotationKeepsValid, StaleCacheFailsClosed, AuthorizationVerifiersAgree, VectorsCover | under rotation, revocation, delay and alteration each authorization is executed as issued and at most once per party; where the three verifiers agree; which deviations the vectors notice |
| `standby` | MCStandby | HashesTell, AlikeUntilEviction, EngineKeepsItsState | a damaged snapshot is refused, or its hash tells; engines with equal hashes decide alike until a nonce is evicted |
| `cli` | MCCli | PrintedIsChargedIsAudited, SerialTrailVerifies, EnvelopeIsAudited | what an invocation prints is in the files; an undisturbed trail is in order, though never conclusive, and invalid only where a killed init left the trail of another policy; an envelope holds what was audited |
| `deny_mutates` | MCPolicyEngine | DenyKeepsInputState | **violated** |
| `release_twice` | MCPolicyEngine | ReleaseIsOfOutstanding | **violated** |
| `decision_equivalence` | MCStandby | DecisionEquivalence | **violated** |

### What the violated runs say

* `deny_mutates`: `deepMerge` copies only the top level, so the deltas of the
  modules before the denying one stay in the caller's state, against the comment
  at `PolicyEngine.ts:389`, `packages/core/CHANGELOG.md:350` and the examples
  that go on with the same object (`examples/openai-tools/src/pep.ts:58`). The
  guard is not affected: it evaluates a state it has loaded and drops it.
* `release_twice`: deleting an authorization by merging a map that lacks it does
  nothing; it can be released again, each time freeing a slot. `SlotBound` is
  therefore stated for agents that release nothing twice.
* `decision_equivalence`: export sorts the nonces by value and the import keeps
  that order, so that a full list forgets another nonce than the exporting
  engine does; `docs/invariants.md:11-12` (I3) promises equal decisions from
  equal hashes.

### What the models show besides

* In collect-all mode a denied RELEASE frees its slot, so that an agent may come
  to hold more than `max_concurrent`; `SlotBound` and `DenyNeverLoosens` are
  about fail-fast callers, which is what the SDK and the CLI are.
* A guard and a client over one engine and one audit adapter each count from a
  cursor of their own, so that the first call of one appends the other's events
  once more, behind newer ones, even when the calls are made one after the
  other; `protocol/spec.md:76` asks a host to "Persist emitted audit events in
  order." A program with one guard, or one client, is not affected:
  `AuditedOnce` and `AppendsInOrder` are stated for each of them.
* No module refuses a negative amount, and `packages/core/src/schemas/validate.ts:22`
  lets one through. Allowed, it gives budget back, which may be meant; denied by
  VelocityModule in fail-fast mode, or by a failed signature, it gives back
  budget all the same, and the live state then lets callers have more than the
  budget in all. A charge that has become negative is hashed, exported and
  verified, but an import refuses its sign (`_codec.ts:16, 306`), so that such a
  snapshot cannot be taken over from (`docs/invariants.md:9`). `BudgetBound` says
  by how much the budget may be passed (`credited`), `DenyNeverLoosens` that
  this is the only thing a denial gives back, `BudgetKept` that without negative
  amounts the budget is kept. The guard is not affected (`EffectsAreWithinBudget`):
  it drops what a denial has merged.
* An engine that is to sign with Ed25519 and has no private key answers every
  call that no module denies with INTERNAL_ERROR, after the merge: nonces,
  slots and charges are used up. If an engine with the key was there before it, a
  RELEASE of what that one has issued frees its slot although it is denied;
  `DenyNeverLoosens` and `SlotBound` are about one engine, which without the key
  issues nothing that could be released (`NothingUnsigned`).
* The guard has no lock. Two calls that overlap may both be allowed on the same
  loaded state and one's charge be lost; their events may reach the adapter in
  either order. And the callback runs before the state is saved, so that a
  caller who retries after a failed save runs it again. `guard_serial` states
  what holds without overlap, `guard_concurrent` what holds with it.
* Early denials append no DECISION event and INTERNAL_ERROR only
  INTENT_RECEIVED, whereas `examples/openai-tools/README.md:138` says that every
  decision is recorded. The example state of `packages/core/README.md:317-329`
  lacks `tool_limits`, which `validateStateForIntent` requires.
* A trail of the CLI holds no checkpoints, so that `verify-audit` never answers
  OK for it and exits with 3 (part of `SerialTrailVerifies`). `auth create`
  charges nothing and audits nothing.
* No key set serves the core and the Rust verifier both: what the one reads is
  malformed to the other. Given the same keys in its own form, the Rust verifier
  leaves absent fields out of what it hashes, the core signs them as null: it
  refuses at the signature every authorization the core signs (both are part of
  `AuthorizationVerifiersAgree`).

### Bounds

* One agent suffices for the limits, which are all per agent; `engine_admin`
  has two, because there one agent affects another through the state hash.
* Time runs to `MaxTime` 2 or 3 with windows of 1 or 2 instants, so every window
  opens and is met at both ends, and all but that of the tool calls close. With
  `MaxActions` 1 a budget of 3 is passed only by way of a denied negative amount,
  and the slots of `engine_admin` are filled by denials too, in both modes.
  `Skew` 1 in `engine_replay` lets
  timestamps go back by one.
* Two nonces and a list of at most one (`engine_replay`) or three entries: the
  cap evicts in the first, never in the second. `MaxNonces = 0` in
  `engine_admin` disables the replay check, as the code does. `standby` has
  three nonces and a list of two, the least at which order decides what is
  evicted.
* Amounts 1, 2, 0 (a tool call) and -1 against a budget of 3 (`guard_serial`: 1
  and -1 against a budget of 1), plus one refused request for each module
  without a counter. `MaxCredit` caps what denied negative amounts may
  take off in all.
* `CanSign` is TRUE but in `engine_admin`, where engines with and without the
  key take turns.
* `guard_serial` has three calls one after the other (allowed, denied after a
  partial merge, released), `guard_concurrent` three calls of which two overlap
  (`MaxInFlight`), one crash (`MaxCrashes`) and every fault.
* `ledger`: `MaxEvaluations` 2 per process, `CheckpointEvery` 2, `MaxFaults` 1,
  two flushes of each kind, one crash. A fault, an evaluation behind it and two
  flushes that compete for the error are the least with which an error can be
  swallowed or thrown twice.
* `relying_party`: `MaxIssued` 2, `Ttl` 2, `Overlap` 1, `MaxTime` 3, two parties
  (symmetric): both sides of every expiry and of every key window are met.
* `standby`: `Timestamps` are two, in any order; a snapshot that comes after a
  damaged one is whole (`Arriving`).
* `cli`: two processes (symmetric), `MaxRuns` 4 commands, `MaxNow` 2.

Deadlock is not checked where the system ends on its own: a guard's calls, a
bounded engine, an issuer at the last instant, command lines that are done.

### Assumptions about the surroundings

* `appendFile` of one batch is one write and `rename` is atomic; `writeFile`
  empties a file and then fills it (`Torn` in `Cli`).
* Clocks do not go back in `RelyingParty` and `Cli`; in the engine timestamps
  are the caller's and may be `Skew` old.
* All invocations of the CLI have the same `OXDEAI_AUTH_TTL_SECONDS`, so that a
  `policyId` is a policy version.

### Fairness

Only `ledger` assumes fairness, `DeliveryFairness` and `CommitsFairness`: weak
fairness of an append settling, of a `set` writing and renaming, and of what
awaits a promise that has settled. The code justifies it: a chain of promises
runs to completion, and file operations settle, with an error if need be.
Evaluations, calls of flush and crashes have no fairness: they need not happen.
With it, `SinkCatchesUp` says that the chain does not stop behind a failure and
`EveryFlushSettles` that a failed append or set leaves no flush waiting. Calls
of the guard and of the CLI are straight lines without loops or locks; that they
end follows from the settling of promises alone and is not stated.

## 5. Proofs

All theorems hold for all values of the constants under the named assumptions
(`LimitsAssumption`, `PipelineAssumption`, `EngineAssumption`,
`LimitValuesAssumption`; `StandbyAssumption`; `GuardAssumption`;
`DeliveryAssumption`, `CommitsAssumption`, `PersistenceAssumption`;
`LifetimeAssumption`, `AbsentAssumption`), which TLC evaluates in the runs. Where a theorem needs more,
the table says so.

| Module | Theorem | States | If |
|---|---|---|---|
| PolicyEngineProofs | `TypeCorrect` | `[]TypeOK` | |
| | `BudgetRespected` | `[]BudgetBound` | |
| | `BudgetKept` | an agent is authorised for at most its budget | no negative amounts |
| | `StateIsHashable` | `[]StateStaysHashable` | |
| | `SlotsBounded` | `[]SlotBound` | nobody uses collect-all |
| | `DenialsLoosenNothing` | `DenyNeverLoosens` | nobody uses collect-all |
| | `InternalErrorHasTwoCauses` | `[]InternalErrorExplained` | |
| | `LoweredLimitStopsEveryAgent` | `OverLimitStopsEveryAgent` | |
| PolicyHistoryProofs | `NoncesAreNotReplayed` | `NoReplay` | |
| | `VelocityCounted` | `[]VelocityBound` | |
| | `ToolCallsBounded` | `[]ToolCallBound` | |
| | `BurstsBounded` | `[]VelocityBurst` | |
| | `AuthorizationsAreFresh` | `FreshAuthorization` | |
| GuardProofs | `GuardTypes` | `[]TypeOK` | |
| | `AuditedBeforeExecution` | `[]ExecutedIsAudited` | |
| | `NoEventTwice` | `[]AuditedOnce` | |
| | `NoEventForgotten` | `[]NoEventDropped` | |
| | `StoredStateIsCharged` | a stored state belongs to whole calls, within the budget | `StartsWithinBudget` |
| | `StoredStateIsWhole` | `[]StoredIsWhole`: that, and no nonce twice | `StartsWithinBudget`, `OneWindow` |
| | `SerialTrailIsInOrder` | `[]AppendsInOrder` | calls do not overlap |
| | `GuardImplementsPromise` | `ImplementsPromise` | `Undisturbed` |
| | `GuardChargesExactly` | `[]ChargedExactly` | `Undisturbed`, `StartsWithinBudget` |
| | `EffectsAreWithinBudget` | `[]EffectsWithinBudget` | the same, and no callback fails |
| EnginePersistenceProofs | `SinkIsInOrder` | `[]SinkKeepsOrder` | |
| | `HeadIsHistory` | `[]HeadCommitsToHistory` | |
| | `VerdictsAgree` | `[]VerifiersAgree` | |
| | `FlushHonours` | `[]FlushIsHonest` | |
| | `PromisesSurvive` | `[]PromisedStateIsStored` | |
| | `StoredMovesForward` | `StoredNeverGoesBack` | |
| RelyingPartyProofs | `OnlyIssuedIsExecuted` | `[]ExecutedAsIssued` | |
| | `OldKeysFailClosed` | `[]StaleCacheFailsClosed` | |
| | `RotationIsSmooth` | `[]RotationKeepsValid` | |
| | `VerifiersOfAnAuthorization` | `[]AuthorizationVerifiersAgree` | |
| CliProofs | `PrintedIsChargedIsAuditedAlways` | `[]PrintedIsChargedIsAudited` | `NewAccounts` |
| | `SerialTrailVerifiesAlways` | `[]SerialTrailVerifies` | `NewAccounts` |
| | `EnvelopeIsAuditedAlways` | `[]EnvelopeIsAudited` | `NewAccounts`, `NamedPolicies`, `Artifacts` |
| StandbyProofs | `Alikeness` | `[]AlikeUntilEviction` | |
| | `TellingHashes` | `[]HashesTell` | |
| | `RefusedImports` | `EngineKeepsItsState` | |
| | `HashShowsState` | equal hashes: states that hold the same | one policy version |
| | `EqualHashesDecideAlike` | equal hashes: equal decisions, reasons, events and hashes | one policy version, room for the nonce (`Fits`) |
| PolicyPipelineProofs | `ModesAgree` | both modes allow the same, with the same effect | |

`Undisturbed`: calls do not overlap, no save fails and the process does not
crash. `StartsWithinBudget`: the state before the first call is within its
budgets. `OneWindow`: the intents' timestamps are within one replay window, and
the nonce lists have room for all calls; without it a nonce may be dropped and
come again, by design, and the stored state does list it twice.
`NewAccounts`: the states an init starts from have an account for each agent and
charge nothing; init itself does not ask for it, and an init from a state that
lists authorizations would start with charges no trail tells of. `NamedPolicies`:
a `policyId`, which is a digest, is neither empty nor undefined. TLC evaluates
both for `cli` (`FilesAssumption`). `Artifacts`: a snapshot or an envelope is not
the value that stands for undefined; it is about all states and events, which
TLC cannot enumerate.
`StandbyAssumption`: the texts of nonces are ordered (they are numbers here), and
a field that is absent is none of the values it may have. `PolicyPipelineProofs`
also has the lemmas on modules, lists and merge that the other modules cite.

**Budget.** Neither `TypeOK` nor `BudgetBound` is inductive alone, because a
charge is only known to be a number in a well-formed state; `Inv`, both
together, is. Amounts are integers. A module's delta is merged only if that
module allows (`MergedModulesAllow`), so a merged budget delta was compared with
the limit, whatever the mode and whoever else denies; a merge changes a charge by
the amount of the intent or not at all, and takes none over the limit
(`MergeSpends`, `Charged`); an allowed EXECUTE merges the budget delta for
certain (`ExecuteCharges`), so authorising and charging happen in the same step;
and what a denial takes off is what `credited` counts (`DenialCredits`). Where
no amount is negative nothing is ever credited (`NoCreditStep`), which makes
`BudgetKept` of `BudgetRespected`.

**Hash and slots.** An allowed replay delta enters a nonce that no recent entry
has, and pruning and capping repeat nothing (`PruneDistinct`,
`KeepLastDistinct`), so a list never holds an entry twice; the concurrency
module compares before it counts. Hence `MergeHashable`, and the catch is
only reached for want of a key to sign with (`HashableStep`). `SlotInv` adds that
the state lists only
authorizations it has issued: a RELEASE that passes names one of those, so that
the set of outstanding authorizations shrinks with the counter. In fail-fast
mode the concurrency module is the last of a RELEASE's pipeline
(`DeniedReleaseFreesNothing`), which is why `SlotsBounded` and
`DenialsLoosenNothing` assume that mode; and of an EXECUTE's pipeline only
VelocityModule comes after the budget (`DeniedAfterBudget`), so that no other
denial has moved a charge.

**A lowered limit.** With an operator the state need not be hashable, but all
that can stop it from being so is a counter above its limit (`AdminInv`: the
lists stay without repetition, whatever the limits are). An allowed call has
hashed the counters of all agents but its own as they were, and for its own the
concurrency module has let it pass, which above the limit only a RELEASE does.
That leaves INTERNAL_ERROR two causes, the operator's limit and an engine put to
work without its key (`ReplaceEngine`).

**History.** `Remembered` says where the nonce of an accepted intent is: on the
list, dropped by the cap, or older than the window by the engine's clock, since
pruning uses the timestamp of a later intent. `Counted` says that the counter of
an agent has counted its EXECUTEs (`Counts`) and that none of its authorizations
was made with a counter that comes after it: counters grow lexicographically
(`VelocityStep`), denied intents included, hence every `auth_id` is new.

**Rates.** For tool calls, `TalliedOf` compares a set with a list: for every
instant since which pruning can have dropped nothing, `clock - ToolWindow` or
later, and for every set of tools, the calls accepted since then are at most the
entries of the list since then (`Tally`; `PruneTally`: pruning drops nothing
recent, however often an entry repeats). The module compares the length of that
list, hence `BoundedOf` over any interval. For bursts, `SpacedOf` gives every
EXECUTE of an agent a place of its own, its counter; windows do not overlap, the
first EXECUTE of a window is the one that opens it. An interval as long as a
window (less the skew) meets at most two windows, and if it meets two, the
opener of the earlier is outside of it or the later holds none: the places left
are fewer than `2 * MaxActions`, by an injection.

**Guard.** Events are numbered by process and position. `Inv` of `GuardProofs`
says of each guard and each client, which has a cursor of its own, that the cursor
is at or before the end of the log, that what it has appended, and the batches its
calls still hold, lie before that cursor (`TrailNumbered`, `BatchNew`), that no two
of its calls hold the same event and none holds one that it has appended (`by`),
and that an allowed call's events are in the adapter before its callback starts
(`AllowedIsAudited`). Overlap, failure and crash change none of this because
evaluating, collecting and moving the cursor are one synchronous stretch. Nothing
of the kind holds between two of them: what one has appended is new to the
other.

**Stored state.** The state a call loads may be stale when it saves, so the
stored state cannot be described by the calls that were allowed. `StoreInv` says
instead, of the stored state, of what every call has loaded and of what every
allowed call holds, that it belongs to *some* set of allowed calls (`Accounted`):
it has spent what they spend, counts a slot for each and lists their nonces
(`Whole`). Each step keeps this for the set it had, or that set and one more
call. What a set of calls has paid is a sum over integers, which changes by the amount
of the call that is added (`PaidAdds`).

**Refinement.** When calls do not overlap, what a call has loaded is what is
stored until it saves (`Undisturbed` leaves nothing in between), so that the
save is `Serve` of the promise and every other step a stutter. Each step of the
guard then charges exactly what it serves (`ChargesKept`), once. `EffectsAreWithinBudget` adds that a callback
ran only for a call that is charged or about to be, and what the state it is about
to save has spent is within the budget (`EffectsServed`). Negative amounts do not
matter here: the guard saves nothing on a denial.

**Persistence.** `LogInv`: the log is what is emitted, less what was drained.
`DeliveryInv`: what the sink holds, what is queued and what was lost make up
what was emitted, and errors that nobody was thrown yet are remembered.
`StoreInv`: stored, queued and committed states are in order, and what a
resolved flush vouched for is not beyond what is stored. A crash restarts the
chains empty and leaves what was landed.

**Verifiers of a trail.** What an engine emits is in the form the schema asks
for and names its policy (`HappeningsAreWellFormed`), so neither verifier finds
anything but the order of timestamps and the anchor. A denial whose checkpoint
failed (`OVER_LIMIT`) leaves two events of this form and no anchor, and the count
that goes on may be past the multiple. Both look at neighbours
only; that this finds any event older than an earlier one is `BackIsBack`: the
first event that is older than an earlier one is older than its neighbour.

**Relying parties.** `OnlyIssuedIsExecuted` rests on what a signature is: key,
domain and payload, so that one that verifies is the one that was made
(`SignatureFits`, `AcceptedIsIssued`), whatever was altered on the way; it needs
no assumption on keys. A key set can be written in the form of the core or in that of the Rust
verifier (`KeysInFormat`); what the latter answers to an authorization the core
accepts is in the one case a malformed key and in the other a signature that does
not fit (`RustOfIssued`). It is stated of verifiers that pass the vectors rather than of
the core, and `VectorsBind` reads off the frozen verdicts what such a verifier may
leave out: whether a key is active, or that nothing is trusted where a signature
is required. `TimesInv`
is what rotation does to time: the second key is valid from the moment of the
rotation, the first until an overlap later, and nothing was signed with the
first after that moment. Revoking is final (`Rotate` retires only a key that is
not revoked). `AbsentAssumption` says that a field that is not given differs
from every value a field may have; the checks `x === undefined` of the code
mean just that.

**Command line.** What an invocation will still write is a sequence of effects,
and the invariant must be about those as well, because it may be killed with any
beginning of them done. `Apart` and `Books` of `CliProofs` say of each invocation
under way that what it is about to save is charged only with what is on the
trail or comes before in its own effects, and that what it will report is charged
in what it saves; each command begins so, and each of the eleven kinds of effect
keeps it, also for the others: only an init takes anything off the trail, and of
an init beside another writer (`order` is "disturbed") nothing is claimed. While commands come one after the other more holds (`Serial`): there
is one policy version such that the trail, with what a launch is about to append,
is of that version and in the order of the clock, and the state file is of that
version too, unless an init has written its state and not yet emptied the trail.
An undisturbed init starts a new order of the version it brings. An init killed
right there (`order` is "cut") leaves a trail that may come to hold two policies,
and no other fault; the next init that ends cures it. make-envelope
reads the state before the trail, so that the trail it holds tells of at least
what its state charges, whatever is appended in between. `SerialTrailVerifies` and
`EnvelopeIsAudited` are then read off the verdicts of `AuditVerification` and
`Verifiers` (`OrderlyVerifies`, `EnvelopeVerifies`).

**Taking over.** Nothing the export writes depends on the order of a list, and
nothing the modules ask of one does, short of the cap: that is the whole
argument, and most of its length is about sorting. `ByTime` puts an element at
the place that counts how many are not after it; these places are each taken
once (`PlacesAreTaken`), so that the sorted list holds what the list held, each
element as often (`SameElements`, by `Tally`). Two lists in order that hold the
same are equal (`OneOrder`: none lags behind the other), which makes sorted lists
equal exactly if the lists hold the same, and sorting idempotent (`SameNonces`,
`SameCalls`). On lists that hold the same each module gives the same reasons
(`SameReasons`), and prunes and appends to lists that hold the same; only the cap
takes the first of a list, and `Evicts` says when. On the other side every normal
form is its own normal form (`NormalTwice`), a payload that lacks an optional
field is completed to something that can be normalised (`CompletedIsWell`), and
what a missing module is reset to is normal too, except for the allowlists
(`DefaultIsNormal`), which no evaluation changes. So whatever was lost of a
snapshot, an engine that has the exported hash after importing it holds the
exported normal forms, and its state is `Alike` (`FollowersAreAlike`); `StandbyInv`
keeps that through every intent. `TellingHashes` needs less: the hash covers the
modules a snapshot has and the fields they have (`HashShowsModules`), an import
fills all of them in.

Recursive functions: their existence and properties are proved by a
least-counterexample argument (`LeastElement`, `PruneExists`, `PruneUnfolds`)
rather than by an induction theorem with an operator parameter.

**Only model-checked:** `VectorsCover`. It compares what the frozen vectors let an
implementation omit with an exact set; vectors and set are fixed, no constant
widens them, and the run evaluates every omission. Out of the prover's reach: the
liveness of `ledger`, and what a recursive definition computes for every input.

## 6. Not modelled, and why

* Malformed intents and states field by field (`validateStateForIntent`, the
  schemas): checks of JSON without state. An agent that is not configured stands
  for the per-agent checks; `StateCodecs` has what an import can leave.
* `simulateSequence`: `evaluatePure` over a list.
* The Rust verifier also refuses fields that are only white space
  (`examples/rust-verifier/src`); no issuer makes such a field.
* Two `writeFile`s of one file at a time may mix their bytes (`Fill` replaces the
  file as a whole). A reader that finds such a mixture does not parse it, as a rule,
  and the properties are about files that can be read.
* `parseFlags` refuses an empty argument where a value is due (`main.ts:199`);
  the arguments here are never empty.
* Hashes, signatures and canonical JSON below the level of fields: taken as
  injective. `StrictDeterminism` and the sorting helpers are pure.
* Commands that only read (`state`, `audit`, `inspect`, `replay`), the client's
  read-only helpers, and the guard without an audit adapter.
* Benchmarks, the smoke script, vector extraction as a tool, and what the
  examples do around their enforcement point.
