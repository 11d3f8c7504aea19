# Formal models of agent-teams-orchestrator

TLA+ modules, TLC configurations and TLAPS proofs kept beside the source of
agent-teams-orchestrator. Every definition is translated from code; the comment
above it, and `PROJECT.json` ("map"), say which.

## 1. Inventory: what the repository contains

The repository is mostly decisions, documentation and the tooling that governs
them, two production features, and the executable experiments and
specifications behind the durable-workflow decision.

| Component | State it keeps | Operations | What is hard | What makes it correct |
| --- | --- | --- | --- | --- |
| **Manifest store** (`packages/contexts/agent-context/.../sandbox-manifest/adapters`) | PostgreSQL tables `manifests`, `outbox`; a lent connection pool | `seed`, `read`, both through `transaction()` and `releaseManifestClient` | concurrent hosts, lost COMMIT answers, broken sockets, throwing `release()`, host crash | immutable identity, one event per manifest, truthful answers, clean clients |
| **Manifest use cases** (`.../application`, `domain`) | none (arguments captured at entry) | `getManifest`, `seedManifest`, validation, fingerprint | the caller changes its objects, or loses its authority, while authorization is pending | what was validated and authorized is what is stored; tenants stay apart |
| **Manifest migration** (`.../composition`, `migrations`) | the schema | `migrate` | two hosts migrate at once, lost COMMIT | idempotent |
| **Host discovery** (`packages/platform/local-host-control`) | none; one observation per call | `discover` | a stale or future observation, the clock read after the source, hostile source objects | terminal classification, freshness and protocol negotiation |
| **Temporal spike** (`scripts/research/od035/temporal`) | business tables (run, receipts, attempts), workflow history | `createRun`, `approve`, `activate`, `cancel`, `timerFired`, the workflow loop | activity retries, crash after commit, paused predecessor, approval without signal | one effect per command, only after approval, never after cancellation |
| **DBOS spike** (`.../dbos`) | business tables with outbox and attempts, checkpoints, notifications | `approve`, `publishApprovalWakeup`, `activate`, the workflow | replay after a crash between effect and checkpoint, duplicate wakeups, fenced generations | one receipt per run and command, counter equals receipts |
| **OpenWorkflow spike** (`.../openworkflow`) | business tables, workflow steps, leases, signals | `approve`, `activate`, `cancel`, `replace`, worker loop | a lease that expires while its holder is alive, signals with timeouts | the same, under duplicate execution |
| **Executable specifications** (`architecture/executable-specs`, `scripts/orchestration-specs`) | two declarative machines (run authority, project lifecycle) | events with accept, reject, ignore; derivation; validation; mutations | late evidence, stale generations, ordering of revocation and reauthorization | authority only grows by explicit reauthorization; terminal states absorb |
| **Package scaffolding** (`scripts/architecture/scaffold-package.mjs`) | plan files, intents, the transaction journal, the working copy | `plan`, `apply`, `recover` | several processes, kills between any two steps, authority edited in between, journals and plans of other origin | a saved plan stays; only canonical plans publish; a deferral is noticed |
| **Package topology** (`validate-package-topology.mjs` and its parts) | none (a function of the tree) | catalog, policy, manifests, exports, imports, features, edges | rules in several files that only together exclude something | imports stay layered, edges exact, code has an owner |
| **Dependency specifiers** (`validate-dependency-specifiers.mjs`) | none | workspace, catalogs, tooling | the first rule that applies decides | one source of every version |
| **Documentation tooling** (`scripts/docs`) | none | metadata, relations, indexes, links, impact of a change | reciprocity of relations, anchors that move with the change | every document reachable; blocked by open decisions only |
| **Reliability qualification** (`scripts/reliability`) | none | profiles, capabilities, blockers, metric cardinality | decisions that live in other files | claims follow evidence; nothing waits for a settled decision |
| **Conformance tooling** (`tooling/architecture-conformance`) | a temporary repository | fixtures and the changes made to them | order of the changes | each change is judged as expected |
| **Security, lint, skills, foundation, model and profile validators** | none | checks on configuration files | text matching | violations are reported |

How they interact: a host composes the manifest use cases over the manifest
store and lends both the PostgreSQL pools; the store is reached only through
the use cases. Host discovery is called by a host with an injected source and
clock. The three spikes are separate programs, each with its own business
database and engine. The executable specifications are data, checked and
derived by the orchestration-spec scripts. The scaffolder runs the topology
validator in a child process and reads the same catalog, policy and documents.
The validators are separate programs over one tree; what joins them is the job
of `.github/workflows/architecture.yml`, which lets a change through when all of
them do.

## 2. Plan

The order follows what the production code and the decision record depend on
most.

1. `ManifestRegistry` (abstract) and `ManifestStore` (the transactions that
   implement it), with `ManifestStoreProofs`.
2. `ManifestInstant` (the one conversion the store makes) and `ManifestApi` (the
   use cases above the store), with `ManifestApiProofs` for both.
3. `ActivationContract` (abstract) and its three implementations,
   `TemporalActivation`, `DbosActivation` and `OpenWorkflowActivation`, with
   `TemporalActivationProofs` and, for the two engines that run inside the
   workers, `EmbeddedEngineProofs`.
4. `HostDiscovery` (calls of `discover` with callers, a source and a clock that
   change underneath them), with `HostDiscoveryProofs`.
5. `AuthorityDocuments` (the two shipped specifications) and `ExecutableSpecs`
   (the checks of a document and the machine derived from it), with
   `ExecutableSpecsProofs`.
6. `MaterializationPolicy` and `PackageScaffold` (plan, apply and recover), with
   `PackageScaffoldProofs`.
7. `PackageTopology`, `DependencySpecifiers`, `DocumentRules` and
   `ReliabilityCatalog` (what each validator asks of a tree), `RepositoryGate`
   (all of them over a sequence of changes), `RepositoryFixture` and
   `RepositoryChanges` (the trees and changes of the conformance scripts), with
   `RepositoryGateProofs`.

Left: the Temporal timer flow, the DBOS code revisions, and the OpenWorkflow
upgrade and schedule flows.

## 3. Modules and how they correspond to the code

### ManifestStore and ManifestRegistry

`ManifestRegistry` is the promise: a name has no manifest, a damaged row or one
manifest; a seed registers a free name together with its event in one step; a
call is answered at some moment at which the answer is true.

`ManifestStore` is `postgres-manifest-store.ts`, one step per `await`. A call
moves through `pc`: `connect` (the pool), `begin`, `scope` (`set_config`),
then `insert`, `verify`, `emit` for a seed or `select` for a read, then
`commit`, `committing`, or `rollback`, then `done`.

| Code | Model |
| --- | --- |
| `pool.connect()` and the `error` listener installed next | `Connect`, `ConnectFails`; `custody`, `guarded` |
| the listener's `broken` flag | `SocketError`; `broken` |
| `BEGIN`, `set_config` | `BeginTransaction`, `SetScope` (the first query, where a read's snapshot is taken) |
| `INSERT ... ON CONFLICT DO NOTHING`, the fingerprint comparison, the outbox row | `InsertManifest`, `VerifyFingerprint`, `EmitCreated` |
| `SELECT` and the checks on the stored row | `SelectManifest` |
| any statement rejected, `sqlInstant` out of range | `QueryFails`, `RefuseInstant` |
| the health check before `COMMIT`, `COMMIT`, and its rejection | `AbandonWork`, `SubmitCommit`, `CommitAcknowledged`, `CommitUnanswered` |
| `ROLLBACK` and its rejection | `RollBack`, `RollBackFails` |
| `releaseManifestClient` | `Release` |
| PostgreSQL | `tx`, `staged`, `rows`, `outbox`; `ServerCommit`, `ServerAbort` |
| the host process dying | `HostCrash` |

The server's `COMMIT` is a step of its own, so it may land before, while or
after the client gives up on it. A seed waits for a transaction that holds the
same key (`Holders`). A damaged row is one that any of the code's checks on a
stored row would refuse; it exists in `Init` only, since no statement of this
code writes one. Fingerprints are injective on facts: the hash is not modelled.

### ManifestApi

`createManifestApi`, `registerSandboxManifest` and the validation: a call is
`idle`, `authorizing`, `storing`, `done`. `Enter` is everything before the
first `await` (`structuredClone`, the scope check, the validation), `Authorize`
the port's decision, and `StoreSeed`, `StoreRead`, `StoreUnavailable` and
`LandLate` what `ManifestStore` is proved to do, as one step. Around them the
caller changes its own objects (`CallerChanges`) and the host grants and
revokes authority. The shape of a field is one predicate, `Malformed`; which
tenant and project an identifier belongs to is a function, as the identifiers
carry it.

### ManifestInstant

`sqlInstant` with BigInt division written out as division that truncates
towards zero, and the range check on the seconds. `Micros` is a parameter:
1 000 000 in the code, ten in the run, any positive number in the proof.
`ManifestApi` extends it: a stored row has the creation instant its column
received, and a call whose instant is out of range is refused.

### ActivationContract and the three spikes

`ActivationContract` is what the feature that owns a run promises whichever
engine drives it: at most one effect, only after an approval, never after a
cancellation, and no cancellation after the effect. The three detailed modules
have the same business rows but different engines:

| | TemporalActivation | DbosActivation | OpenWorkflowActivation |
| --- | --- | --- | --- |
| the run's row and receipts | `approved`, `status`, `effects`, `receipts` | `approved`, `counter`, `generation`, `receipts` | `approved`, `canceled`, `generation`, `counter`, `receipt` |
| how an approval reaches the workflow | a signal that may not be sent, and a two-second poll | an outbox row and a message | a signal that only reaches a parked run, and a 250 ms poll |
| what the engine remembers | command history, replayed against the deployed code | checkpoints per step | position and lease |
| who may run the effect twice | a retried attempt beside a paused one | two executors that recovered the workflow | a callback that outlives its lease |
| what prevents a second effect | row lock and receipt | row lock, receipt and generation | row lock and receipt, and generation in a fenced flow |

A transaction is split where the code awaits: begin, `SELECT ... FOR UPDATE`
(which waits for `lock` and decides on the row), `COMMIT`, the answer. A killed
process leaves its transaction to the database, which rolls it back. A paused
one is a step that is taken late.

`TemporalActivation` replays `history` through the code of whichever version a
worker runs (`Code`, `Compatible`): v2's `patched()` marker, and the
incompatible version that issues a timer the history does not have and whose
tasks are therefore refused (`TaskRejected`), then replaced (`Retire`).

The engines themselves are external. What is modelled of them is what the code
relies on: Temporal retries an activity up to `maximumAttempts` and accepts
only the current attempt's completion; DBOS records one result per step and
replays it; OpenWorkflow accepts the lease owner's checkpoint only and counts
step attempts up to a limit.

### HostDiscovery

`createHostDiscovery` and `discover`. A call is copied and checked on entry
(`Discover`, `SnapshotQuery`), waits for the source (`SourceSettles`: any
result, well formed or not, or a rejection), and then, without another await,
reads the clock and answers (`Resume`: `AnswerFromSource`, `AnswerClockFailure`
or `AnswerFromObservation`). During the await the caller may change its query,
whoever built the discovery may change the policy object it passed
(`ChangeQuery`, `ChangeDependencies`), and the clock may move either way, turn
malformed or start to throw (`ClockMoves`). `built` is what the construction
captured, `asked` what the call copied, `sourced` what came back.

Identifiers are model values: their textual rules are membership in the set of
well-formed ones, and the identity fields of an observation are collapsed into
its target. The 64-bit instants keep their two ranges, `-Int64Maximum - 1 ..
Int64Maximum` and `0 .. Uint64Maximum`, and the arithmetic on them is that of
BigInt: nothing wraps.

### AuthorityDocuments and ExecutableSpecs

`AuthorityDocuments` transcribes `run-authority-state.json` and
`orchestration-project-lifecycle.json`: states with a status and a number (the
generation, or the deletion epoch), events with a category, transitions, traces
and fault cases, in their order.

`ExecutableSpecs` is what happens to a document an editor left in the file:
`DeriveMachine` runs `assertOwnedSemantics` (one operator per rule of
`validate-specs.mjs`) and derives the machine, `ApplyMachineEvent` sends it any
declared event or an undeclared one. A refused document goes no further.
`TransitionFor` is the first transition of a state and an event, as
`Array.find` returns it; `Configured` and `After` obey the last one that is not
rejected, as the assignments of `transitionConfiguration` leave it. Decision
references, axes that are not modelled, labels and reasons are left out, and so
are the rendered diagrams.

### MaterializationPolicy and PackageScaffold

`MaterializationPolicy` is `package-materialization-validation.mjs`: what it
collects as errors is a conjunct. It is shared by the scaffolder and the gate.

`PackageScaffold` is `scaffold-package.mjs`, one step per await of a command:

| Command | Steps |
| --- | --- |
| `plan` | `LoadTarget`, `ValidateRepository` (the child process), `WriteIntent`, `CompilePlan` (and the removal of the intent in its `finally`), `AssertPlan`, `TargetStillFree`, `StorePlan` (the exclusive creation, or the comparison with what is there), `FillPlan` |
| `apply` | `ValidatePolicy`, `InspectTransaction`, then `Recover` of a pending one or `ReadPlan`, `AssertApply`, `BeginTransaction` |
| `recover` | `ValidatePolicy`, `Recover` |
| both | `Publish` (one file), `Finalize` |

Around them people edit the catalog, the documents, the configuration, the
policy and the targets (`Edit`, `EditPolicy`, `WriteForeign`), a plan or a journal of
another configuration appears (`CompileElsewhere`, `PublishElsewhere`), and
`Kill` ends a process at any of its steps. Compiler and journal are a library's,
Engineering Foundation: they are written from how the script uses them and what
`check-package-scaffolding.mjs` observes of them. `proc[p].allowed` is a history
variable: the packages that were not deferred at some moment since the plan of
the command was compiled or read.

### The validators and RepositoryGate

A tree is a record; each rule is an operator of the name and at the lines of the
function it translates, and an error the code would collect is a conjunct that
is false.

| Module | Programs |
| --- | --- |
| `PackageTopology` | `validate-package-topology.mjs` with `package-topology-{source,features,exports,...}.mjs` |
| `DependencySpecifiers` | `validate-dependency-specifiers.mjs` |
| `DocumentRules` | `validate-docs.mjs`, `document-{files,relations,indexes,links}.mjs`, `code-anchors.mjs`, `check-doc-impact.mjs` |
| `ReliabilityCatalog` | `validate-reliability-foundation.mjs`, `qualification-validation.mjs` |

Paths are sequences of segments, sources are what their imports say, Markdown is
its metadata, headings, links and table rows; parsing is left out.

`RepositoryGate` is the job of `.github/workflows/architecture.yml`: a working
tree is changed (`Change`), and the changes are taken over when every validator
passes and `docs:impact --strict` has nothing to ask for (`TakeOver`), or given
up (`Drop`). Two things around the validators are external and modelled from what
relies on them: the documentation protocol's check, which `pnpm check` runs beside
the validators and which refuses two documents with one id (`UniqueIds`), and git, in which a tree
has one file per path (`OneFilePerPath`, no `Clashes`). `RepositoryFixture` builds the trees of the conformance scripts in
their stages (reserved, context, feature, app, platform), `RepositoryChanges` the changes
those scripts and the validators' tests make to them, with the verdict they
expect of each, and six changes of this repository's own decisions: settling
OD-021 and OD-040, opening the gates of the local packages, building one. The
composition is what is new: two changes of different scripts, together or one
after the other, are judged by all four validators, as no script does.

## 4. What the runs check

| Run | Instance | Checks |
| --- | --- | --- |
| `store_safety` | 3 calls on 1 name, 2 storable facts and 1 out of range, 2 clients, symmetric; 1.2 million states | `TypeOK`, `OneEventPerManifest`, `AnswersTruthful`, `ReadsAreFresh`, `PooledClientsClean`, `NoLateEffect` |
| `store_refinement_liveness` | 2 calls sharing 1 client | `ImplementsRegistry`, `CallsAnswered` |
| `manifest_use_cases` | 2 calls, 2 tenants, names and facts that are good, foreign, malformed or too late, instants on both sides of zero; 380 000 states | `TypeOK`, `EntryArgumentsStored`, `InstantExact`, `TenantsApart`, `AuthorityHeld` |
| `temporal_activation` | 2 workers, 2 attempts, 2 approvals, 1 kill, three versions | `TypeOK`, `ResultTruthful`, `ImplementsContract`, `ApprovalActivates` |
| `dbos_activation` | 2 executors, 1 call, 2 generations, 2 faults; 280 000 states | `StaleFenced`, `ImplementsContract`, `ApprovalActivates` |
| `openworkflow_activation` | 2 workers, 6 step attempts, 2 generations, 1 signal, 2 faults | `ImplementsContract`, `ApprovalActivates` |
| `executable_specs` | both documents with every edit of a transition, number, status, category, terminal flag or initial state, and transition edits paired with a flipped flag or a removed trace; about 5 500 documents | `TypeOK`, `RevocationSuspends`, `PredecessorNeverReopens` |
| `direct_replacement` | the run authority's document with one edit of a transition | expected to violate `DirectReplacementForbidden` |
| `host_discovery` | 1 call, 2 targets, 2 capabilities, instants of 2 bits, every shape of query, policy and result; 490 000 states | `TypeOK`, `CandidateMeetsQuery`, `JudgedWhileFresh`, `SettledCallsAnswered` |
| `package_scaffold` | 2 processes, 3 commands, 1 plan file, 2 packages of 2 files, 2 edits or kills; 1.4 million states | `PlanFilesKept`, `IntentsRemoved`, `DeferralNoticed`, `CanonicalPublished` |
| `deferred_recovery` | the same | expected to violate `DeferredCreatesNothing` |
| `repository_gate` | 5 stages of the fixture, 97 changes, any two of them together or in a row; 33 000 states | `VerdictsMatch`, `LocalPackagesReserved`, `CodeHasAuthority`, `ImportsLayered`, `FeatureEdgesExact`, `NoStaleBlocker`, `ReviewedChanges` |

Two runs show a disagreement between the code and what is written about it.

- `direct_replacement`: the document says of
  `run-direct-active-replacement-forbidden` that "ACTIVE basis A cannot
  transition directly to ACTIVE basis B." and names the semantic checks among
  what enforces it, while `assertRunAuthoritySemantics` forbids it for
  `EXPLICIT_REAUTHORIZATION` only. TLC finds a document that passes and whose
  machine goes from the one to the other on another event.
- `deferred_recovery`: ADR-0097 says that "A deferred package cannot create a plan
  or filesystem state." `recover`, and `apply` when it finds a pending
  transaction, check that the policy is well formed and then finish the
  transaction: the package may have been deferred since its process was killed.
  `CanonicalPublished` and `DeferralNoticed` say what does hold.

Three more such places were met and have no run, because the model takes the
code's side: `docs/standards/documentation.md:125` lets a `required` anchor
fail whenever matching source changed, while `check-doc-impact.mjs:139` does not
look at deletions (`ReviewedChanges` says so); `docs/architecture/repository-tooling.md`
asks for an edge for every cross-feature import, while an import through the
package's own `imports` aliases is not seen as one
(`package-topology-features.mjs:18-28`); and `docs/architecture/dependency-rules.md:354`
puts test imports under the policy, while only production sources are looked at.

**Why the bounds are enough.** Rivalry in the store is over one name, and three
calls make a seed, a conflicting or identical rival, and a read or a retry; the
theorems below remove the bound. Two clients let two transactions overlap while
a third call waits. In the use cases two calls are a rival pair, and calls
interact only through the registry; ten microseconds to the second put an
instant before zero, inside, on and past the last second of the calendar. Two
attempts, executors or workers are the predecessor that was paused and its
successor; a third one meets the same row lock and the same receipt. One kill or
fault is one crash at every point of the run; OpenWorkflow takes two because a
lost lease and a failed statement are both faults, DBOS so that the second
executor may fail too. Six step attempts allow a read, a wait, a second read and
an activation with a repetition left over; the engine's thousand only repeats the
poll.

Instants of two bits reach both ends of both ranges, and every comparison of
the freshness rules on either side of its bound; one call meets every change of
its surroundings, as calls share only the clock and the policy. The edits of the
documents are single ones and the pairs that take one of two overlapping checks
away; the theorems remove that bound. Three commands of two processes are a
plan, an apply and either a rival planner or a recovery; two edits are a kill and
a change after it, or a change and its reversal. Two changes are what a script
never makes: one of its own beside one of another program's; the theorems hold
for any number of them.

`CHECK_DEADLOCK FALSE` is set for the three spikes, where a run really ends, for
the executable specifications, where a refused document does, for the
scaffolder, where processes end, and for the gate, whose changes are bounded.
The store has an explicit `Quiescent` step instead, and elsewhere the
surroundings always move, so a deadlock there would be found.

### Fairness

- **Store.** `Connect` (a waiting caller is served when a client is free), every
  call's own next step, because `statement_timeout` and `lock_timeout` bound
  each statement and a lost socket rejects it, and `Reap`: PostgreSQL notices a
  session whose client is gone. Nothing is assumed of `ServerCommit` while a
  caller is waiting, so the answer may always be lost. `CallsAnswered` excepts
  a pool whose every client was stranded by a throwing `release()`.
- **Temporal.** The server retries, fires timers and hands tasks out; the driver
  finishes a transaction it began and replaces a killed or refused worker. The
  signal has no fairness: an approval without a signal must still be acted on.
- **DBOS.** Strong fairness on an executor's step, because row locks are granted
  in turn to transactions that keep coming and going, and on dispatching the
  outbox, which the design repeats; weak fairness on calls and on relaunching.
- **OpenWorkflow.** Workers go on, an expired lease is noticed, a wait times out
  and a killed worker is replaced. Signals have none.
- **Host discovery.** A call whose source has settled goes on (the continuation
  of an `await` is run). The source and the clock have none: there is no timeout,
  and a source that never settles keeps its call waiting.

Approvals, cancellations, kills, faults and deployments never have fairness. The
scaffolder and the gate have no liveness property: a command a person does not
repeat, or a change nobody makes good, owes nothing.

## 5. What is proved

TLAPS proves the following for every value of the constants.

- **Store**, from `StoreAssumption` (the three markers are not facts and differ,
  and the pool has a client): `TypeOK`, the safety invariants of `store_safety`
  and `GuardedUntilTransferred` (a held client has its error listener),
  `ManifestImmutable`, `NoLateEffect`, and `Spec => ImplementsRegistry`. The
  inductive invariant has eight parts. `OneEventPerManifest` alone is not
  inductive: a `ServerCommit` can only keep it if the row it publishes still
  finds the name free and comes with its event, which needs `StagingInv` (one
  holder per name, row and event together at `COMMIT`), which in turn needs
  where a call may stand with which transaction (`PhaseInv`). Answers need what
  a call may already conclude before it answers (`VerdictInv` for seeds,
  `SnapshotInv` for reads), and cleanliness of pooled clients needs that a
  client is held exactly while a call awaits (`CustodyInv`). `DurableInv` and
  `AnswerInv` tie the outbox and the replies to it. There is a lemma per part
  that every step preserves it, with one step per action.
- **Refinement.** The mapping is the identity on rows, events and answers. A
  `ServerCommit` of a seed is `Registry`'s registration, a step that answers is
  the registry's answer, justified by `AnswersTruthful` and freshness, and every
  other step stutters.
- **Use cases**, from `ApiAssumption` (what an identifier belongs to is a
  function): `TypeOK`, `EntryArgumentsStored`, `TenantsApart`, `AuthorityHeld`,
  `InstantExact`. The invariant says that the copy of a call past entry is its
  entry and is valid (`CopyInv`), that a call past its authorization was held
  (`HeldInv`), and that a row is its writer's copy (`RowInv`). Also
  `RegisteredForGood`, and with it `AnswersHold`: what a call was told is true of
  the registry for ever, and a call that was refused never registered anything.
  Its proof goes by the two ways a step can touch it: rows only grow (`RowsGrow`)
  and an answer is given once (`DoneStays`), so an answer true when it is given
  (`ToldNow`) stays true (`ToldStays`).
- **Instants**, from `InstantAssumption`: for every positive length of a second
  and every integer, the column holds exactly the instant that was given
  (`SqlInstantExact`), and later instants are later columns (`SqlInstantOrder`).
- **Host discovery**, from `HostDiscoveryAssumption` (the markers are not data,
  the two ranges are those of signed and unsigned integers of any width):
  `TypeOK`, `CandidateMeetsQuery`, `NothingForeign`, `JudgedWhileFresh`,
  `RefusedOnlyIfNotFresh`, and `IncompatibleForAReason`, that an incompatible
  answer names exactly the obstacles there are. The invariant says that the
  captured policy and the copied query are well formed (`PolicyInv`, `CallInv`)
  and what each verdict means (`VerdictInv`).
- **Executable specifications**, from `ExecutableSpecsAssumption` (documents meet
  the schema): for every document, with any states, events and number of
  transitions, the machine that was let through keeps `TypeOK`,
  `TerminalAbsorbs`, `NumberNeverDecreases`, `AuthorityAdvancesByOne`,
  `InertInputs`, `RevocationSuspends`, `RetiredOnlyByCommit` and
  `PredecessorNeverReopens`. A machine moves along accepted transitions only,
  and since keys are unique the transition a check found is the one the machine
  obeys; the cut authority never returns because suspension raises the
  generation and no path lowers it again.
- **Spikes.** `Spec => ImplementsContract` for all three, for any number of
  workers, executors, attempts, steps, generations, calls, signals and faults.
  The three proofs have the same core, and it is the spikes' lesson: of what the
  engine remembers (leases, checkpoints, mailboxes, histories, who may report)
  they use nothing. A transaction is open exactly in the actor that holds the row
  lock (`LockInv`, `DbosLock`), what it decided is therefore still true of the row
  when it commits (`DecisionInv`, `DbosDecision`), and the effect and its receipt
  are committed together (`CountInv`, `DbosCount`, `ReceiptInv`). So a commit with
  a new receipt is the contract's `Activate`, a business cancellation of a waiting
  run its `Cancel`, and every step of the engine stutters. With `FOR UPDATE` left
  out the step that takes the lock is what no longer goes through.
  What the contract is worth is proved from it for each of the three
  (`TemporalActivatesOnce`, `WorkersActivateOnce`, `DbosActivatesOnce`): there is one
  effect when the run is active and none otherwise, an active run was approved
  (`OneEffect`), and nothing that comes later, a repeated attempt or a late
  cancellation, changes a run that is active or cancelled (`Settled`). For
  OpenWorkflow and DBOS the status is derived from the effects and the
  cancellation, so this says in particular that they never count a second effect.
  - *OpenWorkflow*, from `WorkerAssumption` (no worker is the marker of a free
    lock); also that a committed effect has its receipt (`EffectHasReceipt`).
  - *DBOS*, from `BoundsAssumption` and `HolderAssumption` (executors and calls are
    different things and neither is the marker of a free lock), which are
    hypotheses of the theorems because the module instantiates `DbosActivation`
    instead of extending it; also `StaleFenced`. It needs one thing more than the
    contract: an executor's generation is fixed when it is launched and the run's
    changes only while nobody has the row locked, so the comparison made under the
    lock is still true at the commit.
  - *Temporal*, from `BoundsAssumption`; also `TypeOK` and `ResultTruthful`. That the
    result is the run's final status needs the whole way it takes: an attempt
    that committed saw or made the run final (`AnswerInv`), a final status never
    changes, so the answer read outside the transaction, the result the server
    recorded and the one the workflow returns are all the status of the row;
    the read of a cancelled run stays true (`ReadInv`). The type of the
    history is the one place where the replayed code matters: a compatible
    worker has a command left to record because every version's code ends with
    the first read (`CodeReads`) and a workflow that is not past it has none in
    its history (`HistoryInv`).
- **Scaffolder**, from `ScaffoldAssumption` and `PlansAssumption` (the markers are
  neither plans, journals, outcomes nor processes, and every catalog's target is
  one of `Paths`): all four properties of
  `package_scaffold`, for any number of processes, plan files, edits and kills.
  `PlanFilesKept` needs that a file half written belongs to exactly one process
  that is filling it (`Consistent`, `OneWriter`): exclusive creation is what makes
  that inductive. `CanonicalPublished` needs that a process that publishes holds
  the journal and that the journal's plan was found canonical before
  (`Checked`); `DeferralNoticed` that what a process found not deferred is among
  the packages its history says were not. Two more have no run: where no
  transaction is pending a package lies whole or not at all (`PackagesWhole`),
  and `applied` and `already-applied` are true for ever (`AppliedWhole`). They
  rest on what the tests observe of the library (a begin into an empty target, a
  recovery that refuses other content), and add what follows for any kills and
  recoveries in a row: while a process holds the journal its target holds
  nothing else (`HeldClean`), which is what makes the closing of the journal leave
  the whole package.
- **Gate**, from `StagesAssumption` (the main branch starts valid): the main branch
  stays valid under any changes at all, and `LocalPackagesReserved`,
  `ImportsLayered`, `FeatureEdgesExact` and `NoStaleBlocker` hold of every tree
  ever taken over. None of them is a rule of one validator.
  `LocalPackagesReserved` chains four: code implies an entry that is not
  deferred, the policy then wants all its gates settled, a local package's gates
  hold OD-021, and the reliability catalog must have a profile `fully-local`
  that waits for OD-021 as long as it is pending. `ImportsLayered` reduces a cycle
  of imports to a cycle of edges. `CodeHasAuthority` joins two programs: the
  topology validator asks for a README file of each feature, the documents
  validator says that whatever it governs is accepted and can be found; a README
  is governed unless its path has a `fixtures`, which the walk of
  `document-files.mjs:44` skips and the topology does not (`Overlooked`). Trying to
  prove it is what showed that exception, and that distinct ids and one file per
  path are needed. `ReviewedChanges` takes a changed file to the declaration
  `check-doc-impact.mjs` asks for, and that to a document that is not kept.

`ManifestImmutable`, `SqlInstantOrder`, `IncompatibleForAReason`, `TerminalAbsorbs`,
`AuthorityAdvancesByOne`, `InertInputs`, `RegisteredForGood`, `AnswersHold`,
`OneEffect`, `Settled`, `PackagesWhole`, `AppliedWhole` and the others named here that no run
lists are proved and have no run of their own.

Only model-checked: liveness, which is out of the prover's reach (`CallsAnswered`,
`SettledCallsAnswered` and the three `ApprovalActivates`), and `VerdictsMatch` of the
gate, which compares the validators with what the conformance scripts expect of
their fixtures: it is about those trees and no others.

## 6. What is not modelled, and why

- **Manifest migration**: one transaction of `CREATE ... IF NOT EXISTS`
  statements; what two hosts at once may see is inside PostgreSQL's catalog.
- **Temporal**: the durable timer's run, and the server's own restart. A failed
  `approve()` is a lost connection, not an aborted session on a live one.
- **DBOS**: code revisions, application versions, queues, deleted histories, and
  the optional second `recv`.
- **OpenWorkflow**: the timer, upgrade, schedule and backlog flows.
- **Executable specifications**: the catalog and the schema check, the rendered
  diagrams, and the property gates, which run the same machines.
- **Scaffolder and validators**: reading and parsing of YAML, JSON, TypeScript
  and Markdown, symbolic links and real paths, the options of the command line,
  and the wording of errors; compiler options beyond whether a tsconfig is a
  plain one; the root's overrides and the lock file; the text of the reliability
  foundation's documents; diagrams.
- **Architecture model, profile, security, lint, skills and foundation
  validators**: comparisons of configuration files with literal text. A model
  would repeat the literals.
- **Bootstrap**: downloading and starting servers.

Three things the models reach and no property forbids, because neither the code
nor its documents promise otherwise: a DBOS workflow whose activation was fenced
ends in success with the output `fenced`; an OpenWorkflow activation repeated
after a business cancellation answers `canceled` although its first attempt
was applied; and cancelling a workflow in its engine leaves the business row to
whatever an attempt already running does.
