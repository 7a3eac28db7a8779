# TLA+ models of creatidy-kernel

creatidy-kernel is a single-controller kernel that admits owner decisions about *Programs*, prepares
and runs *Attempts* at their WorkUnits through external runtimes, verifies what comes back and
publishes it. Everything it decides is recorded in one SQLite database with exclusive locking; what it
causes outside (a runtime's run, a review, a pull request) goes through an operation journal that
assumes nothing about a delivery whose fate it does not know.

This directory holds TLA+ models of that code, TLC configurations that check them on small
instances, and TLAPS proofs, for any instance, of the safety properties of every component that is modelled. Paths below are relative to
`src/creatidy_kernel/`; "store" is `adapters/sqlite_store.py`. `PROJECT.json` maps every definition to
the lines it models.

## 1. Inventory

| Component | State | Operations | Where it is hard | What makes it correct |
|---|---|---|---|---|
| Operation journal (store 625-687, 1010-1084, 3740-3871, 4010-4062) | `operations`, `delivery_attempts`, `operation_observations`, `operation_transports`, `operation_reconciliations` | intent, claim, record_transport, observe, reconcile, the checks of a start | retries of uncertain deliveries, late and reordered callbacks | a retry is justified by a proof; a superseded delivery never speaks; outcomes are final; the rows always pass the next start |
| Effect delivery (`ports/application.py`, `ports/verification.py`, runtimes) | claims and lookup answers in memory, requests in flight, the remote service | send, callback, look up, reconcile, crash | crash between claim, send and receipt; lost, delayed and duplicated messages | one effect per intent; the journal says only what is true; uncertainty is kept until a proof ends it |
| Program domain (`core/domain.py`) | the Program aggregate | every command through `Program.apply` | amendments under running Attempts, re-satisfaction, remediation chains | no live Attempt for superseded intent; satisfactions rest on current inputs; history only grows |
| Program store (store 300-625, 4160-4250, 4780-4860) | `history`, `command_admissions`, projections, operations | create, admit, admit_with_intent, intent, read cut, rebuild at start | stale revisions, repeated keys, crashes inside a transaction | no lost update; an answer stays true; intent and decision are atomic |
| Work clock (store 2700-3030, `core/deadlines.py`, `adapters/boot_clock.py`) | projections, `work_clock_state`, uncommitted samples | create/bind envelope, decision time, authority | wall clock set back, reboot, crash between mark, sample and floor | authority ends by the deadline; decision times never go back, and no sample that one rested on is forgotten |
| Work ownership (store 1365-2660, 3134-3300, `core/ownership.py`, `ports/ownership.py`, `adapters/owned_workspace.py`) | `ownership-*` records, workspaces on disk, running workers | claim, renew, prove, observe, prepare, submit, authorize publication, release, quarantine, retire | expiry against a live worker, edits between proof and use, crash during retirement | one worker per resource; claims disjoint; only accepted bytes are published |
| Work budget (store 3302-3720, 3934-3980, `core/work_budget.py`) | reservations, settlements, retained bytes, usage | reserve, retry, settle, complete, record usage, revoke | concurrent Programs of a Project, repeated checks after crashes, corrections | capacity is never exceeded; every execution is paid for |
| Artifact store (store 3873-4008, 4062-4155, 4250-4357, 4430-4485) | blobs beside the database, references, bundles | finalize, verify, back up, restore, upgrade | order of rename, sync and commit; damage; interruption | no reference without its blob; bundles and restores complete |
| Application flow (`ports/application.py`) | none of its own; resumes from the store | advance_work_unit, collect, verify, accept | every durable step is a crash point | a resumed flow accepts only what was verified |
| Verification and product review (`ports/verification.py`, `core/verification.py`, `adapters/bubblewrap_verification.py`, `adapters/kilo_review.py`) | evidence, verdicts, review operations, the session of the reviewer | check, dispatch review, recover a session, evaluate | stale evidence, bytes changing under a check | a verdict is about the subject it names; the reviewer is asked once |
| Ordinary programs (`ports/ordinary.py`, `adapters/ordinary_*.py`) | claims, witnesses, candidates, evidence, topics; a managed connection in memory | request, start, report, publish, stop, finish, with every durable step a checkpoint | resumption between steps, edits of the worker, STOP in the middle, lost answers of the forge | each effect once; what is published was checked; nothing starts after STOP |
| Intake (`ports/intake.py`, `adapters/intake.py`, `adapters/ordinary_intake.py`) | inert records: drafts, reviews, decisions, consumptions, baseline ages | prepare, review, approve, handoff | readers and clock are callbacks that may write; crashes between decision, consumption and admission; repeated approvals | an admitted command is exactly what was decided, once; a handoff is current |
| Task execution (`adapters/task_execution.py`) | Program and Attempt, command reservations, owners, results and settlements, cancellation records; processes and connections | run, collect, verify by commands, accept, cancel, publish | process groups outliving the controller, cancellation in any phase | commands run once; accepted as verified; "cancelled" means quiet |
| Execution runtimes (`adapters/codex_*.py`, `adapters/fake_execution.py`) | processes, sessions | start, observe, reconcile, cancel | the process's life differs from the session's | a handle names one run |
| Forge adapters (`adapters/forgejo*.py`, `adapters/fake_forge.py`) | remote refs and pull requests | discover, publish, look up | lookups that are not authoritative | one pull request per key |
| Served surface (`adapters/served_local.py`, `adapters/served_client.py`, `ports/served.py`, `core/served.py`) | sessions, handoffs, command receipts, projection and event buffer | claim, start, report, approve, stop, reconcile, read events and records | repeated and reused commands, decisions in callbacks, bounded buffers, host restart | a command acts at the revision it names; receipts stay true; readers are told of gaps |
| Source cache (`adapters/source_cache.py`) | lock file, staged and published checkouts, running Git | acquire, refresh, use | crash between record and rename; Git outliving its user | an unproven or changing checkout is never used |
| Routing (`adapters/scarcity_router.py`) | none | choose a model | boundaries of quotas | deterministic, within ceilings |
| Outcome export, command line, value types | none | read-only projections, parsing, validation | - | - |

The parts interact by calls from one writer thread. The domain decides and the store admits the decision, its
reservations and its intent in one transaction. The delivery then claims the intent, where clock, budget
and ownership may refuse, and only a claimed delivery reaches a runtime, a reviewer or a forge. Observations come back
through the journal and lead to the next domain command.

## 2. Modules

| Module | Models | Run(s) |
|---|---|---|
| `OperationJournal` | the journal's rows and its five operations; callers are unconstrained | (composed in `EffectDelivery`) |
| `ExternalEffect` | the abstract promise: an intent has one effect, or none, and its outcome is known once | (refined by `EffectDelivery`) |
| `EffectDelivery` | composes `OperationJournal` with its callers, the network and the service | `delivery` |
| `EffectDeliveryProofs` | theorems about it, and about `OperationJournal` | (TLAPS) |
| `ProgramDomain` | the aggregate of `core/domain.py` | `domain` |
| `ProgramStore` | transactions, duplicates, read cuts and restarts | (composed in `Intake`) |
| `ProgramStoreProofs` | theorems about it, and about `Intake` | (TLAPS) |
| `Intake` | composes `ProgramStore` with drafts, decisions, approvals and handoffs of one task | `store` |
| `WorkClock` | two clocks, deadlines and the durable floors | `clock` |
| `WorkClockProofs` | theorems about it | (TLAPS) |
| `WorkOwnership` | claims, witnesses, publication and retirement, with the worker and the workspace | `ownership` |
| `OwnershipAndServedProofs` | theorems about it, and about `ServedWork` | (TLAPS) |
| `WorkBudget` | reservations, retries, settlements, bytes and usage, with the runs and checks that use them | `budget` |
| `WorkBudgetProofs` | theorems about it | (TLAPS) |
| `ArtifactStore` | blobs, references, bundles, restore and upgrade over a disk with lost entries | `artifacts`, `artifacts_power_loss` |
| `DomainAndArtifactProofs` | theorems about it, and about `ProgramDomain` | (TLAPS) |
| `TaskExecution` | `run_task()` with the application flow, the runtime's connection, commands, cancellation and the pull request | `task`, `task_hang` |
| `TaskExecutionProofs` | theorems about it | (TLAPS) |
| `SourceCache` | acquisition and use of cached checkouts | (composed in `OrdinaryWork`) |
| `OrdinaryWork` | composes `SourceCache` with an ordinary unit's calls from claim to comment | `ordinary` |
| `OrdinaryWorkProofs` | theorems about it, and about `SourceCache` | (TLAPS) |
| `ServedWork` | the served surface: journalled commands, nested frames, events, host restarts | `served` |

How state and actions correspond to the code:

* **OperationJournal.** One variable per column or table. `Intent`, `Claim`, `RecordTransport`, `Observe`
  and `Reconcile` are the store's methods; `JournalReopens` is `_validate_operation_records()`. Requests are model
  values; a metadata request that must not be dispatched is one of `InertRequests`. The extra refusals of a claim
  by budget and ownership are not part of this module: they only remove behaviours.
* **EffectDelivery.** The callers of `advance_work_unit` and `dispatch_product_review`: a claim is held in memory
  (`outgoing`), sent (`wire`), performed or refused by the service, answered by callbacks that may come late or never.
  `lookups` are answers of "absent" read before the reconciliation that uses them. A crash empties the memory, not the
  wire. The service and the network are external; they are modelled from what the adapters assume of them. `ExternalEffect` is
  instantiated with the effects and the intents (`EffectHappensOnce`).
* **ProgramDomain.** `Program.apply` with every command; the projection `states` is recomputed by each action as the aggregate recomputes it.
  Specifications are names with bodies (units, inputs, authority) from a small table, references are model values.
  What `_validate()` rejects is an invariant: a command that the guards accept must not be refused afterwards.
* **ProgramStore.** The committed tables are one record, a transaction is a copy that is written statement by
  statement and then committed, rolled back or lost. A decision creates a Program, amends it to another specification or is a command such as the cancellation; the
  digest of a specification is the chain of the amendments that led to it. A restating decision leaves the aggregate as it is, and a cancelled Program admits nothing.
* **Intake.** `recs` are the inert records on disk, `ctl` is the call under way with what it has read, `world` the native issue and the time. `approve()` and
  `handoff()` are cut at every callback (evidence reader, clock) and at every commit; at a callback other callers of the store may write. The evidence of a forge is the version it was read at and the last review of that version.
  An approval with a budget keeps its first expiry (`origin`), validates, and commits records, envelope and command together. One call of the intake runs at a time, and there is one baseline identity.
* **WorkClock.** Time is counted in nanoseconds of real time since the beginning; the boot clock counts from the last start of the machine, the wall
  clock is set at will. Every decision is a sequence of mark, sample, check and floor with a crash or a failed commit possible in between.
* **WorkOwnership.** Records of the store, the workspace on disk (where it is and the version of its bytes) and who is
  physically at work. Calls that capture the workspace before their transaction keep the captured
  values in `call`. Leases have no length: `Lapse` stands for expiry, revocation, deadline, STOP and amendment, at any moment, and a renewal only keeps
  it away. "complete" and "stop" witnesses are one stage ("end"). Paths, inodes and aliases are abstracted to `place` and the constant `Overlap`. Witness producers are
  taken to be truthful and the pull worker to be cooperative, as the code's profiles state.
* **WorkBudget.** Reservations as records of the store. The categories modelled are attempt, verification, retry and
  remediation. A run of an Attempt is delivered through the journal (reduced here to what a claim and a retry need), a check
  is `BudgetedChecks.check()` step by step in one process. `Prepare` with a snapshot is `claim_work()`. Ceilings of resources appear as
  `Headroom`.
* **ArtifactStore.** The process sees `files`; `synced` are the names that survive a loss of power. A rename makes a name
  visible, the sync of its directory makes it durable, a commit of SQLite is durable at once. Any step may raise (`Fails`),
  files may be damaged by somebody else. The tables that an upgrade creates are not told apart.
* **TaskExecution.** One variable per durable fact of the task (Operations, artifacts, reservations), `ctl` for the `run_task()` call under way, and the processes, connections and
  process groups outside. Every durable step is an action; after each the process may be killed and another one calls `run_task()` again with what is durable. The
  conditions that a status report derives are the operator `Condition`. `KillMayHang` admits that the wait after SIGKILL exceeds its time limit, which the run `task_hang` does.
  The remote forge is reduced to creating, finding and losing the answer about a pull request.
* **SourceCache.** The lock file with its state (absent, empty, torn, written) and the acquisition it names, the advisory lock by the user whose open file description has it, staged and published checkouts,
  and Git processes that inherit the lock and outlive their user.
* **OrdinaryWork.** `db` is what survives the host, `host` its memory between calls, `ctl` the call under way, `world` the workspace, processes, native issue, reviewer and forge. A call of the surface is a
  sequence of durable steps that may be left by an exception or a crash between any two. Claims, witnesses and budgets appear as the facts of `WorkOwnership` and `WorkBudget` that a step
  tests. The content of a workspace is its bytes with a version, because `capture()` (`adapters/owned_workspace.py` 213-219, 264) digests inode, mtime and ctime: bytes that are written again are another content, and an edit is never taken back.
  The connection of a managed claim is closed by `finish()` and `stop()`, by the runtime when a request is lost, and again by a repeated `stop()` (`Closings`). `KillMayHang` admits that the wait after SIGKILL exceeds its time limit.
* **ServedWork.** A command is the list of its transactions (what they do inside is the subject of the other modules), with the guards each applies to the revision. Frames nest, because a callback on the store's
  thread may answer another channel. The projection, its fingerprint, the bounded events and the reader's cursor are modelled as `core/served.py` keeps them. Request contents are records; a key reused for another request is a different record with the same key.
  A snapshot is taken and published after every report, also one that is answered from its receipt or as unknown (`Repeat`). The decisions it announces have identities of their own (`Decisions`): the review of an Attempt, open from its dispatch until its receipt, also
  when it ended unknown or the host died in between, and the rejection of the same Attempt. The notifier is taken to be installed. With `KillMayHang` a close that hangs forgets its process, and a later stop closes again and answers that the group is settled.

## 3. Runs

Every property has a mutant in `PROJECT.json`: a definition changed the way a plausible bug would change it, under which TLC
finds the property violated with the same configuration.

| Run | Bounds | Shows |
|---|---|---|
| `delivery` | 1 operation, 2 keys (one idempotent), 2 requests (one inert), 2 references, 2 deliveries, lease 1, clock 0..2 | rows pass the next start, justified retries, truthful journal, final outcomes, refinement of `ExternalEffect` |
| `domain` | 2 chained units; 6 specifications (solo, rework and back; team, shrink, loosen, revoke), 3 revisions, 3 satisfactions, 2 Attempts, an owner, a judge and a delegate | no Attempt without support, current inputs, remediation, append-only history, and no accepted command dies in `_validate()` |
| `store` | a task and another Program, 2 decisions (one with a budget) and 3 other keys, 3 records, 3 drafts, reviews or foreign records, one change of the native issue, time 1..2; deadlock checked | lost updates, duplicates, atomicity, reopening; approvals are decided and used once, handoffs are current |
| `ownership` | a managed, a pull and a generic command on one workspace, 2 preparations, edits or moves of it together, one publication | exclusion, quiet release, what is published, records that pass the next start |
| `clock` | 2 Programs, real time 0..2, one reboot, wall clock set to 0 or 1 | deadlines; decision times advance and cover every sample |
| `budget` | 2 Programs of one Project, an Attempt with its remediation and one more, one retry, 2 bytes, 2 usage records, one policy with a resource ceiling | capacity and concurrency, paid executions, usage |
| `artifacts` | 2 digests, 2 references, 1 backup, a new database or one of schema 4, one lost process or power, one damage, any number of failing steps | references, bundles and restores, upgrade |
| `artifacts_power_loss` | 1 digest, 1 reference, 2 losses | **violated**, see section 6 |
| `task` | 2 processes, one after the other, 1 command, contents base and x | commands, turn and pull request once; accepted as verified; quiet cancellation; nothing after a stop; the workspace is not shared |
| `task_hang` | the same, and the wait after a kill may time out | **violated**, see section 6 |
| `ordinary` | pull and managed, 1 command, drafts x (proper) and y, 2 meanings of the issue, 3 changes, a cache with another user and 1 acquisition | effects once, accepted as checked, settled is quiet, silent after STOP, consistent source |
| `served` | pull and managed request lists of 5, 2 foreign decisions, frames 2 deep, 2 hosts, 1 retained event, 1 handoff, 2 channels, 2 remembered decisions | commands at their revision, true answers, informed readers, each decision announced once |

The bounds are the smallest at which the cases the properties are about occur: a second delivery (the first retry), two
competitors for one resource, a predecessor with a dependent, two Programs for every property that one
Program's state could leak into another's, a second process that takes over from a killed one, a buffer that overflows at its second event, a failure followed by a repetition. Actions that never fire under a
configuration would show in TLC's coverage; between them the passing runs fire every action.
`CHECK_DEADLOCK FALSE` stands where the modelled system may stop: a terminal Program, spent bounds.

**Symmetry** is used over sets of model values that are interchangeable. **Views** leave out of a state only what no later step and no property
looks at: in `MCEffectDelivery` the transport rows and the undecided reconciliations (nothing reads them after they are written); in `MCTaskExecution` signals, deadline and the content of the workspace once a
recorded cancellation is being settled; in `MCOrdinaryWork` the cache after the objects were copied or the Program was stopped, the saved revision after the claim, and the deadline after the stop; in `MCServedWork` the sequence
numbers and the fingerprint, of which is kept whether the reader will be told of a gap, whatever it asks, or is at the producer's position, and then whether the facts have changed since.

**Fairness.** No module states liveness, because the code promises none. Nothing in it repeats a claim by itself; `CodexRuntime.reconcile()` (`adapters/codex_runtime.py` 558-566) and `NativeKiloReview.reconcile()` (`adapters/kilo_review.py` 327-397) never
prove that an effect is absent, and `docs/adr/0003` (56-58) says to keep an uncertainty that no absence is established for; a budget or a deadline may refuse a retry for good. All progress depends on an operator, an owner or a worker who may
stop for good, so every run checks what holds whether or not a step is ever taken.

## 4. Proofs

Every component that has a module, and every composition, has theorems, each for every value of the constants. A proof module extends the modules it is about (section 2), proves that the inductive invariant of each (stated at
the end of its module, as a conjunction of named parts) holds initially and is kept by every action, and derives the properties from it. The step proof has one lemma or case per action, and one step per part that the action can
disturb. Every inductive invariant was checked by TLC on the instance of its run before it was proved.

What the proofs assume of the constants is the named `ASSUME` of the module, which TLC evaluates in the run of that module. The sets of operations, keys, Programs, commands, processes and contents are arbitrary (finite only where
something is counted), and the bounds that make a run finite are arbitrary natural numbers. The rest is typing, that `None` is not one of the values it stands beside, and these facts of the code:
a lease is at least one second (`JournalAssumption`); a positive limit and size (`BudgetAssumption`); a remediation is of the same unit (`BudgetAssumption`); resources conflict symmetrically and with themselves, and a workspace only with workspaces, one per claim
(`OwnershipAssumption`, from `core/ownership.py` 42-47 and store 1405); a proper content is not the base, because a candidate without a change is refused (`TaskAssumption`); the host itself is a user of the source cache (`OrdinaryAssumption`);
a specification's units, predecessors and authority pass the checks of the constructors of `core/domain.py` (`ProgramAssumption`); the requests that arrive at the served surface are those the client program sends: a claim is named by the worker's actions on a claim and no other, and -1 (no Program yet) is the expected revision of an approval only (`ServedAssumption`).

| Module | Inductive invariant | Theorems |
|---|---|---|
| `EffectDeliveryProofs` | `JournalInv` | of the journal alone, with callers that pass anything: `JournalInvariant`, `JournalAlwaysReopens`, `RetriesAreJustified`, `SupersededFencesStaySilent`, `AcceptancesNeverDiffer`, and the action property `OutcomesAreFinal` |
| | `DeliveryInv` | `DeliveryInvariant`, `JournalIsTruthful`, `DeliveryUsesJournal` (the composition is a behaviour of the journal, so all of its theorems hold in it), `EffectsHappenOnce` (the refinement of `ExternalEffect`) |
| `ProgramStoreProofs` | `StoreInv` | `StoreInvariant`, `StoreAlwaysReopens`, `UpdatesAreNotLost`, `AnswersStayTrue` |
| | `IntakeInv` | `IntakeInvariant`, `ApprovalsAreDecided`, `StoreIsKeptUnderApprovals` (what the store promises, it promises under approvals and handoffs too), and the action property `HandoffsAreCurrent` |
| `DomainAndArtifactProofs` | `DomainInv` | `DomainInvariant`, `LiveAttemptsAreSupported`, `SatisfactionsAreCurrent`, `RemediationsAreChained`, and the action property `HistoryIsOnlyExtended` |
| | `ArtifactInv` | `ArtifactInvariant`, `ReferencesStayBacked`, `BackupsAreComplete`, `OriginalIsKept` |
| `WorkClockProofs` | `ClockInv` | `ClockInvariant`, `AuthorityEnds`, and the action property `DecisionTimesNeverGoBack` |
| `OwnershipAndServedProofs` | `OwnershipInv` | `OwnershipInvariant`, `WorkersNeverCollide`, `ReleasesAreQuiet`, `PublicationsAreAccepted`, `OwnershipAlwaysReopens` |
| | `ServedInv` | `ServedInvariant`, `CommandsRunAtTheirRevision`, and the action properties `AnswersAreTrue` (its clause on the managed process if `KillMayHang` is false) and `ObserversAreInformed` |
| `WorkBudgetProofs` | `BudgetInv` | `BudgetInvariant`, `WorkStaysWithinPolicy`, `ExecutionsArePaidFor`, `UsageIsCountedOnce` |
| | with `BytesAccounted` | `CapacityIsKept` |
| `TaskExecutionProofs` | `TaskInv` | `TaskInvariant`, `TaskWorkHappensOnce`, `AcceptancesAreVerified`, `CancellationsAreQuiet` (if `KillMayHang` is false), and the action properties `NothingStartsAfterStop` and `WorkspaceIsNotShared` |
| `OrdinaryWorkProofs` | `OrdinaryInv` | `OrdinaryInvariant`, `OrdinaryEffectsHappenOnce`, `OrdinaryAcceptanceIsChecked`, `OrdinarySettlementIsQuiet` (if `KillMayHang` is false), and the action property `OrdinaryStopIsSilent` |
| | `CacheInv` | `SourcesAreConsistent` |

Why the properties are not inductive as they stand, and what is added:

* `JournalInv`: that a retry is justified needs that a proof is only held while the status is uncertain (`ProofMeansUncertain`) and that fences number the deliveries without gaps (`FencesNumberDeliveries`);
  that acceptances agree needs that the current reference is backed by a receipt (`AcceptanceEvidenced`) and that statuses and references go together (`ReferenceMatchesStatus`); that a restart succeeds needs a receipt for every status (`StatusReceipted`);
  that a superseded delivery stays silent needs that receipts were written for the fence of their time.
* `DeliveryInv`: `JournalTruthful` speaks of effects and rows, but a request may be anywhere in between. `DeliveriesPlaced` says that a delivery is in one place and belongs to a claimed fence; `OneDeliveryAtWork` that, unless the
  service performs once per key, only the current delivery is under way and a refusal, a proof or an authoritative answer means that no trace of it is left; `EffectsOwned` and `RejectionsRefused` tie effects and refusals to their operations. The
  refinement maps an effect key to the number of its effects and to the answer of the operation that owns it: every step is one of `ExternalEffect` or a stutter.
* `StoreInv`: a transaction is written statement by statement, so `WritesStaged` says what the uncommitted image holds after each; `RowsNumbered` (no gaps, no repetitions) and `KeysBound` (a key has one input and one result) are what the next command relies on.
* `IntakeInv`: an approval reads, validates, records its decision and its consumption and only then admits, and at every callback in between others may write. `PlanKept` says that the chain of specifications that a call will admit follows from
  the chain it was planned on, `RecordsKept` which records are on disk at each place, `ConsumptionsDecided` that a consumption is of a decided draft and for a specification that says what the draft says. `ValidKept` says what the last validation still
  guarantees as long as the store was not touched, and `CallsApart` that it is not touched by others where the call gives nobody else a turn. `StoreInv` is a part: every step of the intake is a step of the store or leaves it alone.
* `DomainInv`: `StatesProjected` says that the projection on record is the one that the facts determine, so that a guard that reads the projection may be used as one about the facts. `Rooted` says that a satisfaction is of the unit and the revision of a finished Attempt, `WithdrawalsKept`
  that the cancelled Attempts are those with a withdrawal. An amendment withdraws Attempts in rounds, because an Attempt may lose its support by the withdrawal of another; the lemmas `RoundsSettle` and `SettledIs` show that as many rounds as there are Attempts are enough and that every live Attempt that is left is supported.
* `ArtifactInv`: a call may be lost between any two steps. `StagedBeforeCommit` says what finalization knows before its commit, `BundlesNamed` that a copy under way has a name of its own, `RestoreOrdered` in which order a restore fills its place, `UpgradeComesFirst` that nothing is
  finalized in a database that is not upgraded.
* `ClockInv`: a sample exists in memory before its floor is durable. `SamplesAreMarked` says that such a sample has a mark on disk, `FloorsCover` that a floor without mark covers all that was seen or granted, `SamplesAreCurrent` and
  `ProjectionsRooted` that readings are of this run of the machine or recognisably of an earlier one.
* `OwnershipInv`: `BusyUnsettled` (nobody at work has a settlement that says otherwise), `CandidateFinal` (a candidate is of a worker that stopped) and `AttemptsFirst` relate the records to who is physically at work.
* `BudgetInv`: `RunsPaid` and `ChecksPaid` count executions, with the one that a claim is about to cause, against reservations; `BusyAccounted` relates what is being executed to settlements and statuses; `UsageChained` numbers the observations, so that a correction has one end. `CapacityKept` adds the bytes that an Attempt holds up to a sum, for which
  `BytesAccounted` says that an Operation has one reservation that holds bytes, and that bytes are stored for reserved Operations only: what a preparation or a check stores was in the sum already.
* `TaskInv`: a call of `run_task()` is at one of some forty places, and after a kill the next call begins with what is durable. `TurnOnce` and `RequestOnce` say at which places the turn and the pull request cannot have happened yet; `CommandsInOrder` what is
  durable about the commands, `LoopInOrder` what the loop over them and the workspace hold at each place, `StartedOnCandidate` that a command started on the candidate unless an earlier one is known to have changed it, `VerdictBacked` what a verdict rests on. `ConnectionsTrue` and `RecordsTrue` say that
  what a connection, a settlement record or a stored reply says of a process group is so; only these need that the wait after SIGKILL returns in time, and the run `task_hang` shows that `CancelledIsQuiet` fails without it. `TaskInv` itself, and the other four properties, hold
  with `KillMayHang` too.
* `OrdinaryInv`: `report()` may be repeated after any loss, so what makes each effect happen once is spread over the places of the call. `ClaimedOnce` says at which places the turn cannot have started yet, `RunsOnce` the same of a command and that its result is stored once,
  `AskedOnce` and `SentOnce` the same of the prompt and of the pull request and comment. `CollectedOnce` says that whatever place the report has reached, the content it checks is the one that was collected and submitted, and `Upto` that no content is newer than the workspace, so that a content that was left does not come back.
  `ConnectionTrue` says that a connection whose group is settled has no live group, and is the only part that needs that the wait after SIGKILL returns in time. The step proof is per part: `Moves` lists the steps by the phase of the unit, and a step with alternatives by what it changes.
* `ServedInv`: frames nest, a command may be sent again at any time, and a host may be lost between any two transactions. A call stands at the revision its caller named plus the number of decisions its command has made, in this
  frame or in an earlier one, and every transaction that is left to it and was done before was done at this revision (`AtItsRevision`); `CallsNest` says that a frame that has looked at the journal is not overtaken by another frame of its command. `Transacted` says what each logged transaction leaves behind,
  `Journalled` that a receipt is the result of the last transaction of its command, `FrameOK` that a frame knows no other. For the readers, `ReaderSees` says that one whose facts are out of date stands behind the producer, or the projection is marked as changed, and `SentSeen` that what was sent is remembered, decision by decision.
  `NoneLost` and the clause of `Transacted` on the managed process need that the wait after SIGKILL returns in time; nothing else does.
* `CacheInv`: who is past the lock has it, a running Git has it for the user it was started by, dead or alive, a clone that is not published has no checkout beside it, and only a fetch leaves a published checkout that is not whole.

Proved, and not an invariant of a run: the inductive invariants, `SupersededFencesSilent`, `AcceptancesAgree` and `WorkKept`. The runs check what a caller sees of them.

Recursion. The projection of the domain, the rounds of a withdrawal and the sums of bytes are recursive functions. The library's induction theorems take an operator, which the provers cannot instantiate, so `WorkBudgetProofs`, `ProgramStoreProofs` and `DomainAndArtifactProofs` derive from
`NatLessThanWellFounded` and `WFMin` that a nonempty set of numbers has a least element, and argue about the least counterexample. No module that is proved about has a RECURSIVE operator.

Only model-checked:

* the two runs that end in a violation (section 6): these are counterexamples, and what holds without the loss of power or the hanging wait is proved (`ReferencesStayBacked`, `CancellationsAreQuiet`, `OrdinarySettlementIsQuiet`).

## 5. Observations

Behaviours that the models show and that the code intends, or at least does not contradict:

* A reconciliation "unknown" after "absent" withdraws the permission to retry, after which a late callback of the same delivery is accepted again.
  "absent" is only as safe as the lookup is authoritative (`docs/adr/0003`, `docs/adr/0012`). For services that perform once per key an old request in flight may be performed
  after a newer one was refused; no caller uses that outcome today.
* A PAUSED Program that completes and becomes incomplete again by re-satisfaction or amendment is ACTIVE without `ResumeProgram`. A live Attempt whose inputs became stale by re-satisfaction
  leaves its unit READY and blocks `PrepareAttempt` until it ends.
* A command's identity includes its expected revision but not its intent. A restating amendment adds a record with the same revision.
* A crash between a clock's pending mark and its flush blocks that Program's authority for good, and new envelopes in that store: it fails closed.
* A retained workspace whose identity is lost blocks every ownership decision of the store; a crash between the rename, the removal and the receipt of a retirement leaves
  the claim held. Both fail closed.
* Under a resource ceiling a Program gets one reservation: nothing installed releases the hold of what a client may have consumed, so neither a check nor a retry
  of that Attempt can be reserved.
* An interrupted restore leaves its artifact directory, after which the same place is refused.
* A crash between a budgeted intent of an ordinary check and its settlement leaves the reservation unsettled, after which `candidate_subject()` refuses for good: it fails closed, and the retry that `BudgetedChecks` has for this case
  (`ports/application.py` 239-244) is not reached by ordinary work.
* An approval whose consumption was recorded for another revision is refused for good ("approval recovery no longer matches Program"); the owner decides again under another identity.
* The intake is modelled with one call at a time. A reader that re-enters `prepare()` could store a second draft of the same revision under the alternative key (`ports/intake.py` 470-480), which `history()` refuses; the installed readers do not.
* `ServedWork` admits quiesce, renew and submit as requests; the request lists of `MCServedWork` leave them out because their transactions have the shape of those of start and report.

## 6. Findings

`artifacts_power_loss`: `_stage_blob()` treats a blob, and the artifact directory, that already exists as finished. If an earlier staging made the name and then failed or died before
it synced the directory, the next one commits a durable reference to a file whose name is not durable. After a loss of power the reference can be there without its blob, which `docs/adr/0003-durability-and-effects.md:34-36`
rules out, and the next start refuses the store. Without a loss of power (`ReferencesBacked`) every reference keeps its file.

`task_hang`: `_close_unlocked()` of `adapters/codex_stdio.py` (364-377) forgets the process before it stops it. If the wait after SIGKILL exceeds its time limit, the exception leaves `owned_group_settled` unset, and the second close, which `run_task()` makes
after a failed `runtime.cancel()` (`adapters/task_execution.py` 3085-3091), finds no process and reports the group as settled. The task is then recorded as cancelled while its group may be alive, against the README (466-467: "Missing, failed or mismatched settlement evidence remains
`cancel_uncertain`") and ADR 0011 (173-174). With a wait that always returns in time (`task`), a task reported as cancelled is quiet.

A managed ordinary claim reaches the same second close. A start whose request is lost, or a first `stop()`, closes the connection; if the wait after SIGKILL raises, the process is forgotten and no settlement is recorded. A second `stop()` (`adapters/ordinary_managed.py` 228-249)
closes again, finds no process and takes the group for gone, `CodexOwnedSessionWitness.witness()` (`adapters/codex_runtime.py` 73-75) proves "stop", and the claim is settled while its group may be alive. `adapters/served_local.py` 777-781 passes this on as a STOP that settled the managed
target, so the clause of `AnswersTrue` on the managed process is stated for a wait that returns in time. With such a wait (`ordinary`, `served`) a settled claim has no live group.
`MCOrdinaryWork` with `KillMayHang = TRUE` gives the counterexample to `SettledIsQuiet`, in 27 states.

## 7. Not modelled

* Routing and allocation: one pure choice per call, without state. Value types, validation, codecs and the command line: no state. Outcome export: a read-only projection. The reference and live walkthroughs: fixed orders of modelled calls.
* SQLite itself: a transaction is atomic and durable, the configuration checks of a start are left out. The sandboxing of checks by Bubblewrap and of workers by containers is process plumbing.
* HTTP, Git and the runtime's message protocol: a request is performed, refused, or its answer is lost.
* In `WorkClock`: the amendment of an envelope that is already bound, and a projection captured by the caller. In `WorkBudget`: reviews and helpers as categories of their own (and with
  them the final count of retained bytes). In `WorkOwnership`: the lengths of leases and the analysis of paths. In `OrdinaryWork`: the remediation of a rejected result (its chain is in `ProgramDomain` and `WorkBudget`). In `TaskExecution`: profiles, reports and
  the qualification of tools. In `Intake`: several baseline identities, and `select()`, which is two handoffs.

## 8. Plan

Done: journal, delivery, domain, store, clock, ownership, budget, artifacts, task execution, source cache, ordinary work, served surface and intake, each with its runs, and theorems for every safety property that a passing run checks.

What could follow:

1. The steps of `ServedWork` and `OrdinaryWork` that stand for transactions of ownership and budget, shown to be steps of `WorkOwnership` and `WorkBudget`, as the delivery is shown to be a behaviour of the journal.
2. Reviews and helpers as categories of the budget, and with them the final count of retained bytes.
3. The choice of the router (`adapters/scarcity_router.py`) as an operator, checked against its ceilings.
