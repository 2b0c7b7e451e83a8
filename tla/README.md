# TLA+ models of the local epistemic compiler

This directory holds TLA+ specifications of the parts of the repository where
crashes, concurrency and stale state decide whether the program is correct:
the broker that promotes an approved change into the user's workspace, the
control plane's durable operation queue, the run and the handlers that advance it,
the compiler of agent profiles and the agent DAG they become, the dispatch of paid
model calls, and the artifact store with its collector. TLC checks them on small
instances; TLAPS proves most of the safety properties for every value of the
constants. `PROJECT.json` lists the runs, the source lines behind every
definition, the mutants that show each property has teeth, the hazards and the
findings.

    tlc -workers 2 -config promotion_tree.cfg MCPromotion
    tlapm PromotionProofs.tla

## 1. The system

A user works in the Pi extension on a Windows machine. The extension talks to a
local **broker** (Rust, `src/native/runner`), which captures snapshots of
registered workspaces and later applies approved change sets to them. The broker
and the agents' **workers** talk over mTLS to the **control plane** (TypeScript,
`src/faex1/apps/control-plane`), one Node.js process over one SQLite database
(`src/packages/state-store`) and a content-addressed artifact store
(`src/packages/cas`). A run goes through phases (`src/packages/domain`): capture,
indexing, preflight, planning, agents' work, verification, approval, promotion.

### 1.1 Components

| Component | State | Operations | Talks to | What is hard | Correct when | Model |
|---|---|---|---|---|---|---|
| Workspace promotion (`promotion/mod.rs`, `journal.rs`, `recovery.rs`, `tree.rs`) | journal, entry rows, lease columns of the workspace, the files | `apply_promotion`, `rollback_journal`, `reconcile_all` | local store, file system | crash between any two durable effects, other programs editing, failing file calls and reads, failing rollback | the receipt describes the tree; foreign bytes survive; one promotion at a time; each open reconciles | `Promotion`, `PromotionLease` |
| Operation queue (`operation-store.ts`, `api/runners.ts`, `api/operations.ts`, `orchestration/recovery.ts`) | `operations` table, parked long polls | enqueue, lease, heartbeat, complete/fail/unknown, revoke, recover | workers, runners, scheduler | lease expiry against late reports, lost answers, revocation during a long poll, restart | one live lease per row, late reports refused, non-repeatable work handed out once, success final | `OperationStore` |
| Profile composition (`profile-compiler.ts`, `profile-catalog.ts`) | the graph under construction, deferred gates | compose, load fragment, overlays, packs, delivery, budget, cycle check | agent DAG | each step rewrites what the ones before made; the order of flags is free | acceptance waits for what each risk asks for; writers in line; review after work | `ProfileCompiler` |
| Agent DAG and work settlement (`dag-engine.ts`, `node-reducer.ts`, `services/agent-jobs.ts`) | node records, predicates, profile, SPAWN_AGENT operations | enqueue ready work, accept, fail, requeue at start-up | operation queue, artifact store | handlers interleave at every artifact-store call; lists of ready nodes go stale; crash between operation and node | dependency order, one writer, nothing accepted is lost, nothing runnable is forgotten | `AgentWork` |
| Broker local store (`local_store.rs`) | SQLite: sessions, nonces, workspaces, outbound mutations | open, nonce, mutation ledger | control plane | crash between sending and recording | a mutation is sent at most once or reported unknown | nonce, lease and reconcile-on-open in `Promotion`; the ledger is planned |
| Run state machine and compiler loop (`reducer.ts`, `guards.ts`, `repositories/runs.ts`, `orchestration/compiler.ts`, `handlers.ts`) | state, version, bound artifacts; the user's tree | `reduceRun`, `persistRunEvent`, `advanceRunCompiler` | every handler | handlers race through the same states across awaits; a crash between two of them | artifacts of one author; the tree is written only after an accepting verdict; the run comes to rest | `RunCompiler`, `RunLifecycle` |
| HTTP idempotency ledger (`idempotency.ts`) | request key, digest, stored answer | reserve, complete | every mutating handler | duplicates racing the first call; crash before the answer is stored | an answer is given only when its work is queued | around `createRun` in `RunCompiler` |
| Cloud gateway (`dispatcher.ts`, `cloud-dispatch.ts`, `repositories/artifacts.ts`) | row and bindings of a call, transport attempts, usage entries | dispatch, settle, complete | model provider | several invocations, lost and partial answers, crash between receipt, usage and completion | accepted at most once; the row tells what happened; usage counted once | `CloudDispatch` |
| Content-addressed store and GC (`filesystem-cas.ts`, `gc.ts`) | object, quarantine and incoming files, the lock of a digest | put, get, mark, sweep | everyone | the collector works without the lock, over midnights and whatever it is told; rot; crash between link and unlink | what was stored or read is left for its term; every call returns | `ArtifactStore` |
| Approvals, grants, replay (`security/src`) | decisions, nonces, grants | issue, consume | broker, control plane | repeated use, expiry | a decision is used once | the broker's side in `Promotion`; the rest planned |
| Agent runtime (`agent-runtime/src`) | sessions, overlays, inference slots | start, cancel, recover, acquire/release | workers | slot leaked by a failing session | slots return; a session ends once | planned |
| Worker loop (`worker-agent.ts`) | none | lease, heartbeat, report | operation queue | reports after the lease was lost | see operation queue | its reports are actions of `OperationStore` and `AgentWork` |
| Preflight (`preflight/src`) | rounds, stability window | schedule, stop | evidence | never stable | bounded rounds | planned |
| Verification and repair (`verification/src`, `repair-convergence.ts`) | verdicts, repair rounds | combine, converge | agent DAG | algebra of partial verdicts | a missing verdict never passes | planned as operators |
| Evidence graph, context compiler, instructions, repository index, sandboxes, models, usage, contracts, snapshot capture, IPC client, Pi extension, secret broker, stand-alone workers, backup | | | | | | not modelled: data-heavy sequential code, adapters or scripts; the reason is with each in `PROJECT.json` |

### 1.2 How they interact

* The control plane enqueues operations (`enqueueOperation`); runners and workers
  long-poll `leaseRunnerJob`, keep the lease with heartbeats and report with
  `completeOperation`. `AgentWork` uses the queue through what `OperationStore`
  establishes: an operation stays open until a worker reports success or failure;
  a settled SPAWN_AGENT row is never offered again.
* A completed SPAWN_AGENT operation is settled into its DAG node in the same HTTP
  handler, but not in the same transaction; this is where the DAG is most
  exposed (section 6).
* The report of an agent's work ends in `advanceRunCompiler`, as do `createRun`, the
  report of the capture and a read of the run: `RunCompiler` takes the DAG's
  outcome as given (a node reports, fails for good, or the settlement is lost) and
  `AgentWork` shows how it comes about. The profile the analyst's contract compiles
  to is `ProfileCompiler`'s result; its `WritersInLine` is what `AgentWork` relies on
  when it lists ready writers.
* The broker's journal, nonce table and workspace row are one SQLite file. The
  files are not part of any transaction, so every file effect is framed by rows
  written before and after it, and the next open decides from the rows and the disk.

## 2. Modules and how they correspond to the code

### 2.1 `Promotion`, `PromotionLease`

One registered workspace; a *request* is one call of `apply_promotion`, and two
requests with the same grant are a repeated call. `disk` is the workspace;
`jstate`, `estate`, `before` are the columns of `promotion_journals` and
`promotion_entries`; `recovery` and `active` are the lease columns of
`registered_workspaces`; `pc`, `idx`, `goal`, `held` are the call's stack frame
(the entry of its loop, its outcome, its deny-write handles), lost by a crash.
Every action is one durable effect or one read of the disk, so `Crash` and
`EditFile` fall between any two. Live calls (`ConsumeNonce` ... `VerifyFails`),
rollback (`RollbackSkip` ... `RollbackDone`, shared by the live call and by
recovery as in the code), settlement (`Settle`, `DropLease`) and reconciliation
at open (`OpenStore`, `RecoverStale` ... `Reverify`, `OpenDone`) are separate
groups. A broker call that returns with `?` after the journal was opened
(`Abandon`) leaves the journal for the next open, as in the code. A read that fails in
`classify_current` is not an error there: the file counts as one of other bytes, or, of
a DELETE, as gone (`Classify`, `ReadsFail`).

`mark` is a history variable: who wrote a path last. It separates *a foreign
write after the broker looked* ("edit") from a write *between the broker's check
and its mutation* ("raced"): the code drops the deny-write handle before it
moves the file, so the latter cannot be noticed. `unread` is the other one: the entries
whose files recovery could not read when it last looked before rolling forward.

Metadata (identity, descriptor, streams) is no state of its own: the two rechecks before a
write may fail at any time (`Recheck`, `CommitCheck`). Left out: directories, staging files and the rollback blobs (written
before the entry row that names them), signatures, and the presence check of the
trusted window. `PromotionLease` is the abstract promise: one lease, one outcome
decided while holding it, the lease given up afterwards, and a workspace lock on
an undecidable outcome. `Promotion!ImplementsLease` is the refinement.

### 2.2 `OperationStore`

`state`, `key`, `gen`, `owner`, `left`, `report` are columns of `operations`.
Every handler is one transaction, except the long poll, which is `Poll` (checks,
then parks) and `Wake` (leases without checking again). Time is relative: `left`
is `lease_until - now`, `Tick` lets it pass, -1 is "expired"; the comparison is
`now > lease_until` as in the claim query, the live-lease check and recovery.
`issued` keeps every lease ever answered, and a principal may present any of
them at any time: that is a slow, duplicated, delayed or restarted client.
`Restart`, `Recover`, `Listen` are `recoverOperations`: one scan, then one
transaction per row that does not look again. `Revoke` moves `lease_until` to
the request's `effectiveAt`, which may lie in the past or the future (`MaxAhead` bounds how
far, and may be longer than a lease).

### 2.3 `AgentWork`

`status`, `attempt` are the node records, `predicates` and `compiled` the
run's profile; `op[<<n, k>>]` is the operation of attempt k of node n, which
is what its dedupe key says. A *handler* is one HTTP request (or the requeue at
start-up) that ends in `enqueueReadyAgentWork`: `createRun`, the completion of
the capture, and one completion per operation. A handler runs uninterrupted until it
awaits a call that does I/O (read the request or the result, store an artifact,
load the project adapter); `busy` is the handler in its synchronous part, and
`pc`, `guarded`, `todo`, `job` are its frame. `todo` is the set of ready nodes the
handler has still to spawn; it works them off in the order of the profile
(`Foremost`). Awaits that resolve without I/O do
not let another handler in, because Node drains the microtask queue before it
takes the next I/O callback. A crash may fall between any two transactions; one
wave of `advanceControllerNodes` is one step. `guarded` is the try block of
`settleSpawnAgentOperation`: an exception inside it, including one thrown
while *other* nodes are enqueued, becomes `failCompletedSpawnJob`. An operation that exists
under the key of the attempt is returned when its input is the same (`Uploaded`) and makes
`enqueueOperation` throw when it is another (`DedupeConflict`); the model leaves open which.

Left out: handles, events, workspace leases, the write check of
`assertWriteAllowed`, the integration check of a change manifest, the limit of
16 waves (a profile has far fewer), and what happens to the run once its DAG is
complete. The in-process driver (`driveMultiAgentRun`, RECONCILE_AGENTS) is not modelled.

### 2.4 `RunCompiler`, `RunLifecycle`

One run from the request that creates it to its last state. `run` is the projection
row; `call` are the handlers at work, each with the state and bindings it read before
its last await (`at`, `b`, `seen`) and the state it is about to enter (`target`).
`Commit` is `enterRun` and `persistRunEvent`: the edge, its guards and roles are
checked against the state the call remembers, the version against the row. The other
actions lead from one awaited store access to the next (`persistSealedArtifacts`,
`ledgerStored`, `writeOverlayBytes`, ...). An artifact is known by the call that made
it, which is what `OneAuthor` needs. `crash` loses every call; `storeFails` is an
access of the artifact store that throws. `RunLifecycle` is the abstract promise
about the user's tree; `ImplementsLifecycle` is the refinement.

Left out: states that no handler enters (cloud phases, capacity waits, cancellation),
the event log, the order among the nodes behind the analyst (all are queued together, so no
node is left waiting for a failed one and `isAgentDagUnrecoverable` need not look further), and the destructive-authorization question itself.

### 2.5 `CloudDispatch`

One logical call and any number of invocations of `dispatchCloudCall` for it. `row`,
`bound`, `attempts`, `usage` are the tables; `disp` the frames; `accepted` is what the
provider knows. `casTransitionToDispatching` is the compare-and-swap that makes one
invocation the owner. `postOnce` and `completeOnce` are the gateway: refused before
the connection, accepted and answered, accepted and cut off. The transactions that
follow an answer (receipt, usage, state, attempt) are separate steps, and the process
may die between any two. `uniqueLeaves` has every uncorrected entry of the call; the code's
filter would keep the latest of several, which `UsageCountedOnce` does not rely on. Left out: how
a request is compiled and an answer decoded.

### 2.6 `ArtifactStore`

One object, file operation by file operation: `object`, `quarantine`, `incoming` are
files, `waiters` is the chain of promises that serves as the lock of the digest,
`marker` and `sweeper` are the collector, which takes no lock. A file is good when it
verifies against the digest; `rot`, `crash`, `throws` and `dayPasses` are the environment,
and midnight may fall between any two file operations.

What the collector is told is left open. The store is opened with an `OccupancyPredicate`;
the host passes `neverOccupied()` (`host-runtime.ts:481`), which always says no, and nothing
connects the rows that `occupancy.ts` reads to the store. The set of reachable digests is the
caller's. So the model promises only what the store itself can: `isGcForbidden` is either
answer, and `StoredIsKept` is about the calls that put or read the object and the term of
the quarantine (`since` is the day a call began, `WithinTerm` the term). A mark takes its date
once (`gc.ts:124`), so one that runs over midnight files objects under an earlier day;
`MarkDays` bounds how many midnights it may see, and shortens the term by as many.

Left out: encryption, the copy fallback where the file system refuses hard links, and who
refers to the object: a reference by digest without a put or a get is not protected by the
store at all (section 6, further behaviours).

### 2.7 `ProfileCompiler`

A contract becomes the graph of its run, one action per stage of
`compileRunComposition`: `load`, `applyOverlay` (in every order, since the contract
lists its flags in any), `attachPackNodes`, `applyDelivery`, `applyBudget`, `compiled`
or `throws`. A graph is a function from node ids to the ids they depend on; the
merge of dependencies that `addNode` makes is `Merge`, and a fragment is written as
chains. Left out: predicates, `invalidates`, provenance, labels, which packs a contract
wants (whether one is resolved is free), and `selectWorkflowProfile`, which only tests call.

## 3. What is checked

| Run | Instance | Distinct states | Shows |
|---|---|---|---|
| `promotion_tree` | one call: replace, delete, create, and one file outside the change set; 2 crashes, 2 edits, 1 failing call or read | 95,169 | `ReceiptTellsTree`, `ManualHasCause`, `ForeignBytesKept`, `WritesUnderJournal`, `OpenReconciles` |
| `promotion_lease` | three calls, two with the same grant; 2 crashes, 1 edit, 1 failing call, failing rollback, vanishing root | 1,142,534 | `LeaseCoversJournal`, `OneJournalPerGrant`, `SettledForGood`, `ImplementsLease` |
| `promotion_stale_patch` | the same call, 1 edit, nothing fails | violation | finding 1 |
| `promotion_rollback_fault` | the same call, 2 failing calls, rollback may fail | violation | finding 2 |
| `operation_queue` | 2 operations out of 3 kinds, 2 runners, 1 worker, leases of 2 ticks and revocations up to 3 ahead, 3 generations, 1 crash | 659,688 | `LateResultRefused`, `UnexpiredLeaseKept`, `NonReclaimableOnce`, `SuccessIsFinal` |
| `agent_work` | analyst, then a critic beside a writer, then a controller node, and a node that is skipped; 3 faults of any kind | 215,246 | `AcceptedForGood`, `AcceptedMeansWorked`, `DependenciesFirst`, `NothingStranded`, `OneWriter`, `RetriesSurvive`, `RunSettles` |
| `agent_repair` | the repair tail behind a review | violation | finding 3 |
| `run_compiler` | 3 names for calls, 2 at work at a time, 1 node behind the analyst, `createRun` sent twice, 1 fault | 287,534 | `OneAuthor`, `AnsweredMeansQueued`, `RunComesToRest`, `AcceptanceResumes`, `ImplementsLifecycle` |
| `cloud_dispatch` | 3 invocations, 2 requests, 2 faults; symmetric in both | 15,703 | `AcceptedOnce`, `RowTellsProvider`, `UsageCountedOnce` |
| `artifact_store` | 2 calls, 5 days, a quarantine of 3 days, marks over 1 midnight, 1 fault | 347,190 | `StoredIsKept`, `CallsReturn` |
| `profile_compiler` | all 17 intents with up to 3 of 14 risk flags in every order; secondary intents, urgencies, small changes, packs | 478,875 | `RiskIsGated`, `WritersInLine`, `WorkBeforeReview` |
| `profile_cycle` | all intents, one risk flag | violation | finding 4 |

Deadlock is checked in the promotion, queue and agent runs, where states in which
everything is answered stutter explicitly (`Finished`, `AtRest`), so a handler stuck
for good would be reported. A run that is at rest, a call that is settled, a store
without calls and a compiled profile really stop: there it is off, and
`RunComesToRest` and `CallsReturn` say what must not be stuck.

**Bounds.** Two crashes reach a crash during the recovery from a crash (the
rollback started in VERIFYING, then cut off). Two edits let another program change
a file before and again after the broker looked; one entry of each kind covers every
branch of `roll_forward` and `rollback_one`, and a fourth path shows that the tree
outside the change set matters only for verification. Three generations let an
operation be leased, expire, be leased again and be reported on late. Leases of two
ticks separate *before*, *at* and *after* `lease_until`. Three faults with a retry
limit of 3 reach a node that uses up its attempts, and a crash followed by two bad
results; `MaxAttempts` = 4 is never reached (a handler stuck at it would be a
deadlock). `RootMayVanish` and `RollbackMayFail` are off where the statement about
the tree cannot hold (a missing root has no tree; a failing rollback is finding 2).
Two calls at work reach every race of a settlement with a read, a repeated `createRun`
or another settlement; a third name keeps the author of what was bound apart from both.
Three invocations of a cloud call let one take over what a second gave back while a
third is late. With a quarantine of three days and marks that may see one midnight, the
fifth day lets a file that was marked late outlive its term and be swept while it is put
again, and the mutant that sweeps a day early destroys one within its term. A revocation
up to three ticks ahead extends a lease of two. Three flags meet in every pair of attached nodes and one more
before or after it; flags that map to the same overlay are represented by one.

**Conditions in the properties.** `ReceiptTellsTree` speaks of paths no other
program wrote since, and of the moment when the receipt is durable and the
lease not yet dropped. `ForeignBytesKept` excepts writes in the window between
check and mutation. `NothingStranded` and `RunSettles` are claimed without
crashes and store outages, because with them the code does leave nodes behind
(section 6, further behaviours); bad results are allowed. Both except `RespawnedLate`: a stale list
spawns a node that used up its attempts and is FAILED, which `reduceNode` allows,
under the dedupe key of a settled operation. TLC reaches such a state without any
crash or outage. `RunComesToRest` is claimed as long as nothing fails: with a crash
the code does strand runs. `ManualHasCause` names the two causes of a lockout: a
foreign write, or a file of a REPLACE or CREATE that recovery cannot read. `StoredIsKept`
excepts an object whose file the disk damaged, and speaks of the term only: after it the object
may be gone although its row is there. `WorkBeforeReview` excepts the profiles from which an emergency or the
fast budget took a gate out of the fragment (`GateTakenOut`); in those it is violated.

**Fairness.** `Promotion!FairSpec`: a running call proceeds and a broker that is
down is opened again; both are straight-line code that waits for nobody.
`OpenReconciles` needs no more, since crashes are bounded. `AgentWork!FairSpec`:
weak fairness of `Serve` as a whole, that is, the event loop does not stop while
a request or an open operation is left. Workers poll without a pause and the lease
of a lost worker expires, so each open operation is reported on eventually; no
order between handlers is assumed. `RunCompiler!FairSpec` is the same: weak fairness
of `Serve`, which includes that somebody reads the run from time to time, as the
client does while it waits. `ArtifactStore!FairSpec`: file operations of a call come
back; nothing is assumed of the collector. `CloudDispatch` and `ProfileCompiler` are
checked for safety only. `OperationStore` states no fairness: the code
does not guarantee that an operation is ever leased.

## 4. What is proved

For every set of requests, paths, plans, operations, principals and every bound:

| Theorem | Statement |
|---|---|
| `PromotionTypeCorrect` | `Spec => []TypeOK` |
| `PromotionLeaseHeld` | `Spec => []LeaseCoversJournal` |
| `PromotionSettledForGood` | `Spec => SettledForGood` |
| `PromotionImplementsLease` | `Spec => ImplementsLease` |
| `PromotionGrantOnce` | `Spec => []OneJournalPerGrant` |
| `PromotionIntentFirst` | `Spec => WritesUnderJournal` |
| `PromotionKeepsForeign` | `EditsDiffer => (Spec => ForeignBytesKept)` |
| `PromotionManualHasCause` | `DistinctPaths => (Spec => []ManualHasCause)` |
| `PromotionReceiptTrue` | `DistinctPaths /\ RestoresWork => (Spec => []ReceiptTellsTree)` |
| `QueueTypeCorrect` | `Spec => []TypeOK`, the CHECK constraint of the table included |
| `QueueLeasesOnce` | `Spec => []NonReclaimableOnce` |
| `QueueRefusesLateResults` | `Spec => LateResultRefused` |
| `QueueKeepsLeases` | `Spec => UnexpiredLeaseKept` |
| `QueueSuccessFinal` | `Spec => SuccessIsFinal` |
| `RunCompilerProofs!TypeCorrect` | `Spec => []TypeOK` |
| `RunCompilerProofs!Refinement` | `Spec => ImplementsLifecycle` |
| `AuthorsNeverMixed` | `Spec => []OneAuthor` |
| `AnswerIsTrue` | `Spec => []AnsweredMeansQueued` |
| `WorkTypeCorrect` | `Spec => []TypeOK` |
| `AcceptedIsForGood` | `Spec => AcceptedForGood` |
| `WorkInDependencyOrder` | `Spec => []DependenciesFirst` |
| `AcceptedIsWork` | `NoRepairTail => (Spec => []AcceptedMeansWorked)` |
| `RepairNeverRuns` | a node that waits for blocking findings is never started |
| `OneWriterAtATime` | `WritersAlone => (Spec => []OneWriter)` |
| `RetriesAreTakenUp` | `AllAlone => (Spec => []RetriesSurvive)` |
| `NothingIsStranded` | `AllAlone => (Spec => []NothingStranded)` |
| `CloudDispatchProofs!TypeCorrect` | `Spec => []TypeOK` |
| `CloudDispatchProofs!AtMostOnce` | `Spec => []AcceptedOnce` |
| `CloudDispatchProofs!RowTells` | `Spec => []RowTellsProvider` |
| `CloudDispatchProofs!CountedOnce` | `Spec => []UsageCountedOnce` |
| `StoredIsKeptForTerm` | `Spec => []StoredIsKept` |
| `RiskGatesAcceptance` | `Spec => []RiskIsGated` |
| `WritersStayInLine` | `Spec => []WritersInLine` |
| `ReviewAfterWork` | `Spec => []WorkBeforeReview` |

*Promotion: lease and grants* (`PromotionProofs`). Assumptions:
`PlanAssumption` (the plan is a sequence of well-formed entries, sentinels are not
values) and `BoundAssumption`. `TypeOK` is not inductive: writing an entry needs
its index to be in the plan, so `EntryInv` says that a call that handles an
entry is at an entry of its plan, and `TypeInv` is the conjunction. The lease
argument needs two more facts: where a call can be given its journal's state
(`PlaceInv`) and what the lease columns say when there is a holder or none
(`HolderInv`); `LeaseInv` joins them to `LeaseCoversJournal`. Rather than
forty actions times three conjuncts times three results, each action is shown to be
one of five kinds of step: it idles, works under the lease, opens a journal,
settles it, or releases the lease (`StepKind`). The invariant, the two action
properties and the refinement then follow from the kind alone. `OneJournalPerGrant`
needs `GrantInv`: a call that has passed `consume_grant`, or has a journal, is entitled
to its grant, the grant is spent, and no other call of the same grant is entitled.

*Promotion: the files* (`PromotionTreeProofs`). Same assumptions, on top of `TypeInv`
and `LeaseInv`. `StageInv` says which states the entry rows can have under a journal in
each of its states; it makes `WritesUnderJournal` follow, because whoever writes is
handling an entry of a journal past PREPARED, all of whose rows exist. `ForeignBytesKept`
needs `WindowInv` (what the check found is on disk until another program leaves the mark
"raced") and `EditInv` (where another program wrote last, its bytes are there). The
invariant of the tree is `TreeInv`: while the broker was the last to write an entry's
file, the file holds the captured bytes or the new ones (`EntryOK`), the captured ones
while the journal is prepared, once the row says ROLLED_BACK, once the rollback has
passed the entry, and under a STALE or ROLLED_BACK outcome; the new ones under COMMITTED;
and a manual outcome has an entry that is not the broker's or could not be read (`OutcomeOK`,
`Cause`). The rollback
part is what makes it inductive: at `RollbackDone` every entry is behind the loop's
index. Each step either moves the call only, promises an outcome, marks one row or writes
one file (`FilesMove`, `FilesPromise`, `FilesMark`, `FilesWrite`). TLC checked all four
invariants on the bounds of `promotion_tree` and `promotion_lease` before the proof.

The three hypotheses are about the instance, and TLC shows that each is needed:
`DistinctPaths` (a change set names each path once; nothing in `prepare_entries` or the
primary key of `promotion_entries` enforces it): with one path replaced twice, a crash
after the first write makes reconciliation take the broker's own bytes for foreign ones
and lock the workspace. `EditsDiffer` (other programs do not write the very bytes of the
change set): the rollback takes such bytes for its own and restores over them.
`RestoresWork` (no restore of a live call fails and the root is there on open): finding 2,
and the same outcome when the root is missing at the open after a crash in the middle of a
commit. The instances of `promotion_tree` and `promotion_lease` satisfy the first two.
`PromotionManualHasCause` does without `RestoresWork`.

*Queue* (`OperationStoreProofs`). Assumption: `QueueAssumption`. `QueueInv` adds
`ScanFresh` to `TypeOK` and `NonReclaimableOnce`: while recovery is under way, a row
it has scanned and not marked is still a leased, expired, non-reclaimable row. It is
needed because `Recover` does not look at the row again. `StepOfRow` lists the ways
a step can change a row; the three action properties follow from it.

*Run* (`RunCompilerProofs`). Assumption: `CompilerAssumption` (bounds are numbers,
node names are not handler kinds). The invariant is `TypeOK`, `SettlesNode` (a
settlement waiting to be accepted is one of a node) and `TreeInv`: the tree is touched
only in VERIFIED_ACCEPTED and after it, a call that writes it does so in
VERIFIED_ACCEPTED, and whoever asks for the apply has written all of it. `TreeInv` is
what makes the refinement inductive, because the calls that write and that ask are
several steps away from the verdict. `EdgeFacts` says what the edges and guards allow;
`StepImplements` maps each step to one of the abstract run or to none.

*Racing calls of a run* (`RunCompilerProofs`, second half). `OneAuthor` is about bindings that a
call read before an await and commits after it. `AuthorInv` says what the row has bound
in each state (`RowFits`) and what every call carries (`BindingsFit`): no acceptance
artifact before ACCEPTANCE_CHECK, at most a ledger in it, and behind the ledger only the
call's own, so that a commit that passes the version check cannot mix two calls.
`AnswerInv` says that the one `createRun` that inserted the run is the only one creating,
that the ledger row is not completed while it does, and that behind each of its steps the
capture and the analyst are queued.

*Agent DAG* (`AgentWorkProofs`). Assumptions: those of `AgentWork`. `WorkInv` joins to the
types what a handler's frame says of its operation (`FramesFit`: only what succeeded is
accepted, a node whose request is being stored was started), what the attempt counter
says of a node (`CountersFit`), that everything started *or still listed* has its
dependencies accepted (`InOrder`; the list goes stale, but acceptance is for good, so the
dependencies of a listed node stay met) and `WorkedFor`. The step lemmas also yield
`Grown`, from which `AcceptedForGood` follows. `AcceptedMeansWorked` needs `NoRepairTail`:
no node waits for blocking findings. That covers the intents whose fragment has no
repair tail (research, specification, requirements, diagnosis, optimization, incident
response, deprecation, documentation, architecture design); for the others it is finding 3.

*Agents in a line* (`AgentWorkProofs`, second half). The other three invariants of
`agent_work` are not true of every profile (section 6, further behaviours). What makes them
true is order: of two agents, one waits for the other, directly or not. `Precedence(B)` says
that `B[n]` holds only nodes that n waits for, through nodes the selection does not leave
out; a node is `Alone` if it is ordered with every other role node of the selection
(`Live`). `WritersAlone` asks it of the writers: so it is in all seventeen fragments of
the catalogue as they are (the repair tail is never `Live`). `AllAlone` asks it of every agent:
so it is in thirteen of them, not in feature, research, specification and
requirements, whose investigators work side by side. Secondary intents, overlays and the
thorough budget may add a node beside the line, and the condition is then to be read off the
compiled profile; the profile of `agent_work` (a critic beside the writer) is one that does not
meet it. The analyst is in every profile without a predicate, and the selection never
sets HAS_BLOCKING_FINDINGS (`FindingsComeLater`).

The argument is layered, and each layer is an invariant of its own. `TurnInv`: who runs
without awaiting has the turn, and a handler has a list only while it works it off. `SweptInv`:
the nodes that the selection leaves out are accepted before anything but the analyst starts,
so findings come too late for all of them. That is finding 3 for every profile, stated as
`RepairNeverRuns`, and it is also why the repair's writer is no second writer. `PastInv`: what
is started or listed has everything that it waits for behind it; it is an induction over
the run, not over the graph, so `B` needs no recursion. `AloneInv`: a list with a node that is
alone has nothing else, so its handler cannot throw the node away with the rest or count its
attempt twice (`ListedAlone`), and one thing at a time is under way for it: an open
operation, its settlement, or the storing of its request (`OneAtATime`). Two open
operations of writers would then be two things under way for one node, or one writer started
before the other was accepted. `CoveredInv`: as long as a node has to be spawned (a retry always;
any ready node unless a crash cut off its handler), somebody who has the turn is going to list
it or has it in its list; it needs `ListedAlone`, because a handler that finds a node already
spawned drops its list. `Fresh`: the attempt in the record is the newest one, what is about
to be spawned has no operation yet (so the dedupe key never swallows it), and what is SPAWNED
has something under way until a crash or an outage. The retries survive outages too in
such a profile. TLC checked all of these on a line of three agents with its repair tail
and three faults (32,974 states), and `AloneInv` of a writer before two reviewers that work
side by side (343,754 states), before the proof.

*Artifact store* (`ArtifactStoreProofs`). Assumption: `StoreAssumption`: a mark sees fewer
midnights than the quarantine has days (30 in `blob-store.ts`). The collector asks, links and
unlinks without the lock, so no argument over one step shows that a copy is left; what saves
the object is time. `StoreInv` says that a mark began at most `MarkDays` ago and, about to
unlink the object, has linked it into its own day's folder (`MarkedLately`); that the sweeper is
only in a folder `QUARANTINE_MIN_DAYS` old (`SweptIsOld`); that on a sound disk no file is bad
and nobody evicts (`SoundDisk`); and that a call which has found or installed the object, or
has returned, has within its term a copy under the object's path or in a folder that no sweep
reaches within that term (`RelyingIsKept`).

*Cloud call* (`CloudDispatchProofs`). Assumption: `DispatchAssumption`. The invariant
says that a dispatching call has one owner (`OneOwner`), what an owner was told at each
place (`ToldRight`) and what the provider can have accepted when it is there
(`ProviderInv`). That nobody bound a receipt to a call whose outcome is unknown needs
`ReceiptInv`: a receipt is bound by an owner that goes on to complete the call. Usage needs `ChainInv` on top: entries correct each other in one
chain, and the owner's entry is its end once it is written.

*Profile composition* (`ProfileCompilerProofs`). Assumption: `CompilerAssumption`: the
contracts are contracts of the schema, any number of them, with any set of risk flags.
The three statements are about paths, and `Ancestors` is a recursive function. The library's
induction rules cannot be used (they take an operator), but its theorem that finite sets
are well-founded under inclusion can: `LeastNumber` and `Induction` follow from it, and
with them `AncestorsLeast`, what the recursion computes for every finite graph: the
least set with a node's dependencies and those of its members. From there on no proof
expands the recursion: `AncestorsGrow` (more dependencies, no fewer ancestors) and
`AncestorsSplit` do. The catalogue is data, so `FragmentsFit` goes through its seventeen
fragments, all of them one line of nodes with branches beside it. `CompilerInv` says what a stage
may not undo: what no stage takes out of the fragment (`Core`: not a gate, a planner or an
investigator) is still there with its edges (`Kept`, and no stage adds a writer), acceptance
waits for what each overlay asked for and a gate that is gone is owed (`Gated`,
`Delivered`), and, unless a gate was taken out, every review comes after the work
(`WorkFirst`). The last one is an invariant of the stages that only add (`Extends`:
nothing loses a dependency, and what is new before acceptance waits for what acceptance
waits for); the stages that remove nodes need `Core`, and the fast budget, which rewires the
implementer, needs that its composition has no overlay and a fragment of its own
(`Plain`). TLC checked `CompilerInv` with up to two flags before the proof.

**Only model-checked.** Liveness (`OpenReconciles`, `RunSettles`, `RunComesToRest`,
`AcceptanceResumes`, `CallsReturn`): the prover does not handle fairness and ENABLED.
`NothingStranded`, `RetriesSurvive` and `OneWriter` where agents work beside each other, in
the profile of `agent_work` and others like it: the theorems are about agents in a line.
`OverlaysCompose` of `ProfileCompiler` is finding 4. Induction over data is done where the
induction is over a set of numbers (`Ancestors`).

## 5. Mutants

Every property has a mutant: an operator beside the one it replaces, marked
`mutant:`, which changes the model the way a plausible slip in the code would
(a dropped guard, the receipt after the lease, a key without its attempt, a
requeue that forgets, an expiry off by one). Under each of them TLC finds
the property violated. They are not part of the specifications.

## 6. Findings

1. **A changed workspace is overwritten** (`promotion/mod.rs:434`). Each entry's old
   content is read when the promotion runs; the approved base digest is never
   compared. A file edited after the approval is replaced and the outcome is
   COMMITTED. The specification (line 7774) says "Changed workspace never receives
   stale patch." Run `promotion_stale_patch`.
2. **A failing rollback reports STALE** (`promotion/mod.rs:391`). An I/O error while an
   entry is restored ends in a STALE receipt, the workspace READY, and a tree that is
   neither base nor candidate. The specification (line 7773) asks for the exact base or
   candidate, or MANUAL_RECOVERY_REQUIRED. Run `promotion_rollback_fault`.
3. **The repair loop is dead** (`dag-engine.ts:97`). Nodes whose predicate is not set
   yet are marked ACCEPTED in the first wave, so `repair-implementer` is done before
   the review that could ask for it. ADR-012 (line 375) asks for the predicate to be
   bound to the review so that the loop is not dead; it is bound, and the loop is dead
   still. Run `agent_repair`.
4. **Some contracts cannot be compiled** (`profile-compiler.ts:573`). A node that is
   attached before acceptance although the graph has it further up gains everything
   acceptance waits for, which may wait for the node: the profile has a cycle and the
   compiler throws, after the analyst was accepted, so the run stays in
   PREFLIGHT_COMPLETE. It happens to a migration with the flag `migration` or
   `data-mutation`, to security remediation with `public-api` and `auth`, to a feature
   with `public-api`, `auth`, `multi-subsystem` in that order, and to an emergency
   with `production-impact` and a review. ADR-012 (line 170) says that an overlay is
   available for every primary intent. Run `profile_cycle`.

### Further behaviours met while modelling

The models take these paths; no run is spent on them.

* Queue. A runner revoked while its long poll is parked is given a lease when it wakes
  (`api/runners.ts:413`; the specification, line 6607, says that revocation prevents new
  leases). An expired lease of a non-reclaimable operation is marked unknown at the next
  restart only (`recovery.ts:50`). A reclaimable operation that keeps failing is leased
  again at once and starves the rows behind it (`runners.ts:419`).
* Agents. An operation's result is durable before its node is settled
  (`api/operations.ts:181`); a failing read or a crash between the two leaves the node
  SPAWNED for good, as a repeated report is refused and the start-up requeue looks for
  RETRYING nodes only. After a failing load of the project adapter the analyst is
  ACCEPTED and no profile is ever compiled (`agent-jobs.ts:563`). An analyst that settles
  before the snapshot is sealed compiles with the default adapter.
  Three statements that hold for the profile of `agent_work` fail for others. Two open
  operations of one write node: after an invalid envelope the handler is still inside the
  try block when it spawns the retry, and if the writer is listed before another ready
  node whose request cannot be stored, `failCompletedSpawnJob` counts the attempt again.
  A retry left behind without any crash or outage: a handler that finds a node of its list
  already spawned throws away the rest of the list, and its own RETRYING node with it; the
  others cover it as long as they are inside their try block, which protects once. TLC
  reaches it with six nodes that become ready through two acceptances beside the failing one
  (54 steps); the next report of any agent picks the node up again.
* Run. A handler that kept PROFILE_SELECTED across an await may reopen a BLOCKED or
  VERIFIED_REJECTED run; it comes to rest again. After a crash nothing takes up a run in
  SNAPSHOT_VALIDATING to PREFLIGHT_RUNNING (`compiler.ts:828`), VERIFIED_ACCEPTED or the
  apply states; a failed capture leaves SNAPSHOT_REQUESTED, an analyst that failed for good
  PREFLIGHT_COMPLETE. The tree is written in VERIFIED_ACCEPTED, before the grant and the
  apply states. A `createRun` cut off after its insert can never be completed by a repeat.
  The destructive-authorization question is asked after PROFILE_RUNNING is committed
  (`compiler.ts:1015`).
* Profiles. `removeNode` does not hand on the dependencies of the node it removes: a
  refactor in an emergency leaves the architecture reviewer without dependencies, so the
  review runs before the work; a feature with `auth` listed before `emergency` does the
  same to the security reviewer, and a fast feature's acceptance waits for nothing. A
  documentation contract that changes behaviour is rewritten to its kind after the
  rewrites for refactor and emergency, which therefore do not apply to it.
* Cloud calls. A call that exists answers its stored request digest without comparing it
  (`cloud-dispatch.ts:221`). A crash while dispatching leaves the row `dispatching`; no
  code reconciles it. An abort in the middle of an answer may complete the call as failed.
  `dispatchCloudCall` has no caller in the control plane yet.
* Promotion. A file that recovery cannot read (another program holds it open) locks the
  workspace for manual recovery although nobody wrote to it (`recovery.rs:91`); of a DELETE
  it counts as done, and the snapshot comparison decides.
* Artifact store. The host's collector would be told that nothing is occupied
  (`host-runtime.ts:481`); `occupancy.ts` is not connected to the store. An object that was
  swept keeps its row: `missingBlobs` answers from the row (`api/artifacts.ts:89`) and a result
  is reported by digest (`api/operations.ts:138`), so a run can refer to an object with no copy
  left. The collector may quarantine an object that was referred to after it
  asked; nothing restores it. A put may fail when the collector moves the object between
  its installation and its rereading. The collector is not scheduled in production.
* Enrolment (not modelled). `setProjectTrust` always inserts policy revision 1, so trust
  cannot be given again after it was revoked; duplicates that find a `reserved` row
  both do the work.

## 7. Plan

Done: all seven components' models, and proofs for all of them. Next, in this order:

1. `OneWriter`, `NothingStranded` and `RetriesSurvive` where agents work side by side but
   become ready through one acceptance, so that no two lists overlap (the investigators
   of a feature).
2. Lemmas shared by the promotion proofs (which step touches which variable) in one place.

### Not modelled

* Control-plane administration (projects, policies, runners, approvals, workspace
  enrolment) and the broker's outbound ledger: worth a model of their own, an effect that
  happens at most once behind a ledger on each side.
* Verification verdicts, repair convergence, preflight rounds, instruction scopes:
  sequential code over data; they would be operators against a reference definition.
* Agent runtime: sessions live inside a worker process; the control plane sees only
  their reports, which are modelled.
* Evidence graph, context compiler, repository index, model adapters, contracts, snapshot
  capture, sandboxes, user interface, scripts: text, search, schemas and I/O. They make
  up most of the repository's lines, and there is little state in them that steps of
  several actors could bring out of order. The reason for each is in `PROJECT.json`.
