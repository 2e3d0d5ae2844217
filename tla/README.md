# forge-method-core in TLA+

Forge is a local governance runtime for agent-led product work: several
processes of one machine (the MCP server's host, command line invocations,
backups) share a *state root*, a directory with append-only logs, lock files
and the project's governed files. No daemon coordinates them. What makes the
runtime correct is a set of protocols over OS file locks, in-process
registries and logs that survive a crash at any instruction. This project
models those protocols, model-checks them with TLC on small instances and
proves their safety properties with TLAPS, for every number of processes,
requests and records; where a property needs a restriction, the theorem states
it and a run or a note shows why.

All paths below are relative to `src/crates/`.

## Inventory

The repository has five layers (docs/architecture.md): contracts, pure
decisions, authority (the trusted computing bases), kernel, and the two
front ends (CLI and MCP). State and concurrency are in the store, the event
log, the kernel's execution and the TCB ledgers.

| Component | State | Operations | Interacts with | What makes it correct |
|---|---|---|---|---|
| Producer boundary, `forge-core-store/src/producer_quiescence.rs` | three lock files of a state root (gate, authority, drain), a registry of leases per process | admit a producer, admit an effect producer, quiesce the host, drop a guard | everything that writes takes a guard; backup and restore quiesce | quiescence excludes all producers, one effect publisher, no lock leaks, no starvation of quiescence |
| Event log, `forge-core-eventlog/src` | one ndjson log and one lock per stream (Memory, Research, Governance) | admit, promote, forget, list_now; admit_source; record, arbitrate, escalate; project; capture for a backup | runs under an effect producer guard; capture under quiescence | decisions are made on the state they are appended to; acknowledged events survive; a capture is restorable |
| Effect WAL, `forge-core-store/src/lib.rs` | target files, a write-ahead log of transactions | apply with WAL, rollback, tail repair, recovery, inspection, completion, compaction | called by kernel, MCP host, CLI, backup under the effect lock | all or nothing across crashes; recovery never undoes committed work |
| Prepared execution, `forge-core-kernel/src/prepared_execution.rs` | replay key of each request, the effect WAL | prepare, evaluate late, commit, reconcile | effect WAL, replay WAL | a key is consumed exactly for what committed, and eventually |
| Operation execution, `forge-core-kernel/src/wal_orchestration.rs` | none of its own | execute_operation | effect WAL | the outcome it reports is true |
| Replay WAL and anchor, `forge-core-store/src/{replay_wal,replay_anchor}.rs`, MCP `trusted_runtime.rs` | reserved and consumed nonces, an external anchor | initialise, reserve, consume, recover; provision, verify, advance; start a host, execute a call, answer it | prepared execution, boundary | no signed call takes effect twice, not even after the state root was put back |
| Claims, `forge-core-decisions/src/{claim_engine,conflict_detection}.rs`, `forge-core-store/src/claim_wal.rs`, CLI `claim.rs`, `io_util.rs` | leases of work claims, their WAL with checkpoint generations, a lock file, a cache, handoff artifacts | acquire, heartbeat, release, handoff, reconcile (loop), status, check-write, rotate | derived state, write gate | authority changes hands only by release or evidenced handoff |
| Crash-atomic replacement, `forge-core-store/src/{retained_crash_replace,crash_replace}.rs` | target, intent and quarantine files | replace, recover | claim WAL, project state | old or new content after any crash |
| Backup, restore, reinitialize, `forge-core-store/src/{backup,restore,project_reinitialize,product_lifecycle}.rs` | archives, staging, a restore's journal, receipt and completion documents, the anchor | back up, verify, restore, resume, isolate | boundary, anchor, event log, effect WAL | a backup is one moment; a restore brings back all that the anchor vouches for or leaves nothing visible |
| Retained directories and trees, `forge-core-store/src/retained_*.rs` | open directory handles and identities | open, validate, replace | all of the store | no access through a replaced directory |
| Workflow governance, `forge-core-workflow-governance-tcb`, kernel `workflow_governance/adapter.rs`, `forge-core-store/src/workflow_action_replay.rs` | a ledger of digest-chained records in one file, a replay WAL of broker actions, a rebase plan | import, adopt, broker actions and their repair, objective, evidence, focus, authorised facts, completion, episodes, coordination, release upgrade, rebase; recovery of ledger and replacement | domain pack lifecycle, broker, policies | what is appended can be read; nothing committed is lost; no action twice |
| Domain packs, `forge-core-domain-pack-tcb`, learning store | installed packs, acquisition state | acquire, promote, revoke | authority, CLI | a pack is used only in its approved state |
| Decisions, `forge-core-decisions` | none | phase transitions, conflict detection, routing, admission | kernel, CLI | pure functions |
| Task graph, `forge-core-graph` | none | build, order, query | CLI | pure algorithms |
| Authority and crypto; contracts, schema, validation; MCP server; CLI; trace, evaluation, xtask | none or I/O only | | | |

The behaviours that are hard here: processes and threads that interleave
between any two lock operations; reference-counted leases that die between a
check and its use; crashes in the middle of an append, between two durable
steps in two logs, during recovery; appends that fail with an unknown part in
the file; deadlines that pass while a lock is being granted.
`PROJECT.json` lists each of them at its line under `hazards`, with the
properties that would catch it.

## Modules

| Module | Models | Role |
|---|---|---|
| `HostQuiescence` | what the producer boundary promises | abstract specification |
| `ProducerBoundary` | `producer_quiescence.rs` | detailed specification, refines `HostQuiescence` |
| `ProducerBoundaryProofs` | | inductive invariant, safety theorems |
| `ProducerBoundaryRefinement` | | the refinement theorem |
| `EventStream` | an event log file, its replay and the three folds | operators |
| `EventLog` | the operations of the three streams and the capture | composes `EventStream` and `HostQuiescence` |
| `EventLogProofs` | | inductive invariant, safety theorems |
| `EffectRecords` | the effect WAL's file and the readers of it | operators |
| `EffectWal` | transactions, recovery, compaction, prepared execution | specification over `EffectRecords` |
| `EffectWalProofs` | | inductive invariant, safety theorems |
| `ReplayStore` | replay WAL, anchor, trusted MCP hosts | specification; the effect transaction is one step |
| `ReplayStoreProofs` | | inductive invariant, safety theorems |
| `ClaimEngine` | lifecycle decisions, path overlap, write gate, projection of the claim WAL | operators |
| `ClaimStore` | the claim commands over lock file, WAL, cache and artifacts | specification over `ClaimEngine` |
| `ClaimStoreProofs` | | inductive invariants: the WAL's replay; lock, claims and evidence |
| `GovernanceEvents` | the governance ledger's records: append rules, recovery rules, wire schemas | operators |
| `GovernanceLedger` | the ledger's files, the kernel's handlers, the action replay WAL, the rebase | specification over `GovernanceEvents` |
| `GovernanceLedgerProofs` | | inductive invariant, safety theorems |
| `BackupRestore` | backup, loss and restore of a project beside a host that advances the anchor | composes `HostQuiescence` with the anchor |
| `BackupRestoreProofs` | | inductive invariant, safety theorems |
| `MCProducerBoundary`, `MCEventLog`, `MCEffectWal`, `MCReplayStore`, `MCClaimStore`, `MCGovernanceLedger`, `MCBackupRestore` | | instances for TLC |

`EventLog` does not repeat the lock protocol: it instantiates
`HostQuiescence`, which `ProducerBoundary` is proved to implement, with one
lease per thread (an effect lease is usable by its owner thread only).
`BackupRestore` instantiates it too, for the boundary of the tree that is at the
destination's name.

### ProducerBoundary

State: where each thread is in which request (`pc`, `op`), the descriptors it
opened (`pin`), its guards, the registry entry and mutex of each process, and
the three file locks: `gate` (exclusive only), `authority` and `drain` (shared
or exclusive, per open descriptor). A pin stands for one call's set of open
descriptors and for the lease made of it, so it is also the registry id; a
lease lives as long as some guard has its pin (the `Arc`), and the `Weak` of a
registry entry can be upgraded exactly then.

Actions: `Begin` (pin_state_root), `DecideAcquire` / `DecideRefuse` (the
registry decision under the mutex), `ProbeGate` / `ProbeRefuse` / `ReuseLease` /
`ReuseLost` (reuse of a live lease with the nonblocking gate probe, while the
mutex is held), `AcquireGate`, `AcquireAuthority`, `TryAuthorityRefuse`,
`AcquireDrain`, `ValidateLease`, `Publish`, `Abandon` (deadline, cancellation
or failure, with the unwinding of what was taken), `DropGuard`, `UnlockDrain`,
`UnlockAuthority`, `UnlockGate`, `Unregister` (the Drop of the last guard, one
step per lock, the registry last), `Crash`.

### EventStream and EventLog

A log is a sequence of lines and whether the last one has its newline. A line
is an event, a fragment, or pieces glued together; `Write(f, e, cut)` appends
the part `cut` of an event, and every crash or failed write chooses one. The
replay is that of `replay_bytes`: a broken last line without newline is
skipped (`EventsOf`), any other broken line is an error (`Readable`). That the
events of a stream follow from each other (`EventsFollowState`) is said of every
file that replays. The folds of the three domains are
recursive functions over the events.

A call goes `Begin`, `Deny` or `Enter`, `LockStream`, `Project` (replay and
decision), `AppendEvent` for each event, `Unlock`, `Leave`. Policies are pure:
a gated call may be denied. `list_now` re-admits any set of entries as stale,
because the clock decides which have expired. The capture closes admission,
waits for the leases, locks the streams, reads all three twice and compares.

### EffectRecords and EffectWal

The log's readers are operators: the tolerant one of recovery, the strict one
of inspection, the one of compaction; and what they compute: the incomplete
transactions, the before-images, the commits whose replay is pending, what
compaction keeps. A content of a file is named after the execution that wrote
it, so "who wrote this" can be asked of a file. Two assumptions on the constants
come from the code: no file starts with a content that an execution has yet to
write, and an execution writes something (`validate_tool_effect` blocks an empty
write set with `EffectWriteSetEmpty`).

Everything happens under the exclusive effect lock, so one set of variables
describes the holder. A transaction is `StartCommand` or `StartCommit`,
`Capture`, `LogBegin`, then per target `LogBeforeImage`, `ApplyWrite`,
`LogWriteApplied`, then `LogCommit`; a prepared execution goes on with
`ConsumeReplay` and `LogCompletion`. Each append and each file write has a
failing twin with unknown effect. Rollback and recovery run the same script of
`Restore` and `LogMark` steps. An activation is `Repair`, `ReadWal`, the undo,
`Inspect`, then `Reconcile` / `ConsumeReplay` / `LogCompletion` for each
pending commit, `Activated`. `Compact` is exported by the store; nothing in the
repository but tests calls it. `Crash` cuts an append anywhere. The ghosts
`acked` and `truth` say which Commit records reached the log and what the files
would be if exactly those executions had happened.

### ReplayStore

A nonce is reserved before the effect and consumed after it; the anchor, a file
outside the state root, vouches for a prefix of the replay WAL. Three locks
matter: the producer boundary, the replay lock (kept from the guard to the
consume) and the anchor's lock (kept from the comparison to the replacement);
who holds which follows from `proc`. A host starts with `StartHost`, advances
the anchor, repairs the log (`RepairLog`), settles what earlier hosts left
(`SettleConsume`, `SettleComplete`), rechecks and advances again. A call is an
advance, `Prepare`, `ReserveNonce`, `TakeGuard`, `LateAdmission`,
`CommitEffect`, `ConsumeNonce`, `CompleteCall`, another advance and the answer
(`Answer`). An advance is `AdmitAdvance`, `CaptureHead`, `CompareAnchor`,
`ReplaceAnchor`, retried when the anchor moved in between. Appends may fail
with a stump in the file, every process may die, and `RestoreStateRoot` puts an
old copy of the state root back while nothing runs.

### ClaimEngine and ClaimStore

`ClaimEngine` has the decisions of `claim_engine.rs` as predicates and
functions of a table of claims, the comparison of repository paths as sequences
of parts, and the projection of lifecycle records. A lease is kept as text, so
a second past the year 9999 (`LastRfc3339`) is written and not read back.

In `ClaimStore` a command reads the clock (`Start`), takes the directory lock
by creating a file (`CreateLock`, `InspectLock`, `ReclaimLock`, `SignLock`),
loads the claims and decides (`Load`), writes the artifact of a handoff
(`SaveHandoffArtifact`), appends and perhaps rotates (`AppendRecord`), saves
the cache (`SaveClaim`) and drops the lock in two steps (`CheckToken`,
`DropLock`). An append that is cut short leaves a fragment, a whole record, or
the files of an unfinished rotation. A looping process reconciles for ever and
ends at its first failure, as the code's loop does.

### GovernanceEvents and GovernanceLedger

The ledger's TCB decides twice about every record: when it is appended, on a
projection of the records before it, and when the file is recovered, in one
pass that remembers flags. `GovernanceEvents` keeps the two apart: `Admits` and
`Prepare` with one `Push...` operator per entry point and `WireSchema` on one
side, `RecoverLine` with `ExpectedSchema`, `RecoveredTransition`,
`RecoveredSemantics` and `Remember` on the other; only the rules that are one
function in the code are one operator. A record's digest is its position in the
ledger, since digests chain.

In `GovernanceLedger` the ledger is four files: `target`, and off Unix `next`,
`prev` and a `marker`; each step of a replacement and of its reconciliation is
an action, with a failing twin. `op` is the request that has the ledger's lock:
`Lock`, `Reconcile` while there is something to resolve, then
`ReconcileEpoch` if the domain pack lifecycle has moved, then the handler
(`ApplyBrokerAction`, `AcceptObjective`, `ObserveEvidence`, `BeginFocus`,
`ContinueFocus`, the six authorised facts (`RecordCapability`, `RecordEvidence`,
`RecordDecision`, `RecordWaiver`, `RecordApplicability`, `RecordSignal`),
`CompleteWorkflow`, `ApplyEpisode`, `ApplyCoordination`, `AdoptLegacySolo`,
`UpgradeRelease`, `CompleteRebase`),
which either commits a batch in one replacement or returns. A broker action
goes on to its two replay lines; `RepairReplay` writes them for one whose
process died in between. The lifecycle is a generation number and the core
release it was built for. `InstallGeneration` activates the first one, for any
core that its request names, and `ChangeGeneration` the next ones, which keep the
core; neither looks at the workflow ledger, which need not exist yet. `Import`
commits the first record of a project before the generation is admitted, so it
can append under a generation for another core and fail behind it; every other
handler with a domain lock is admitted first (`CoreJoined`), which is what
`MixedPairNotAdmitted` says. `DerivePlan`, `PersistPlan`, `CommitLifecycle` and
`CompleteRebase` are the four stages of a rebase, each a moment of its own. What
a policy decides is a free choice, so the properties hold whatever it decides.

### BackupRestore

A state root is its replay WAL, a number of calls; the archive is named by the
WAL it holds. `dest` and `staging` are the two names a restore works with, each
vacant, blocked by something else, or a tree with some of its members; `paper`
says under which operation each protected document (journal, receipt,
completion record, selector) was published; `anchor` and `anchorLock` are
outside the state root and survive its loss.

The host appends a call under one lease (`Admit`, `Append`) and advances the
anchor under another (`CaptureHead`, `LockToAdvance`, `Advance`). A backup is
`Close`, `Drained`, `Capture`, `LockToBackup`, `VerifyAnchor`, `PublishArchive`,
`PublishBackupReceipt`, `VerifyBackup`. A restore is `Plan`, `Look` (a tree that
is there already is quiesced), `RetainAuthority` (which does not wait for the
anchor's lock), `Inspect` (what earlier restores have left), then `Journal`,
`Stage` for each member, `Exchange`, `Rename`, `Finalize`, the quiescence of the
tree just published, `Verify`, `Certify`, `Succeed`; or `Select` when the restore
was completed before. Whatever goes wrong after `Rename` ends in `Isolate`. Each
step may fail, with an unknown effect where the code cannot tell, and each
process may die before any of them. `Lose` takes the project away while nothing
runs, `Occupy` puts something else in its place.

The host takes the anchor's lock while it has a lease; the restore takes the
lease of the published tree while it has the anchor's lock. The model has both
waits. That the code looks at the state root again once it has the lock
(`validate_root`) is what keeps the anchor from vouching for calls in a tree
that a restore has isolated meanwhile (`AnchoredIsVisible`).

## Runs

All bounds are CONSTANTS, the calls given to each thread, or part of a menu.

| Run | Instance | Distinct states | Shows |
|---|---|---|---|
| `boundary_safety` | 2 processes, 3 threads, all requests, 4 pins (symmetric) | 57 870 | the boundary's safety properties, and that it refines `HostQuiescence` |
| `boundary_returns` | the same threads, producers against one backup, 3 pins | 11 197 | quiescence drains; admissions and drops return |
| `eventlog` | 3 threads of 2 processes, all operations and a backup, 1 id, 3 events, 1 torn append, one stream per behaviour, fairness | 90 655 | decisions are true of the state they land on; captures are restorable; no silent loss; stream locks are uncontended; calls return |
| `effectwal` | host, command, administrator, 2 executions over 2 files, 2 crashes, 2 failing writes | 1 849 610 | all or nothing; recovery keeps committed work; statuses are true; rollback restores exactly |
| `effectwal_completes` | host and compaction, 2 executions, 2 crashes, fairness | 3 364 | every commit is completed |
| `replay` | 2 hosts, 1 operator, 2 calls, a WAL of 3 records, 1 death, 1 failing write, 1 restored state root (symmetric) | 1 815 059 | no signed call takes effect twice; the log stays readable; the anchor raises no false alarm |
| `claims` | 3 processes and 2 agents (symmetric), overlapping scopes, 3 commands, clock to 2, 1 death, 1 fault, rotation after 1 record | 1 305 941 | the WAL replays to what its records add up to; as long as no reclaim took a live lock, authority is never stolen, a live claim is effective and handoffs are evidenced |
| `claims_loop` | a loop and a command, fairness | 81 381 | commands return; expired claims are reconciled |
| `governance` | 10 menus (a starting history, a platform, requests), 3 requests, 1 or 2 deaths, 1 fault, 2 interactions, 2 generations, 2 releases (symmetric) | 376 967 | what is appended can be read; the ledger only extends; no action twice, none on another head than it was decided on; its replay record can always be repaired; failures are honest; a mixed pair admits nothing but a new project |
| `backup_restore` | a host, an operator who backs up and restores, one who restores, 4 calls, archives of 2 members, a WAL of 2 calls, 2 deaths, 2 failing steps, fairness | 208 802 | a success is current and alone; anchored calls stay visible; nothing uncertified is left visible; interrupted restores are resumable; calls return |
| `effectwal_undone`, `claims_bothwin` | small | violation | the two findings below |

Why the bounds are enough. *Boundary*: the interesting cases need a sibling in
the same process (reuse, dead entries, Admitting) and a competitor in another
one; three pins cover one call each, the fourth a lease whose owner calls
again. What the instance cannot show is proved. *Event log*: an id is
admitted, forgotten and admitted again within three events; one torn append and
the events after it make every kind of line. The streams share nothing but the
boundary, so `OneScenario` keeps each behaviour in one of them, and puts the
backup and the torn appends against the simplest one. It cuts off only the start
of a call and an append that is torn, of which no fairness is assumed. *Effect
WAL*: two executions over the same two files in all four access
modes, and two crashes, give a recovery of a recovery; the variable `commanded`
remembers that a command, which does not recover first, has run, and
`Sheltered` limits the guarantees of two properties to what the code promises:
no failing append, and no command where processes die. *Replay*: two hosts race
each other for a WAL in which one call fits and the next one does not, an
advance is retried, and a restored state root takes back any number of
records. *Claims*: three commands make an acquisition, its expiry and a
handoff, or a death with the lock and two acquisitions that race to reclaim it;
without the condition on reclaims `AuthorityIsNeverStolen` fails on this very
instance. A rotation after one record happens in most behaviours. *Governance*: a request may append up to three
records, so three requests reach histories of seven; each menu starts where an
interesting combination is near (an old project, one with an action from before
strict identities, one that has built). Two deaths are allowed where a
replacement takes several steps, so that one can die while it repairs what the
other left. *Backup and restore*: four calls are a backup, a restore, a second
restore that meets what the first one left, and a call of the host in between;
two members make a staging tree that is neither empty nor whole; a fifth call
was checked for the safety properties and adds no case (945 273 states).

Deadlock is checked except where the requests, executions or commands are
finitely many (`EffectWal`, `ReplayStore`, `ClaimStore`, `GovernanceLedger`,
`BackupRestore`).
Symmetry is used only in runs without liveness. `boundary_returns` breaks the
symmetry of pins with an action constraint instead (a call opens the first
free pin), and no fairness is assumed of the constrained action.

`NoHoldAndWait` and `TypeOK` of the boundary are proved and not repeated in a run.

### Fairness

- Boundary: a thread that can take a step does (`WF`), it gets the registry
  mutex in the end (`SF` on the two steps that wait for it; the mutex is held
  for a bounded, nonblocking section), callers drop their guards (`SF`: RAII
  guards around bounded work), and the deadlines of producers pass
  (`SF` on giving up: `PRODUCER_DEADLINE` and `EFFECT_DEADLINE`, checked in
  every polling loop). Nothing is assumed of the deadline of quiescence, nor
  that anybody starts a request.
- Event log: `WF` of each thread's own steps. Not of giving up on quiescence.
- Backup and restore: `WF` of each process's steps, the passing of the quiescence
  deadline (`QUIESCENCE_DEADLINE`, 30 s, checked in the polling loop) included:
  without it a host and a restore can wait for each other for ever. Nothing is
  assumed of starting a call, of failures or deaths.
- Effect WAL: `WF` of the lock holder's steps, and of the start of an
  activation: a host that died is started again. Crashes are finitely many.
- Claims: `WF` of the steps of a running command, and of the loop's next tick.
  Nothing is assumed of other commands, nor that a dead process is replaced.
- Replay and governance have safety properties only: an operator or a client
  has to come back for anything to go on.

## Findings

1. `effectwal_undone`: a failed before-image append rolls back without a
   `RollbackComplete` record; the next recovery undoes later committed work.
2. `claims_bothwin`: a process that found a dead owner's lock removes the lock
   file by name; the one it removes may be the lock another process has just
   taken, and two live claims on overlapping paths are recorded.

`PROJECT.json` quotes the lines they contradict.

### Known weaknesses

The models also reach the following states. No property of a run forbids them,
because the code accepts them, or because the instance of the run leaves out
the process, the ids or the faults they need.

- Event log: an append behind a torn tail is glued to it and acknowledged, and
  the stream is not replayed again; an id admitted again after a forget cannot
  be forgotten again.
- Effect WAL: a crash right after the Begin record makes the recovery write a
  marker for `unknown_effect`, which later activations refuse; a command
  executes over an open transaction, and so does a host over the one that another
  host left when it died; two open transactions are undone oldest
  first; transaction ids of the command line repeat; a backup recovers behind a
  torn tail; a Commit record lands although its append failed.
- Replay: a start advances the anchor before it repairs the WAL, so after a
  death in the middle of an append no host starts until the operator repairs
  it; a host that dies between commit and consume with room for one record
  left, which another host takes, leaves a consume that never fits.
- Claims: a first rotation that dies before the active WAL is replaced leaves a
  store that no command reads; a handoff artifact's name leaves out the scope's
  kind.
- Governance: a marker torn by a death, a first ledger of which only `next`
  exists, and an action replay WAL without its manifest or with a torn line are
  refused until an operator removes them. A rebase plan is derived under the
  ledger's lock, which is given back before the plan is persisted and the
  lifecycle committed (`forge-core-cli/src/workflow_cmd.rs:1039`,
  `domain_pack_cmd.rs:1714`); a record appended in between, or a generation
  activated between lifecycle and joined event, makes the plan
  impossible to complete, since `complete_release_rebase` asks for the plan's
  head, and the mixed pair is refused from then on. `docs/domain-packs.md:195`
  has "A persisted exact plan lets a replacement process finish the joined
  event after a crash". A generation installed for another core than the
  ledger's, before or after the project's import, is refused by every handler
  that works with the effective bundle; a release upgrade needs that no
  generation is active, and a rebase that the two agree.

- Backup and restore: a host that waits for the anchor's lock and a restore that
  waits for the host's lease are parted only by the deadline, after which the
  restore isolates the tree it has just published. A restore that dies after
  publication and before its selector leaves a tree that can be used and is
  certified by nothing, and every later restore answers Interrupted. A member
  whose write fails is, on Unix, put aside under another name within staging
  (`restore.rs:3290`), and a death in the middle of a member leaves it torn:
  either way staging is no prefix of the archive, and restores are refused until
  an operator removes it. An I/O error while a completed restore is merely
  checked again (`restore.rs:940`) isolates a healthy destination, and from then
  on the name is taken: every restore is refused.

## Proofs

`ProducerBoundaryProofs` proves, for every set of processes, threads and pins
(assuming only that `ProcOf` maps threads to processes, that the null values
are not members of the sets, and what the module's named assumptions say of
`Calls`):

- `TypeCorrect`, `QuiescenceIsAlone`, `EffectPublisherIsOne`,
  `RegistryIsTruthful`, `NobodyHoldsAndWaits`, `NoLockLeaks`: the invariants;
- `AdmissionStaysClosed`: the action property of `boundary_safety`.

None of the properties is inductive. The invariant `IInv` adds what the locks
say about the stages: every thread's stage determines its operation (`OpOK`)
and a pin belongs to one process (`PinsOwned`); a thread past a stage has the
locks of that stage, in the mode of its request (`StageLocks`), a guard has
the locks of its lease (`GuardLocks`); locks in force are compatible
(`LockCompat`) and used (`NoLockLeak`); a thread that acquires has its process's
Admitting entry (`Announced`), a thread that probes has the mutex and the gate
(`Probing`); the registry names every live lease (`RegistryNamesLease`), and an
effect lease has one owner (`GuardOwner`). With it exclusion is short: two
guards have two pins with locks in force on `authority` and `drain`, and
compatible modes leave only the permitted pairs. `RegistryNamesLease` is what
makes a process have at most one lease, and it rests on `Announced`: nobody
overwrites an entry that is alive or being made, and `Unregister` removes only
its own id. There is one lemma per action.

`ProducerBoundaryRefinement` proves `Refinement`: a lease is *held* while its
drain lock is in force (its kind read off the modes of the two locks), and
admission is *closed* while a quiescing pin has the gate. Taking the drain lock
is `Grant`, releasing it `End`; the gate is `Close` and `Open`; a crash is an
`End` or `Open` of all leases of the process at once; all other steps stutter.

Each of the other proof modules is built the same way: the properties are not
inductive, `IInv` says what the stages know and the locks exclude, TLC has
checked `IInv` on the instance of the runs (numbers below), and there is a lemma
per action. All parameters (processes, keys, requests, lengths of logs, numbers of
faults and crashes) are arbitrary; the constants satisfy only the named
assumptions of the modules.

`EventLogProofs`: `EventsAreDecidedInOrder` (`EventsFollowState`),
`AckedEventsReplay` (`NoSilentLoss`), `LocksAreFree` (`LocksUncontended`),
`CapturesRestore` (`CaptureIsRestorable`). A thread inside a transaction has its
lease (`Leased`, `Alone`, over what `HostQuiescence` guarantees) and therefore
the stream lock alone (`LocksHeld`); the number it decided is the next one of a
stream nobody else touches (`Transacting`, `Decided`); a file is records with a
last line that is possibly torn or glued (`Shape`), and what was acknowledged is
among the readable ones (`AckedIsWhole`). A capture has seen each stream as it is,
since everybody else is quiesced until it ends (`Captures`).

`ReplayStoreProofs`: `ReplayLogStaysReadable` (`LogReadable`), `AlarmsAreTrue`
(`NoFalseAlarm`), `CallsAreNotReexecuted` (`NoReexecution`); 1 815 059 states.
From the stages of two processes follows that they cannot be in the replay
lock's or the anchor lock's section together (`EffectAlone`, `AnchorAlone`), so
the consume record prepared under the guard is still the next one when it is
written (`GuardHolds`) and the head compared is still the log
(`CapturedIsLog`). Until an old state root is put back the anchor is behind
the log (`AnchorBehind`); what was answered is consumed, acknowledged and
anchored, and stays so (`WentThrough`, `AnsweredIsAnchored`, `AnsweredIsSeen`),
and what took effect is reserved (`DoneIsReserved`).

`GovernanceLedgerProofs`: `RecordsAreNeverLost` (`LedgerOnlyExtends`),
`ActionsApplyOnce` (`NoActionTwice`), `ActionsStandOnTheirHead`
(`DecidedOnHead`), `ReplayCanBeRepaired` (`RepairIsPossible`),
`FailuresAreHonest` (`FailureIsHonest`), `MixedPairsCommitNothing`
(`MixedPairNotAdmitted`), `AcceptedIsRead` (`AcceptedIsRecoverable`); 376 967 states. The four files stand for one ledger
(`Durable`): `Layout` lists the combinations a replacement and its repair pass
through, and each step leaves `Durable` or puts `op.want`, which extends it, in
its place. The content of the ledger (`LedgerOK`) is then an invariant of
batches, by induction over their length; the lines of the action replay WAL
bind the strict origins of the ledger one to one (`LinesKnown`). The assumption
`StartsAssumption` says where behaviours start: with a ledger that has no strict
origin and can be read, and an empty action replay WAL.

`AcceptedIsRead` compares two pieces of code that were written apart. A handler
decides on *projections* of the ledger (`StateVersion`, `AdmittedEvidence`, the
open request and offers, found by looking back through the records); the recovery
is one pass over the records that decides on what it remembers. The relation
`Projects(L, st)` says that what the pass remembers after `L` is what the
projections of `L` say, part by part (identity, readiness, features, work,
offers); it holds of the empty ledger and is kept by every record, and under it
the append rules imply the recovery's rule for the same event, one lemma per kind
of event, the wire schema included. Records of a batch are typed as their structs
are (`Typed`) and, where the append side checks no state version (objective,
evidence), carry that of the ledger they were decided on (`Proper`). `Legible`
carries this through the steps of a handler: what the four files stand for and what the
handler wants to put there are readable.

`BackupRestoreProofs`: `SuccessesAreCurrent` (`SuccessIsCurrent`),
`AnchoredStaysVisible` (`AnchoredIsVisible`), `RestoreFailsClosed`
(`FailsClosed`), `InterruptedCanResume` (`InterruptedIsResumable`); 208 802
states. The exclusive lease belongs to whoever closed the boundary and excludes
everybody else; the stages after `RetainAuthority` and the backup's
`LockToBackup` have the anchor's lock; the archive never changes once there is
one; a restore has a journal only after the loss, with an anchor that does not
vouch for more than was there at the loss (`RestoreLost`, `JournalLost`); a
document other than the journal means that the destination's name is taken, by
the tree or by what isolated it (`PapersLate`), and staging exists only under a
journal (`StagedLate`).

`ClaimStoreProofs`: `WalReplaysToTable` (`ReplayMatchesTable`); 1 305 941 states.
The invariant relates the files to the sum of all records without any
assumption about the directory lock, so it holds although two processes can
believe that they hold it (`claims_bothwin`). Cutting a torn end off changes
nothing that is read, a whole record is the last one read, a torn one is not read, and one
record more is one `ApplyRecord` more. `RequestsAssumption` says that there are
finitely many ids, that a ttl is unsigned (`claim_engine.rs:141`) and that a path
is a sequence of segments; the value for "no owner" is no process.

The other properties of the claims do rest on the lock, and say so: they are about
histories in which no reclaim has yet taken the lock file of a process that runs.
The history bit `spent.usurped`, which no step reads, records that one has; the
properties, in the run and in the theorems, have the condition `~spent.usurped`.
Under it `ClaimsAreEffective` (`ClaimIsEffective`), `OwnersAreOne`
(`OneLiveOwner`), `AuthorityStays` (`AuthorityIsNeverStolen`) and, if no two
claims share a scope id (`ScopesDistinct`), `HandoffsAreEvidenced`
(`HandoffIsEvidenced`), for any number of processes, deaths and reclaims of dead
locks. The argument:
whoever works has the lock file (`Held`), so what a process decided when it read the
claims is still what it would decide when it appends (`Pending`), so claims that
stand in each other's way do not overlap (`Disjoint`). For the write gate the two
tests of a path, claim against claim and claim against target, have to agree: a
path that covers a target overlaps every other path that covers it, after the `.`
and `..` segments are resolved. The artifact of a handoff is written before the record
(`Evidence`).

`ReclaimsAreTrue` says when the condition always holds (`Orderly`): nobody dies, or
there are at most two processes. A lock is reclaimed only when its owner looks
dead; with two processes whoever reclaims is then alone (`Alone`). With three, two
can inspect the same dead lock, the first reclaims it and takes it, and the
second removes the file of the first: what `claims_bothwin` shows, with
`OneLiveOwner` violated. Together the theorems say that this race is the only way
to two owners.

`EffectWalProofs`: `TargetsAreRestorable` (`RollbackIsExact`),
`OutcomesAreHonest` (the action property `HonestOutcome`),
`KeysAreConsumedForCommits` (`NoAmbiguousSuccess`); 1 849 610 states. The targets of a
transaction before its position are as it writes them, the others as it found
them (`Placed`, `Written`); a rollback still has a restore for each target it has
not restored, unless a step of it failed (`Undoing`), so `RolledBack` can be
believed; recovery restores whatever it finds (`Recovering`). The content of an
execution that has logged nothing is nowhere: not in a file, not in a saved
original, not in a before-image of the log (`Fresh`), which is why `Blocked` is
true also after other transactions were recovered. There is no rollback without a
failing write (`Faultless`). Commit records, pending and consumed keys
belong to acknowledged executions (`Committed`); this and the third theorem are
under `UniqueIds`, executions have ids of their own: prepared executions derive
theirs from their request, ids given on the command line may repeat.

`EffectsAreAllOrNothing` (`QuietIsCommitted`) and `RecoveryIsSafe`
(`RecoveryKeepsCommitted`) are about logs and recoveries of any number and length.
Their invariant is `QInv`, checked with TLC with four crashes (459 820
states). Its centre is `Sound`: at most one transaction is open in the records that can
be read, its before-images save committed content, and every file that is not as
committed has such an image; so a recovery, which restores the images
of open transactions, brings back what is committed and touches nothing else. What a
crash leaves at the end of the log is the difficulty. A record without its newline
may be lost by the next append or repair, so nothing may depend on it yet
(`TailSafe`): a file is not written before its image has its newline, and a
lost Begin has no effect. A transaction starts only where nothing is open
(`OnTop`, `Settled`), a recovery has a restore left for every image it has not
restored and closes the transaction last (`Restored`), and after an activation
nothing is open (`Activating`). All this is said of logs that can be read.

The theorems need `UniqueIds` and `OneHost`: at most one process is a host that
commits. Only an activation recovers, so with two hosts one commits over the
transaction that the other left open when it died, and the next activation
undoes that transaction over the committed content: with two hosts TLC finds
`QuietIsCommitted` violated.

Each of these modules also proves its type invariant (`TypeCorrect`).

Replay and recovery are folds over logs of any length. The induction theorems of
the library take an operator as parameter and cannot be instantiated here;
induction in the form that takes a *set* of numbers can be derived from
well-foundedness (`NatSetInduction`), and the lemmas about `FoldLeft`,
`FlattenSeq`, `Only` and the batches are proved with it.

Every invariant and every action property of the passing runs is stated by a
theorem. Only model-checked:

- liveness (`QuiescenceDrains`, `OperationsReturn`, `CallsReturn`,
  `EveryCommitCompletes`, `CommandsReturn`, `ExpiredIsReconciled`,
  `EveryCallReturns`), which is out of the prover's reach;
- the two violations, which are counterexamples: `OneLiveOwner` without the
  hypothesis about the lock, and `RecoveryNeverUndoes`, which is
  `RecoveryKeepsCommitted` without its condition on failing appends.

## Not modelled

- Boundary: several state roots in one process and renamed roots
  (`has_active_path_conflict`, `RootIdentityChanged`), guards that move to
  other threads, wrap-around of the registry id, a poisoned mutex.
- Event log: policy contents, replaced roots and hard links (outside the
  code's cooperative model), reads that fail, `NoSync`. The memory commands
  open the log under a root of their own, which the quiescence of the state
  root does not stop.
- Effect WAL: contract validation (an execution may be blocked), writers that
  take no lock, replaced directories, the metadata index, split-root
  promotion, `NoSync`, the API variants without a lock, bytes within a line
  (a tail torn inside a UTF-8 character).
- Replay: signatures, grants and expiry of a call (the late admission may say
  no), tampering with the anchor, several deployments.
- Claims: principals beside agents, `--from-cache`, `NoSync`, tampering with a
  checkpoint generation, a creator of the lock file that is alive and spends a
  minute before it signs it (`Tick` excludes it).
- Governance: policy evaluation, readiness and guidance (a free choice between
  an append and a refusal), shapes and digests of events, the project's
  snapshot (constant here), several coordination requests or episodes at once,
  promotion, a rename undone by a power loss after its directory was not
  synced, the size limit in bytes.
- Backup and restore: the archive's format, member classes and digests,
  registries, signatures and trust, the memory commands' own root, which a
  backup does not quiesce and covers by walking it twice, publication on
  Windows, tampering with files, several projects or archives, the command
  line around them, `project_reinitialize.rs` and `product_lifecycle.rs`.
- The other components of the inventory: see the plan; and those that are pure
  I/O, data types, cryptography or presentation, which have no protocol.

The models cover the parts of the runtime whose correctness depends on order,
failure and concurrency. Most of the repository's lines are tests, contract
types, validation, command line presentation, policy evaluation and
cryptography, which these models abstract to a choice or leave out.

## Plan

1. *(done)* Producer boundary with abstract specification, invariants,
   refinement, proofs.
2. *(done)* Event log over the abstract boundary; effect WAL with prepared
   execution.
3. *(done)* Replay WAL, anchor and MCP hosts; claims; the workflow governance
   ledger with the action replay WAL.
4. *(done)* Backup and restore over `HostQuiescence`, with the anchor.
5. Crash-atomic replacement as a refinement of an atomic write; reinitialize; the
   memory commands' own root in a backup; the domain pack lifecycle in place of
   the generation number.
6. *(done)* Proofs: every safety property of the passing runs, under the
   restrictions stated with them (one host that commits, a lock that is not taken
   from a live process).
