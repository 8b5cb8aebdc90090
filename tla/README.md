# ProtoBot: a verification project

TLA+ models of ProtoBot's core, TLC configurations that check them on small
instances, and TLAPS proofs for every instance. Paths are relative to the
repository root, `src/`.

## 1. The system

ProtoBot is a Go monorepo of services that turn a reviewed specification change
into built and merged code. Agents and humans never change shared state
directly: they call a service under a *Gate* context that fixes their role.

| Component | State it keeps | Operations | Hard behaviour |
|---|---|---|---|
| Validation Rules (`wms/validation`) | none, a pure function | `Evaluate`: request × work item × context → verdict | the order of the checks, fences, approvals |
| Work items (`wms/memory`) | work items, leases, fencing counter, idempotency results, materialization reservations, observed readiness | 15 lifecycle commands, 3 `Observe` hooks | concurrent callers with stale snapshots, expiring leases, late evidence, retries |
| Blocked work (`wms/memory/blocked_work.go`) | submissions, active submission and revision per item, Gate approvals | submit-resolution, acknowledge, resolve-block, Inspector confirmation | superseding, single use and expiry of approvals |
| Request backlog (`wms/memory/requests.go`) | requests, semantic index, change-set and item links, priorities | create, refine, update-priority, two links, queries | de-duplication, revision checks, content-bound approvals |
| GitHub adapter (`wms/github`) | GitHub issues, in-process indexes | the same API over issues | restart, lost responses, two writes per operation, two processes |
| EARS manager (`ears-manager`) | governed files in a Git checkout, change-set branches | change-set and requirement commands | check-then-write, rollback, crash, identifier allocation |
| Source control manager (`source-control-manager`) | Git repository, pull requests, job-site sessions | commit, refresh, publish, run, cancel, close | unknown remote outcomes, processes that outlive a lock |
| Drafting-table guard (`drafting-table`) | none | decides whether a shell command may run | none: a pure analysis |

The parts meet in the WMS: the Drafting Table files requests and resolutions,
the Materializer turns approved change sets into work items, Job Sites claim and
build them, the source control manager merges, and the reconciler reports what
really happened in Git. `WmsMemory` is the reference adapter for all of them: the
GitHub adapter runs the same Validation Rules and the same conformance suite.

What makes each component correct:

* Work items: one executor at a time, whose fence dies with its attempt; no
  command on a stale version; nothing merged that was not inspected and
  tested in this cycle; completion bound to the tested candidate; dependencies
  first; terminal items frozen; retries harmless.
* Blocked work: only an unexpired human decision about the current version
  unblocks an item, and one decision authorizes one mutation.
* Requests: no two equivalent requests, no refinement other than the approved
  content.
* GitHub adapter: what the in-memory adapter promises, across a restart.
* EARS manager: all files of a transaction or none, and no lost update.
* Source control manager: publishing twice is publishing once; a session never
  exceeds its limits and leaves no process behind.

`PROJECT.json` lists every component with its status, and under `hazards` the
places in the code where these are hard to test.

## 2. Modules

| Module | Models | Contents |
|---|---|---|
| `ValidationRules` | `wms/validation` | the vocabulary, the transition table, every rule, and `Evaluate` |
| `WmsMemory` | `wms/memory/{memory,lifecycle,blocked_work,types}.go` | the store, one action per command, hook and Gate decision, the properties |
| `WorkItemContract` | | the abstract specification: what any WMS promises about a work item |
| `WmsRefinement` | | the mapping under which `WmsMemory` implements it |
| `MCWmsMemory`, `MCWorkItems` | | callers, observations and grants; four workloads in one run |
| `WmsMemoryProofs` | | type correctness; the inductive invariants of the lifecycle, of keys, submissions and approvals, and of retries, with their consequences; evidence, completion and the refinement of `WorkItemContract` |
| `RequestBacklog`, `MCRequestBacklog` | `wms/memory/requests.go` | requests, their index and links, one action per operation, the properties |
| `RequestBacklogProofs` | | the backlog's inductive invariant and its consequences |
| `GithubAdapter`, `MCGithubAdapter` | `wms/github` | issues, the indexes of a process, an unreliable network, restart |
| `GithubAdapterProofs` | | what a call can do to the issues, single use of an approval, the answers, retries |
| `FileTransaction`, `MCFileTransaction` | `ears-manager/internal/cli/state.go`, `specvalidation/{integrity,loader}.go` | a checkout, commands that load and replace its files, faults |
| `FileTransactionProofs` | | the inductive invariant of a transaction, step by step |
| `ChangeSet`, `MCChangeSet` | `ears-manager/internal/cli/{changeset,branch,git,revision}.go` | change sets in two clones of one remote |
| `ChangeSetProofs` | | the history of bases and working trees, the rollback of a create, why a number is approved once |
| `GitClone` | `scm/{scm,fileset}.go` | commits, trees, merges and the file set of a change set, as pure operators |
| `SourceControl`, `MCSourceControl` | `source-control-manager/internal/scm` | the seven operations, one step per git or host command |
| `SourceControlProofs` | | what every step keeps of the commits, the pull requests and the running call |
| `ProjectionPolicy` | `jobsite/policy.go` | the class of a path, what a role may see and patch |
| `LocalSession`, `MCLocalSession` | `jobsite/local.go` | a sandbox session with concurrent calls, limits, cancel, close and deadline |
| `LocalSessionProofs` | | limits, the end of a session, what a collected patch says |
| `PatchIntegration`, `MCPatchIntegration` | `jobsite/{export,patch}.go` | export of the repositories, concurrent `ApplyPatch`, rollback |
| `PatchIntegrationProofs` | | why an unconditional rollback takes nothing accepted away |

`ValidationRules` is shared: `WmsMemory` and `GithubAdapter` apply the same `Evaluate`, as the
two adapters do. `ProjectionPolicy` is shared by the session and the patches: the
writes a session records are the operations that a patch is made of.
`SourceControl` sees `ears-manager` through the acts `EarsPut`, `EarsUpdateBase` and
`EarsProjectInit`, and `ChangeSet` sees the source control manager through `CommitAll`,
`Fetch` and `Publish`: each models in detail what the other takes as the environment.

### ValidationRules

`Evaluate` is translated check by check: `v1Transitions` is the transition table,
`validateMutationPreconditions` keeps the order of the code (approval binding,
terminal state, duplicate claim, state, version, fence), and `evaluateTransition`
has one disjunct per operation. A verdict is `"allowed"`, `"omitted"` or the code
of the first check that fails; messages and details are left out.

Data is reduced to what the rules tell apart. A nil work item is a record in state
`"initial"` at version 0. Readiness has three outcomes. Dependencies are the set
`deps` and the subset `done` stored as completed. The three inspection flags are
always written and tested together and are one flag. A (status, git mutation) pair
of reconciliation evidence is one name. A source fingerprint is the source less
what the code leaves out of the digest; a request fingerprint is the normalized
request. Policy versions, the approving human's name and allowed references of
the Gate context are dropped: they are compared for equality with a value fixed by
the configuration.

### WmsMemory

| Variable | Field of `Memory` |
|---|---|
| `workItems`, `nextFencingToken` | `workItems`, `nextFencingToken` |
| `idempotency`, `materializations` | `idempotency`, `materializations` |
| `observedReadiness` | `observedReadiness` |
| `approvals`, `submissions`, `activeSubmissions`, `revisions`, `nextSubmission` | `approvals`, `submissions`, `activeSubmissions`, `resolutionRevisions`, `nextResolutionSubmissionID` |
| `acknowledgements` | the acknowledgement submissions, counted by approval |
| `now` | the configured clock |
| `consumed`, `claimedAt`, `answered`, `rec.seen` | history, read by properties only |

Every exported method holds the mutex for its whole body, so a call is one atomic
step. A command commits through `Commit`, which stores the item, counts the
fencing token and remembers the result, as `applyLifecycleRequest` does. A rejected
call changes nothing but the idempotency table. The key `None` stands for a key no
caller uses again, so calls under it need not be remembered, and a refused one is no step (`Matters`).

Callers are the environment: `Next` fills a call in with a contract version at most
`MaxLag` old, any fencing token ever issued, and the version its merge envelope
names; `Calls` says who may send what. Observations and human grants are steps of
their own and interleave with everything.

Left out of `WmsMemory`: `lifecycle.preflight` and the queries, which change nothing;
audit events; `SeedWorkItem` and `SeedChangeSet`, which install state before the first
call. A materialization always carries its source.

### WorkItemContract and WmsRefinement

The contract knows only phases, numbered attempts, whether the running attempt was
inspected, and the merge target. Seven actions: an item appears, an attempt begins, is
inspected, merges, is freed, completes, is abandoned. `WmsRefinement` maps waiting, ready
and blocked to one open phase, building and inspecting to one attempt, and the fencing
token of the lease to the attempt's number. The refinement is more than the lifecycle's
invariants together: it forbids any *other* effect on those fields, for instance a
recovery that keeps the inspection, a second target, or a command that leaves an
attempt number behind on a finished item.

### RequestBacklog

A request is its topic (what the semantic digest is computed from), its remaining
content, priority, revision and links; `index` is the map from topic to request that
detects duplicates. The five mutations `create`, `refine`, `update-priority`,
`link-change-set` and `link-work-item` are actions. Each keeps the order of the
code: role, idempotency, payload, revision, approval, duplicate. A refinement leaves out
any field it does not change; its approval binds the content that *results*, so the
model computes the result from the record as the code does. Change sets and work items
carry a copy of the priority, which the links and `update-priority` write.

In the code the approvals and the idempotency table are the ones of `WmsMemory`. The two
models are separate because a fingerprint contains the operation and an approval
names its action: no request operation can use what a lifecycle command recorded,
nor the reverse.

### FileTransaction

`files` is the checkout, with `Config` for `.protobot/project.yaml`; `dirs` the existing
directories; `head` the commit; `job` the local variables of each command. Commands are
processes of their own without a lock, so every read or replacement is a step:

| Action | Code |
|---|---|
| `Start`, `Load`, `currentCommit`, `observeSnapshot` | `loadState`: configuration, stores, `HEAD`, then the expectations, in this order |
| `validateCandidate` | the record lookups of the command and `validateCandidate`, which digests the stores *on disk* |
| `addConfigWrite` | new digests from the files on disk with the replacements |
| `applyStateTransaction`, `Check` | `HEAD` and each file compared with what was observed |
| `Write`, `WriteFails`, `PostValidate` | `replaceFile` or `Remove` in path order, and `persistedValidation` |
| `Undo`, `RemoveDirs` | `rollbackFiles`, last file first |
| `Crash`, `Checkout`, `Edit` | the environment |

A digest is injective, so `Config` holds the store its digests were computed from.
Loading the stores, and each digest, is one step: within it only the order of single
reads is lost. Left out: the transaction of `project init`, artifacts and the projection,
schema errors, file modes, I/O errors while a file is only inspected.

`Next` is a `Step` of the code or the environment together with `Watch`, which keeps two
history variables. `late` holds, for each process that applies its transaction, the files that
others have changed since it began; a file that passes its check leaves it. So of the files a
process is to replace, `late` holds those that changed in the window between the check of all
files (`state.go:701`) and the replacements (`state.go:717`), which no lock closes. The properties
promise what the checks achieve for every other file, whoever else writes; the run `overwrite`
shows what happens in the window. `alone` holds the processes during whose present command nobody
else has changed the checkout. What relates what a command *loaded* to what it
replaces is stated for these, since the code compares the files with what it *observed*
after loading: see "Observations".

### GithubAdapter

| Variable | Code |
|---|---|
| `requestIssues`, `workItemIssues` | the documents in the bodies of the issues of the two labels, in issue order |
| `idx` | the fields of `Adapter`: idempotency map, pending creations, semantic index, materializations, change sets, approvals, the two counters, the hydration flag |
| `calls`, `reply`, `effects` | the callers' calls, the last answer, and how often each call took durable effect (history) |

A call runs to its end under the coordinator's lock, so a call is one step, and what it
meets on the network is part of the step: `Networks` says for each read whether it
succeeds and for each write whether it takes effect and whether the answer arrives.
`CreateRequest`, `MutateRequest` (refine, update-priority, both links), `Materialize` and
`Claim` keep the order of the code: replay from the idempotency map, hydration, replay
from the durable record, checks, the first write, the second write, what is
remembered. `Restart` throws `idx` away; the queries, which hydrate the indexes,
and the seeding of approvals and change sets by the drafting table are actions. A
process that dies between the two writes of a call leaves what a lost first write
followed by a restart leaves. There is one adapter process, as the deployment
`InProcessCoordinator` is documented for.

### LocalSession

Goroutines call one session. The mutex covers each operation, but `Git`, `sleep`, `burn`
and `network` release it while they wait. An operation that never waits is one action;
one that waits is split where the code unlocks:

| Action | Code (`local.go`) |
|---|---|
| `Open`, `DeadlineReached`, `ContextDone`, `CallerCancels` | opening a session, its deadline, its context and the caller's |
| `ReadPath`, `WritePath`, `WriteRefused`, `WriteTorn`, `ExecuteDenied` | operations under the mutex, with a write that fails half-way |
| `Git`, `sleepLocked`, `burnLocked`, `networkLocked` | start, with the guards and the process limit |
| `ProcessExits`, `OutputExceeds` | the child process |
| `SelectDone`, `SelectKill` | the `select` that waits for the process, the memory limit, the caller or the session |
| `Finish` | the mutex taken again, the second guard, CPU accounting, the audit event |
| `Cancel`, `Close` and their `Returns` | kill all tracked processes, wait, record the end |

The audit chain is its newest event and whether an end is on it; durations are units
of the CPU limit; git arguments are a subcommand, flags and classified operands.

### PatchIntegration

`Export` makes Integration, the two projections and the audit record step by step, and
takes them back if a step fails; `ExporterDies` leaves them. `ApplyPatch` may run
in several goroutines: `ReadHead`, `ListHead`, `ValidateAndBuild`, `MoveBranch` (git's
compare-and-swap), `CheckOut`, `uniqueAuditName`, `writeAuditExcl`, `Accept`, and on failure
the rollback steps, each of which may fail in turn. Commit dates and authors are
fixed in the code, so a commit is the sequence of bundles applied to the export.

### GitClone and SourceControl

A tree has one path for each way the code treats a path: artifact, registry with
its digest, manifest, projection file, anything else. `refs`, `track`, `head`, `wt`, `index`,
`merging` (the commit that `MERGE_HEAD` names) and `unmerged` (the paths with unmerged entries) are the
clone, `remote` and `pulls` the host, `call` the local variables of the running call. The server runs one call at a time; a call is a chain of steps, one
per git, `gh` or `ears-manager` command, and the acts of others (`Others`) interleave:

| Operation | Steps |
|---|---|
| commit | `StartCommit`, `deriveFileSet`, `RecordContent`, `digestCheck`, `stageContent`, `writeCommit` |
| publish | `StartPublish`, `compareWithHead`, `Fetch`, `findPullRequest`, `checkBase`, `renderBody`, `push`, `requestPullRequest` |
| refresh | `StartRefresh`, `checkClean`, `Fetch`, `readHeads`, `merge`, then `mergedAsChecked`, or `mergeFailure` with `failedMergeHead` or `abortMerge` and `abortedHead` |
| repo_state | `StartRepoState`, `Fetch`, `fastForwardDefault`, `fastForward` |
| branch_init | `StartBranchInit`, `Fetch`, `branchInit`, `fastForward`, `cutBranch` |
| branch_resume | `StartBranchResume`, `branchResume` |
| approved_merge | `StartApprovedMerge`, `Fetch`, `approvedMerge`, `FindMerged` |

A merge that conflicts stands in the working tree, with its marks (`Marked`), until
`git merge --abort`; the user may edit, stage, merge (`UserMerges`) or conclude the merge in
between, and may have left a merge unfinished. `abortMerge` does what git does: unmerged and staged
paths go back to `HEAD`, an edit that is not staged stays, and a path with both makes it fail.

A fault of the remote or the host is before or after its effect; a fault of a
local command is before it. A failed request to the host is any of `FailedRequests`: applied or not,
and read as `Open` or not (`host/host.go:45`), in every combination. `report` holds the result and, as history, what the call
really changed.

### ChangeSet

Two processes of `ears-manager` in one clone or in two. `planChangeSetBranch` reads the
numbers in use and chooses one, `cutChangeSetBranch` makes and checks out the branch,
`reload` reads the files again, `applyStateTransaction` writes them (one step here; its
inside is `FileTransaction`), `restoreOriginalBranch` undoes a failed create. `UpdateText`,
`UpdateBase` and `Renumber` keep the order of refusals in the code.
`proposedBaseFreshness` is what `check` reports and `publishBase` what publish refuses. Users
commit, fetch, switch, merge, rename, publish and land.

## 3. Runs

Eight runs pass, four find a violation. A run asks one component everything: where a
component has several independent questions, the initial state chooses a *workload*
(a set of calls, or of acts of the environment, with bounds of its own), so each
question gets callers that make it interesting without the product of all of them.

Deadlock is not checked: every run is bounded, and a system at all its bounds has no
step left. In `LocalSession`, which needs no bound, a session that is closed and whose
callers are all idle has nothing left to do.

| Run | Properties | Setting and bounds |
|---|---|---|
| `work_items` | `ExecutionIsFenced`, `EveryVersionConsumedOnce`, `EvidenceIsFresh`, `DependenciesCompleted`, `OneItemPerKey`, `PendingIsActive`, `ApprovalAuthorizesOnce`, `RetryReturnsOriginal`, `FreshFencePerAttempt`, `CompletionIsBound`, `ImplementsContract`, `UnblockedByHuman` | four workloads: *lifecycle*, 1 item, 2 Job Sites, a reconciler, the Materializer and a human; 8 commands, clock 0..1, lease of one tick, snapshots one version old, the materialization sent again at any time; *dependencies*, 2 items that may depend on each other under 2 keys, with or without a contracted target, abandoned while blocked; *blocked*, 1 item that blocks twice, with 2 approvals and 3 submissions; *retries*, 1 idempotency key used by any call, also by calls that leave out their change set |
| `backlog` | `IndexIsExact`, `RevisionConsumedOnce`, `ApprovalRefinesOnce`, `PrioritySnapshotAgrees`, `RefinedAsApproved` | two workloads: 2 requests refined between 2 topics with 2 approvals that expire; priorities, links and records with a priority of their own |
| `github` | `StoreIsSound`, `ApprovalAppliedOnce`, `RetryIsRecognized`, `AppliedMeansAllWritten` | seven workloads of 3 or 4 calls, each sent any number of times, every single fault in a call (two for a create), any number of restarts |
| `transactions` | `TypeOK`, `ReplacesWhatItChecked`, `AllOrNothing`, `TornIsRefused` | three workloads: *together*, 2 commands of 3 kinds around each other and around a checkout, replacements that fail; *disturbed*, 1 process, 2 commands of 6 kinds around checkouts and hand edits one way and back, replacements and reloads that fail; *failures*, 1 process, 3 commands of 6 kinds, every fault |
| `change_sets` | `BaseIsSound`, `NumberApprovedOnce`, `FailedCreateIsUndone` | five stories: one or two clones, 1 or 2 commands, 2 to 6 acts of users, numbers up to 3 |
| `publish` | `PublishedOnce`, `ResultIsHonest`, `ReviewedIsDrafted`, `NothingIsLost` | 21 kinds of clone, 3 calls of any operation, 1 fault, 3 acts of others between any two commands |
| `session` | `TrackedWithinLimits`, `EndIsFinal`, `PatchMatchesBase`, `CallsReturn`, `ExpiryStopsEverything` | 2 or 3 callers; 2 processes, 1 new file, 3 bytes, 1 unit of CPU |
| `patches` | `RepositoryIsSound`, `AcceptedStays`, `OnlyOwnPathsChange` | 3 policy documents, 2 concurrent `ApplyPatch` calls, 4 bundles, 2 commits, every command may fail |
| `merge_freed`, `outage`, `renumber`, `overwrite` | one each | a violation, see below |

Some properties are conjunctions of named parts about one subject, each with a comment
of its own: `StoreIsSound`, `TrackedWithinLimits`, `EndIsFinal`, `RepositoryIsSound`,
`PublishedOnce`, `ReviewedIsDrafted`, `NothingIsLost`, `BaseIsSound`, `FailedCreateIsUndone`.

### Why the bounds are enough

*work_items*: in *lifecycle*, eight commands are a complete lifecycle with a conflict and a second
attempt: materialize, claim, tests-pass, begin-merge, merge-conflict, tests-pass,
begin-merge, record-merge. A lease of one tick in a clock of one tick expires in the
middle of every phase. Snapshots one version old are the shortest that are stale,
and all longer ones fail in the same comparison. In *blocked*, three submissions let one
be superseded, one consumed and one follow. In *retries*, one idempotency key is enough,
since another call under it is a conflict and calls under other keys are the fresh ones. *backlog*: two topics let a request move away and back while another takes
its place. *transactions*: nothing is excluded from the interleavings of two commands. The commands cover every shape of transaction, with the
configuration in the middle of the path order; three commands are one that dies, one
that is refused, and one more. Hand edits lead one way and back, so that a file also
changes and changes back between the reads of a command; they surround one process, for which
a second process is one more writer that follows no pattern.

*github*: the first fault ends a call, so one fault per call is all combinations, but
for a create whose answer was lost and that then cannot be looked up either. Two
calls compete for each key, item, approval and revision. *change_sets*: two commands
are the fewest that collide, and the longest story (commit, fetch, merge keeping one
side, renumber, commit, publish, land) is in it. *publish*: one fault in three calls is
the first attempt that fails, its repetition, and one more; the stories name the acts
of others each is about, and the other kinds of clone are those the code refuses.
*session*: limits of one and two are reached by two callers; a third asks for a
process when both slots are taken. *patches*: two appliers race for the branch, and
the four bundles fit, depend on an earlier one, contain one forbidden operation, or
collide by case.

The two Job Sites of *lifecycle* and the approvals are symmetric in `work_items`, approvals in
`backlog`, appliers in `patches`: they are only compared for equality. Symmetry is not used where liveness is
checked.

Faults are divided among the workloads of `transactions`: a failed reload is in the second and third,
a failed rollback and a crash are in the third. The proofs make no such division: they are about
`Spec`, in which every fault meets every interleaving.

### Liveness and fairness

`LocalSession` is where the code itself schedules something: a deadline, goroutines that
wait, processes that are killed. `Fairness` assumes

* that time passes and the session's context notices its deadline
  (`context.WithDeadline`),
* that a process that was sent SIGKILL exits,
* that a goroutine whose `select` has a ready cause proceeds (the Go scheduler),
* that a goroutine waiting for the mutex gets it if it is free again and again: strong
  fairness of `Finish`, which `sync.Mutex` provides by its starvation mode.

It assumes nothing about callers, and not that a process ever exits by itself. Under
it every call returns (`CallsReturn`), also one whose process would run for ever, and
after the context is done no process is left (`ExpiryStopsEverything`).

No liveness is claimed for the WMS: nothing in the adapters schedules anything, no
part of the repository calls the reconciliation operations on a timer, so whether an
item whose Job Site died is recovered depends on callers outside it.

### The violations

* `merge_freed`. `begin-merge` does not clear reconciliation evidence (`lifecycle.go:60`).
  An observation made while the item was still building stays and later answers
  whether the merge was applied. `validation-rules.md:719` wants the reconciler to prove
  that a *merging* item was not mutated. Claim and every exit from merging do clear
  it, which `EvidenceIsFresh` checks.
* `outage`. `replayLifecycleRequest` (`wms/github/lifecycle.go:243`) remembers every
  rejection of the materialization check under the caller's key, an outage included. The
  comment at `wms/github/requests.go:130` says that an outage must not be recorded, so that
  a retry can use the same key.
* `renumber`. `change-set renumber` takes any difference between the manifest in the working
  tree and the one on the default branch for a collision (`changeset.go:538`) and deletes
  the file at the old path. On a branch that has merged the approved manifest in,
  the deletion is committed, and landing the branch removes the approved manifest of
  the other change set. `ears-manager-cli.md:155` calls an approved manifest immutable.
* `overwrite`. `applyTransaction` compares all files (`state.go:701`) before it replaces the first
  (`state.go:717`) and compares none again. A file that Git, an editor or another command changes
  in between is replaced unseen, where `drafting-table-ux.md:905` says "without silent
  overwrite".

Every property of a passing run has a mutant in `PROJECT.json`: a plausible bug in a
mapped definition under which TLC finds it violated. The mutated definitions stand
beside the originals, marked `Mutation:`.

### Observations

Behaviour met while modelling that is narrower than a property, or that a
property excludes by name. None of it is excluded silently.

*In-memory WMS.* The fingerprint of a `resolve-block` call that leaves out its change set is taken
after the change set was looked up from the submission (`memory.go:389`). If the call was rejected
before the submission existed, the same call sent again later has another fingerprint and is
answered `IDEMPOTENCY_CONFLICT`, where `validation-rules.md:361` and `:385` want the first answer.
The retry workload contains these calls, and `RetryReturnsOriginal` allows them this conflict and
nothing else: any other answer but the first violates it, and so does the conflict for a call that names
its change set, or whose submission was there already (`Reread`).

*File transactions.* Two commands may both pass their checks, and one replaces what the other
wrote (run `overwrite`); each of the two may then report `applied` or roll back over the other,
and `AllOrNothing` leaves the files in `late` to whoever changed them. `addConfigWrite` (`state.go:611`)
reads the stores again after they were validated and compares names only, so a hand
edit made in between is covered by the new digest; ADR 0003
(`0003-ears-manager-storage-layout.md:67`) wants a mismatch rejected. The snapshot a command
computes its replacements from is never compared with anything: expectations are
observed after the load (`state.go:162`). A file that somebody changed before the load and
changed back before the observation is as expected, and the command writes what it
computed from the intermediate content. The workload *disturbed* reaches this
sequence; `ReplacesWhatItChecked` and `TornIsRefused` speak of the load only for processes in
`alone`.

*GitHub adapter.* The fence counter is not rebuilt: a new process issues `fence-1` again
(`adapter.go:218`), so tokens are unique within a process only.
When a create key was used for two different calls, a new process remembers the
conflict of the second and then refuses the first, which `RetryIsRecognized` leaves
out. It also counts a binding as a call's own only if the rules would let the call make
it: another call may have bound the same item, and one the rules refuse stays refused. A refinement whose answer was lost leaves the semantic index of the process
stale until it restarts. `link-change-set` gives the request the
priority of the change set and writes the request only (`requests.go:499`): a work item that the request
is linked to already keeps its old priority, where `user-interaction-flow.md:884` says that the
priority is copied to the work item. `AppliedMeansAllWritten` promises of that call what it
does, the request with the priority of the set; of every other call it promises the item too. Two adapter processes are excluded by the
documented deployment.

*Sessions.* `Git` returns the error of the output copy (`local.go:448`) before it looks at the
memory limit, so that limit may end a call without its audit event. A write that fails
half-way leaves the file, and its retry is recorded as an update; `PatchMatchesBase`
names this case. A limit event may follow the cleanup event: it is not work.

*Patches.* The tree is listed from `HEAD` after the head was read (`patch.go:143`); a branch
that moves and is rolled back in between is not noticed, although the swap itself is
safe. A source tree with paths that differ by case only accepts no patch at all. A
process that dies between the swap and the audit leaves a commit without a record. A rollback
ignores the failure to remove its accepted record (`patch.go:199`): such a record of a commit that
nobody was given stays, and `RecordsAgree` leaves it out by name (`strays`).

*Source control manager.* `refresh` merges into whatever `HEAD` is when git runs
(`op_publish.go:392`); a user who switches branches meanwhile gets the merge on the other
branch. The body of a pull request is rendered from a working tree that may have
changed since it was compared. `push` sends the branch by name, as it stands then.
A merge that the user began meanwhile is aborted as if it were the SCM's own, with what is unmerged
or staged of it. Of the SCM's own merge, what the user wrote into a conflicting file before
`git merge --abort` (`op_publish.go:446`) is put back to `HEAD`, and the call answers `MERGE_CONFLICT`
with mutation none, where `source-control-manager.md:309` promises "no discard of a working-tree
edit". `EditsAreKept` names these paths (`Aborting`) and keeps every other edit.
A request to the host that was applied may be read as refused: `gh` succeeded but its last line
holds no pull-request number (`host/host.go:187`), or the connection was reset after the request
arrived. Then `publish` answers mutation none (or partial, after a push) although the pull request is
there (`op_publish.go:195`), where the comment at `op_publish.go:183` says that the host did not
change and `source-control-manager.md:1585` that every failure but the partial publish leaves the
host as it was. `ResultIsHonest` names this effect (`misread`) and admits no other; a repeated publish
finds the request, so `PublishedOnce` holds all the same.
`branch_resume` and the fast-forward may report `applied` when nothing had to change.

*Change sets.* Two creates in one clone may leave the manifest of one on the branch of
the other. More generally the commands rely on one process per clone (`OwnClones`), which
nothing in the code enforces: a second process may write files after a create found none
changed and before it cut its branch, and `git switch` carries them along. Then a commit
may hold a manifest whose base is not in its history, and a failed create that answers
mutation none may leave changed files on the original branch. An approved manifest can even be
replaced by the landing of a branch that has another number, where two processes share a clone,
and in clones of their own as a consequence of the `renumber` violation above; so
`NumberApprovedOnce` speaks of the number of the branch that lands. A create that fails before it cut its branch may delete a branch of the
same name that another process cut at the same base. Clones that do not fetch
allocate the same number for different slugs; `renumber` is the remedy, and the
branch has to be renamed by hand afterwards (`scm.go:247`). `update --base-commit` accepts a
base that is on no default branch.

## 4. Proofs

The theorems hold for every choice of the constants that satisfies the named
assumptions of the module: any items, requests, files, callers, calls and bounds. The
assumptions are about types (`NoneAssumption`, `ConstantsAssumption`, `BacklogAssumption`,
`GithubAssumption`, `FileAssumption`, `BoundAssumption`, `LimitsAssumption`,
`WorkloadAssumption`, `ChangeSetAssumption`) and about the
inputs: a sandbox's projection contains only what its role may see
(`ProjectionAssumption`), which the export guarantees. TLC evaluates each of them.

Each inductive invariant below was checked by TLC before it was proved. What it adds to
the property is what the code relies on without saying so.

**Work items.**

* `TypeCorrect` (`WmsMemoryProofs`). Typing alone is not inductive: an Inspector
  confirmation updates the revision of the item its submission names, so one needs
  that every submission that exists names an item (`SubmissionsNameItems`).
* `Fenced`, `ConsumedOnce`, `Inspection`, `Dependencies`, `FreshFence`, `Frozen`
  (`WmsMemoryProofs`) come from one inductive invariant, `LifecycleInv`: the types,
  the four state invariants, and `AbsentIsNew` (an item that does not exist is at version
  0). It is proved in two halves. `StepEffect` reduces the twenty-odd actions to four
  effects on the store: none, a command on an existing item, a materialization, an
  observation. Each effect is then shown to keep each conjunct. Dependencies need
  that a completed item stays completed, which the terminal check of
  the preconditions gives. The two action properties follow from
  the same effects under the invariant.
* `FreshEvidence` and `Completion` (`WmsMemoryProofs`, the last part). That no evidence is
  older than the claim it is used for needs `VersionsAreOrdered`: the version of the
  last claim is not above the item's, a merging item expects the merge of its own
  version, and what any other item once expected is of an older one. The first is what keeps an observation of the present version from
  being one of an earlier attempt.
* `Implements`: every behaviour of `WmsMemory` is one of `WorkItemContract`. Each of the
  four effects maps to one of the seven contract actions or to a stutter;
  `LifecycleInv` supplies what the mapping cannot see, that a token is only
  issued to an attempt that did not have one, and that a merging item is inspected.

**Blocked work, keys and retries** (`WmsMemoryProofs`).

* `KeysAreBound`: a materialization key belongs to one item and its dependencies,
  because the reservation and the item are written by the same step (`KeyInv`).
* `PendingActive`, `AuthorizesOnce`, `HumanUnblocks`. `PendingIsBound` is the missing
  part: the approval of a pending submission is one for resolving a block of that very
  item, so consuming it for one item cannot leave a pending submission of
  another behind.
* `RetriesAnswered`: `Spec => []RetryReturnsOriginal`, for calls with and without their change set. The
  invariant adds `AnswersRecorded`: every answer given under a key is in the table, once, with
  the normalized request it was computed from; `SubmissionKeepsChangeSet` is that no step gives an
  issued submission another change set. So an exact retry is normalized to the same request, unless its submission was issued in
  between, and then it meets the conflict that the property names (see "Observations").

**Request backlog** (`RequestBacklogProofs`).

* `BacklogTyped`, `Index`, `Revision`, `RefinesOnce` come from
  `BacklogInv`: the types; `NumberedSoFar`, that exactly the identifiers below the counter
  exist; `IndexIsExact`; `RevisionConsumedOnce`; and `RefinersConsumed`, that every approval
  a refinement used is consumed, without which the single use of an approval is not
  inductive. A refinement that moves a request is the step that needs them together:
  the new topic is free in the index, hence, the index being exact, no request has it.
* `RefinedApproved`: content changes only to what an unused, unexpired approval of that
  request bound, and that approval is consumed by the same step.
* `Snapshots`: the copies of a priority agree with the request. It needs `LinksRecorded`:
  a link a request has was recorded and leads to a record that exists; otherwise a
  record that appears later could disagree with a link made before it.

**GitHub adapter** (`GithubAdapterProofs`). The answer of a call is a composition of
network outcomes: each read and each write of it may fail, and a write may take effect without
an answer. `ExecuteOutcome` reduces every call, whatever it meets, to one of five effects
on the issues (none, a creation, a rewrite of a request, a binding, a claim), and
every property is shown of the effects.

* `StoreStaysSound`: `StoreInv` adds to `StoreIsSound` the types of a process's indexes. Two
  issues of one identity are excluded by what a call reads before it writes: the
  identifier of a creation is one no issue has, whether it is new or was reserved by
  an attempt whose answer was lost, and no issue has its key.
* `ApprovalOnce`: with `ApprovalRecorded`, that an approval some refinement used is
  recorded in the issue it refined. The process that consumed it may be gone, so the table
  of approvals cannot be what makes it single.
* `AnswersAreWritten`: of every answer `applied` to a change of priority or to either link, that
  every record the call writes is written. The work item after `link-change-set` is not
  among them, because that call does not write it.
* `RetriesAreRecognized`: `RetryInv` says that the record of a mutation stands next to the
  revision it wrote (`RecordsOK`), that what a process remembers of materializations stands
  for bindings in the issues (`CacheOK`), and that an unshared key remembers a refusal
  only of a call that is not written and cannot be written any more (`KeysOK`). The last is
  the heart: a refusal is remembered, so had the call's effect been durable, its retry
  would be refused for ever. It needs that no other call writes this call's record
  (`OthersWriteNoRecord`).

**Source control manager** (`SourceControlProofs`). No assumption on the constants is needed:
the theorems hold for any clones and any number of calls, faults and acts of others. A call
is a sequence of steps with anybody's acts in between, so `SourceInv` has to say what a call
may still rely on at each of its steps.

* `CloneInv` and `FileSetInv`: a commit is never changed, its parents are older, its ancestors
  contain theirs, and a commit of the server differs from its parent in the file set
  only. For the last one `CallInv` remembers, between staging and writing, that the staged
  artifact was a regular file, and that the path outside the file set was never chosen.
* `MergeInv`: a merge in progress names a commit, and only it leaves unmerged paths. It is
  what is true of the clone while a merge of `refresh` waits for its abort.
* `OnePublished`: `PullInv` says that there is at most one pull request, and `CallInv` that a publish
  that found none still finds none when it asks for one: only this server opens pull
  requests for its branch, and it runs one call at a time. Closing and merging keep a request
  where `Find`, which asks for every state, sees it. The step that makes a second one
  possible, a failed request that took effect, is the last of its call.
* `HonestResult`: what a call has changed so far shows in its local variables. Before its
  last effect it has changed nothing, but for a publish that has pushed (`pushed`) and a
  `branch_init` that has moved the default branch (`refs`), and these are what the
  answers `partial` and `unknown` are computed from; a `refresh` that has merged answers none no more.
  The request to the host is the one effect that the answer may miss, if it is read as
  refused: the theorem admits this one effect (`misread`) and no other.
* `DraftedAndReviewed`: `ApprovedInv` says that what `approved_merge` has answered is a merge
  commit that added the manifest and the merge commit of a pull request that is merged. A merged
  request never changes, and there is one at most, so there is one answer at most.
* `LosesNothing`: `Sound` is the same invariant as a step: no branch ref moves but to a
  descendant. The one unconditional assumption of a call, that the fast-forward target it checked is
  a descendant of the local default branch, is part of `CallInv` and is protected by the
  expected value of `update-ref`. Of the working tree it says that a step of a call replaces only files
  that are as `HEAD` has them, whatever was edited since the check; the exception is the
  abort of a merge, for the paths that are unmerged or staged (`AbortIsNarrow`).

**File transactions** (`FileTransactionProofs`). `TransactionInv` says of each process what it
has read (`Shaped`); how far its replacements or its rollback have come with each file outside
`late` (`Tracked`); and while it is in `alone`, that what it loaded is still what is there (`Fresh`) and
what it did to the directories (`Clean`). There is one lemma per action, and one (`Bystander`) for
what the actions of others leave of these facts: a change takes a file out of `Tracked` by putting it
in `late`, and a check that passes brings it back.

No lock or exclusive writer is assumed: the theorems hold for any number of commands, checkouts and
hand edits at any time.

* `ReplacesChecked` (`ReplacesWhatItChecked`): what a command replaces is what it observed, what it rolls
  back is what it wrote, but for a file that changed after its check.
* `AppliedOrNothing` (`AllOrNothing`): a result `applied` or none is true of all files but those. A file
  in `late` cannot be included: `NoSilentOverwrite`, the same without the exception, is refuted.
* `TransactionTypes` and `BuildsOnValid` (`TornIsRefused`).

**Sandbox sessions** (`LocalSessionProofs`). `SessionInv` has four parts.

* `TypeOK` ties the tracked processes to the calls in flight, and `Counted` ties them,
  the added files and the bytes to the accounts. They give `SessionWithinLimits`.
* `Ending`: whoever holds the mutex to kill has set the cancelled flag, and a session that
  has ended is cancelled. `SessionEnds` follows, because every call re-reads the flag
  before it starts anything and before it records its result.
* `Recorded`: while the session is open the projection is in the workspace, and every other
  file was left by a failed write or is recorded as created. `PatchesMatch` follows.

**Patches** (`PatchIntegrationProofs`). `AcceptedKept`, `OwnPaths`, `RepositorySound`. The
restoration of the branch looks at nothing (`RestoreBranch`), so that it never takes an
accepted commit away is a global fact: `BranchInv` says that at most one call stands between
its move of the branch and its end, that its commit is the head, that nobody was told of
it, and that all that anybody was told of is below it. It holds until a rollback fails
(`broken`), and so do the properties that speak of the repository; `RecordInv` relates
the audit records to the commits. `StaticInv` needs no such condition and gives `OwnPaths`.

**Change sets** (`ChangeSetProofs`), for any processes and slugs, any number of commands, failures
and acts of users. Each action is first reduced to what it does to one clone and to the
commits (`Steps`): a command ends, goes on, starts to write, writes, cuts its branch or
restores the original one; a clone commits or merges, fetches, switches, renames or publishes;
a pull request lands.

* `BaseIsAlwaysSound`. `TypeInv` says besides `TypeOK` that the ancestors of an ancestor are
  ancestors and that a manifest never names a base that does not exist yet. `OrderInv` says that
  what a clone has of the remote is in the history of the remote, and that the base of a planned cut
  is in the history of the clone's default branch. `HistInv`, under `OwnClones`, carries
  `BaseIsInHistory` through the places a manifest passes on its way into a commit: the
  working tree, which follows the branch that is checked out (`Follows`), and the write that a
  command has prepared, which stays in the history of the commit it has read. It needs that
  nothing is changed in a clone between the plan of a create and its write (`CleanCuts`).
* `FailedCreateIsAlwaysUndone`. The answer of a create that had made its branch comes from
  `restoreOriginalBranch` only (`RollbackAnswers`); the clean working tree is `CleanCuts` again.
  That no clone forgets a commit (`KnownStep`) is `StillAtBase` and `CutBases`: the
  branch that is deleted is still at a commit of the clone's default branch.
* `NumberIsApprovedOnce`: `Initialized => (Spec => NumberApprovedOnce)`, without `OwnClones`.
  `NumberInv` says that two unapproved branches, in clones or in open pull requests, have nothing
  in common but history of the default branch (`LocalApart`, `PullsApart`, `OpenApart`), and that an
  open pull request left the default branch at a commit where its number was free (`OpenLeft`); hence
  git merges it against that commit, and the approved manifest of that number wins or
  conflicts. Publish establishes `OpenLeft` from its base rule, because a manifest whose base is the
  very head of the default branch has a number that is free there (`FreeInv`). That in turn rests on
  `MainFetched`: a clone that knows the head of the default branch has it as its remote-tracking
  branch, where create, update and renumber look. `Initialized` leaves out the clones in which
  project init is not committed yet: on the branch of project init, create takes number 1 without
  a look at the default branch. TLC checks the property in such clones too.

**Only model-checked.** The liveness of sessions (`CallsReturn`, `ExpiryStopsEverything`), which needs fairness and
`ENABLED` and so is out of reach of the prover. What `ProjectionPolicy` makes of a policy
document is a parameter of the proofs: they hold for any class map.

The types, `Inspection` and `Frozen` are proved and no longer checked by a run of their own:
what the last two say about phase, attempt and inspection is part of `ImplementsContract`.

## 5. What is not modelled

* The drafting-table guard, about a fifth of the implementation: a pure analysis of
  shell syntax without state. What it decides depends on the text of commands,
  which a model would have to copy rule by rule.
* The specification parsers and validators of `ears-manager`, and the storage format:
  sequential functions from text to diagnostics. Where their result matters (digests,
  base freshness, approval) it is part of `FileTransaction` and `ChangeSet`.
* The adapter contract (types only), request validation, the conformance suites, the
  broker process and certificates, the evaluation harness and scripts.
* Two adapter processes on one repository, which the deployment excludes; liveness of lease
  recovery, which nothing in the repository schedules.
* Local git commands that are killed half-way, git hooks (disabled by the code), detached
  heads and shallow clones, impact assessment.
* In the GitHub adapter, the lifecycle operations it rejects as unsupported, issue
  rendering and rate limits.
