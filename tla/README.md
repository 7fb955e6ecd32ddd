# Verification of the Kogg control plane

Kogg is a control plane for governed agent work: a TypeScript backend on Theia
that owns projects, tasks, workflows, agent runs, execution sandboxes, evidence
and merges, and drives the vendored Ranex kernel through a bridge.  This
directory holds TLA+ models of its stateful components, TLC configurations that
check them on small instances, and TLAPS proofs of what holds for every
instance.  `PROJECT.json` lists the components, runs, mutants, hazards and
theorems, and maps every definition that models code to its lines.

Paths below are relative to the repository's `packages/`.

## Inventory

| component | state | operations | hard behaviour | what makes it correct |
|---|---|---|---|---|
| operation registry (`kogg-operations/src/node/operation-registry.ts`) | SQLite tables `operations`, `processes`, `operation_events`, `operation_meta` (admission); in memory: leases, timers | start, transition, register process, cleanup, cancel, time out, stop, recover | clients, cancellations and timeouts interleave at every await; crash and restart; children outlive the backend | nothing is admitted beside unclean work; a process called clean is gone; terminal states are final; every cancellation and recovery ends |
| its clients (`run-operation.ts`, `controller-git-runner.ts`, `project-repository-probe.ts`, `native-git-merge-service.ts`, `account-login-manager.ts`, `codex-process-host.ts`, `kernel-bridge.ts`) | a child process, a promise, timers | register, spawn, report exit, prove cleanup, cancel | each treats cancellation and spawn differently | they use the registry so that its promises hold |
| operations read model (`operations-read-model.ts`) with its action router and view | accepted events, cursors and faults of each owner, projections, metrics, holds, changes, action receipts | ingest, replay, rebuild, query, subscribe, forward an action | owners replay, restart under a new epoch, diverge; a crash in a replay or while an action is forwarded; cursors of an earlier start | gapless digest-chained streams that agree with their owners; rows, numbers and pages are those of the events; an action is asked of its owner once |
| interaction modes (`kogg-interaction-modes`) | mode per task, transitions | request, confirm, qualify with each owner, commit, cancel, expire | owners are asked while tasks and windows move on | a mode takes effect only for the task as it is then, and only by a confirmed transition |
| task registry (`kogg-tasks`) | tasks, specifications, approvals, admissions; challenges in memory | create, edit, freeze, approve, admit, archive | stale revisions, a binding that moves during an await | an approval is of what was reviewed, and only the task's own specification is admitted |
| execution allocation (`kogg-execution`) and its native helper | rows of runs, quota and import leases; directories, refs | reserve, allocate, seed, activate, seal, import, retain, clean, recover | helpers and git outlive a crash; quota ids are reused; power is lost | a directory belongs to one lease, one import works at a time, evidence is kept, residue blocks admission |
| agent registry (`kogg-agents`) | attempts, children, credential leases, hosts | admit, start, session, deadline, cancel, settle, recover | start, session and settlement write one row without comparing | no host is forgotten; settled attempts spawn nothing; a cancellation ends |
| verdict and merge (`kogg-verdict-merge`) | challenges, authorizations, merge intents and states, stored verdicts | challenge, revoke, authorize, execute, recover, read verdicts | the branch, mode and verdict move; a crash around the compare-and-swap | a merge lands at most once and is reported as what happened |
| project registry (`kogg-projects`) | projects, repositories, bindings, pending switch, results of requests; workspace files | create, switch, bind, relocate, remove, refresh, measure | rows change at every await; requests are sent again | references hold, requests apply once, losses are told, measurements are of the binding |
| workflow (`kogg-workflow`) | drafts, compiled plans, runs, node attempts, waits, outbox, anchors | compile, admit, route, execute, pause, continue, attest, recover | a call interleaves with others at each await; a crash between two transactions | predecessors first, a continuation as it was reviewed, one outcome, completed means attested |
| kernel bridge and adapter (`kogg-kernel`, with Python), owners of its journal | a child, pending requests; the Ranex journal | start, request, time out, exit; bind, freeze, execute, admit, evaluate, read, reconcile | late answers, two adapters, facts in any order | a pass is earned, a current verdict still holds, an answer is for its request, facts keep their numbers |
| codex and claude adapters, account login, credentials, chat and panel | a session, a host, a reservation, permissions; a file | start, interrupt, clean up, reserve, revoke, ask, sign in, chat, discover | cleanup overtakes a start; a deadline races an answer; widgets change meanwhile | what is cleaned has no credentials, cleanups and waits end, a tool is allowed once, the file is whole |
| marketplace, diagnostic reports | versions kept and current; reports and their journal | install, update, roll back, remove; report, bundle | overlapping calls; the backend stops in between | current is whole; what was given is what was recorded |
| browser sign-in, contracts, support export, build and end-to-end scripts | little or none | - | - | not modelled: see the end of this file |

The components meet in the registry: every operation of every other component
runs under an operation lease, every child process under a process lease, and
`operation_meta.admission` gates all of them.  Eleven owners, the registry among
them, publish their facts to the read model, which the front end subscribes to.
A task's admission is what runs, allocations and merges are asked for under.

## Modules

In all modules a step is a run of JavaScript between two awaits: a transaction, a
transition and what follows it up to the next `await` are one action, and what
may happen during an `await` is left to interleave.  A crash takes what is in
memory and leaves rows, files and children.  Operators named after a definition
with a suffix (`CommittedUnchecked` beside `Committed`) are the mutants that
`PROJECT.json` names: the code with one plausible bug.

| module | models |
|---|---|
| `OperationRegistry` | the registry and its clients |
| `OwnerStream` | how owners of facts keep the read model up to date |
| `ProjectionQueries`, `OperationsFeed`, `ActionRouter`, `OwnerFacts` | what the read model derives and answers; its changes and the view that follows them; the actions it forwards; what seven registries publish to it |
| `ExecutionAllocation`, `NativeHelper`, `CandidateTransfer` | workspaces of runs; the helper call by call; the objects of a run |
| `MergePromise`, `GovernedMerge`, `VerdictReads` | the abstract promise of a merge; the merge; the reads of verdicts |
| `AgentAttempts` | attempts with hosts and leases |
| `ProjectRegistry` | projects and the windows that call for them |
| `TaskRegistry`, `InteractionModes`, `TaskAuthority` | a task; its mode; both composed |
| `WorkflowScheduler` | a template, its run, its recovery |
| `RanexJournal`, `KernelBridge`, `JournalOwners` | the adapter's operations on its journal; the bridge composed with it; the owners that tell of it |
| `CodexSession`, `CodexHost`, `ClaudeSession` | a Codex turn and its cleanup; its process and credentials; a Claude attempt |
| `AccountLogins`, `CredentialFile`, `AdvisoryChat`, `ProviderPanel` | signing in; the credential file; a chat; the panel's calls |
| `DiagnosticReports`, `Marketplace` | reports and their journal; one package |
| `MC*` | model values for TLC; `MCGovernance`, `MCServices` and `MCDeadlines` put components side by side |
| `*Proofs` | theorems and proofs; `GovernanceProofs` about the composition |

### OperationRegistry

| state | code |
|---|---|
| `operation`, `process`, `admission` | the rows of the database, which survive a crash |
| `phase` | `down`, `recovering` (`startDatabase`, `recover`), `open`, `stopping` (`onStop`) |
| `leases`, `timers` | the `leases` map and the timers of a lease |
| `body` | where the function that runs under an operation stands: `runOperation` or a relative of it |
| `run` | where its promise for each child stands |
| `flights`, `cancelling` | `cleanupOperation` and `process.cancel()` calls that are awaiting |
| `incomplete`, `rows`, `terminating` | the local variables of `recover` |
| `stopQueue`, `stopCurrent` | the loop of `onStop` |
| `child`, `killed` | the children, as the operating system sees them |

`Successors` and `ProcSuccessors` are the transition tables.  Clients differ in
four ways the properties tell apart, which are constants: a *deferred* client
awaits between registration and spawn (the repository probe); an *awaited* one
has a cancel callback that waits for the child to close (the git runner, the
probe, the native allocation controller); a *detached* one makes its child a
group leader (all but the account login and the kernel bridge); a *proven* one
reports exit or failed readiness and proves cleanup in a later turn (the codex
host, the kernel bridge).

Environment: a child may end at any time and may ignore every signal; the
backend may crash at any step, also between `spawn` and the commit of the pid; a
pid seen by recovery may have been taken by a stranger, or be one the platform
cannot identify.

Left out: activity counts and correlations, owner events (see `OwnerStream`), the
registry's own start and stop operations, which have no processes, `onStop`
before the database is recovered, `refuse()` and `timeout()` of a lease outside
`runOperation`, and pruning (an assumption keeps the number of operations within
the 100 that are never pruned).

Bounds: one or two operations and one or two processes, one crash
(`MaxCrashes`), each operation and process identifier used once (they are
UUIDs).  Two processes are needed for one cancel callback to fail while another
runs on, two operations for an exempt kind to start during recovery, one crash
for recovery to meet rows of every state.

### OwnerStream

Every owner commits its facts to a database of its own and then replays all of
them, synchronously, into `ingest`, which skips what it has, takes what continues
the owner's digest chain and refuses the rest.  Each `ingest` is an action,
because a crash or a store error may come between two of them; nothing else can,
so owners act only when no replay is on the stack (`Idle`).  Within one `ingest` the
event, or its fault, is kept by one statement or transaction and the lifecycle by
another: a store error between the two (`Reject`, `Accept`), or for a fault a crash
(`Crash`), leaves the first alone.  Every start settles the lifecycle anew (`Boot`).

| state | code |
|---|---|
| `facts`, `epoch` | `operation_events` and its relatives in the owners' databases, `owner_epoch_id` |
| `pruned` | the operations `prune` deleted, which no lease names again |
| `accepted`, `cursor`, `faults` | `accepted_events`, `owner_cursors`, `projection_faults` |
| `configured`, `available` | `configured_owners` and those with status available |
| `lifecycle`, `derived` | `projection_meta.lifecycle`; the tables of runs, processes, activity and timeline |
| `unmarked` | history: a fault was stored and no lifecycle was written since |
| `linked` | the owners that have a sink (`onStart` of a wiring) |
| `heard` | the operations whose process has an output handler in this backend |
| `publishing` | the `publishOwnerEvents` call on the stack |
| `now` | periods of thirty days, the detail retention |

An event stands for its digest, which covers the digest before it: it is the
owner, the epoch and the whole chain up to it, so two events are equal exactly
when their digests are.  `GaplessStreams` is about this chain.

The registry is one owner and the most difficult: `prune` removes facts at the
front or in the middle, `mapOwnerEvent` renders an old fact from a row that has
changed since (`Code`), and only the registry opens a new epoch when a replay is
refused.  The others differ in when they publish: most after every mutation, the
workflow registry when `executeRun` returns (`Batched`).

Abstractions.  Facts of the registry are of the six classes whose projection
differs.  The events before a process starts are like the start, and what lies
between it and the cleanup is left out, so are exits that count as abnormal.  An
operation has at most one process and always a run.  Of the other owners only
what moves a run is kept: start, completion, and any mention of it.  What a
registry renders of its rows is in `OwnerFacts`; metrics, retention holds and the
closed set of payloads are in `ProjectionQueries` and `OwnerFacts`.  Causal
parents and the separate retention of activity and metrics are in none.
`rebuild` has no caller but the tests; its work is that of `Boot`.

One divergence is deliberate in the code and no run is spent on it: the
pseudocode (`operations-pseudocode.md:51`) stops the cursor of an owner with a
fault, while the code lets the owner open a new epoch, with a comment that says
why.  `FaultsClearOnlyByReopening` states what that may do.

Bounds: one run, one other owner, two operations, `Retain = 1` instead of
100 (with two operations one is pruned), three or four facts, one crash or
restart, one loss of the store, one store error, one period of retention.  Two
operations are needed for pruning to change a stream that has been accepted; a
crash for recovery to rewrite a safe code; a crash after a refusal for a fault to
outlive a backend.  `Permutations` of operations is used as symmetry in the runs
of safety only.

### ProjectionQueries, OperationsFeed, ActionRouter, OwnerFacts

`ProjectionQueries` is the projection seen by its readers.  `log` is
`accepted_events`, `view` the rows of runs, their timeline and holds, `counters`
and `gauges` the two kinds of `metric_values`, and `walk` a reader between two
pages of `listRuns` or of a timeline.  A start and a rebuild derive everything but
the counters from the log again; retention removes the detail of old events, and
rows of runs that ended, are not held and left no process.  Bounds: three of six
events of two runs (one ends with a process that is seen alive, active and
cleaned, one is held), pages of one row, one rebuild, two starts: enough for a
derivation or a retirement to come between two pages.

`OperationsFeed` is `change_sequence` with its epoch and the newest changes
(`Limit` 2 instead of 1,000), a client's cursor, and the synchronisations of the
widget, which run one after the other while signals come in.  Three changes, one
rebuild, two starts: a cursor can be current, behind what is kept, and of an
earlier start.

`ActionRouter` writes a row for a request before and after it asks the owner.
Two callers send five requests under two ids (a cancellation of an operation of
the run and of one that is not, diagnostics at two sequences, a retry), so that an
id comes again with the same and with another body; the store is closed or the
backend dies twice.  Owners may accept or refuse: those bound today refuse all.
That the receipt of a failed request cannot be written either
(`operations-action-router.ts:47`) is left out; its row would stay forwarding, and
uncounted, until the next start.

`OwnerFacts` takes one of the seven registries with a journal (tasks, projects,
attempts, workflow runs, executions, verdicts, merges) in each behaviour.  It models what of a
row becomes an event, which events the read model takes (its kinds and payloads
are closed sets), the journals of earlier versions and their migration.  Two
facts for projects, verdicts and merges, three for the others, and one death: a
migration of older records can be cut short at any of them.

### ExecutionAllocation, NativeHelper, CandidateTransfer

In `ExecutionAllocation` a command of the registry checks admission and the row,
may await, and commits in one transaction that compares revision and state again:
two actions where the code awaits, one where it does not.  `row` is the run's
rows (state, cleanup, intent, quota lease with its project id, import, import
lease, retention), `pc` where its controller stands, `child`, `dir` and `ref`
what is outside the database.  A controller enters no state twice between two
starts, so the state a caller holds stands for its revision.  The commit of a failure
may itself fail (`FailureLost`, the place `lost`): the row goes on saying that the work
is under way.  Two runs of one
repository, two quota ids, two crashes: an id can be exhausted, an import can be
excluded by another, and a helper can outlive two backends.

`NativeHelper` is what its answers stand on: each system call of an allocation
and a cleanup, with what a loss of power leaves (`disk`) beside what the kernel
shows (`dir`).  Two files of the run show a removal that is cut short.

`CandidateTransfer` is the git commands of seeding, sealing and importing between
two repositories that move.  Commits are given with ancestors and trees: a base, a
commit, work on it, a merge, a commit of the user and one that changes nothing,
so that every refusal of `verifyObjects` has a commit.

### MergePromise, GovernedMerge, VerdictReads

`MergePromise` says what a human may rely on: a merge reported merged did land,
one reported not merged is not in the branch and will not get there, and a report
may only be withdrawn into unknown, except where the merge's Git child was lost
sight of (`loose`).  `GovernedMerge` is the code: challenges and authorizations
(`challenge`, `authorization`, and `calls` for requests between two awaits), the
durable state of each merge (`state`, `oid`), its executor in memory (`exec`,
`checked`), its `update-ref` process (`child`), its recovery, and the branch.
`landed`, `contained` and `strays` are history.  A restart ends the children its ledger
names or leaves some of them running, as possible `residual`s, which block new merges
but not recovery.  A child is lost sight of in three ways: spawned and not recorded when
the backend died (`CrashAtSpawn`), killed and not awaited, or left by recovery;
`strays` are their merges.  `KeepsPromise` is the refinement: `Outcome` maps states to
reports.

Two merges of one branch from one base, one challenge each, one crash, one change
of mode or verdict, one move of the branch by its owner: the second merge meets a
branch the first has moved, and a rewound branch meets a recovery.  Time is the
moment each record lapses.  `FreshProjection` says whether each read of a verdict
is a new explanation, as it is in the backend; the run uses `FALSE`, the tests'
fixed authority, for with `TRUE` no challenge is ever accepted (see below).

`VerdictReads`: two readers, two request ids with two bodies, two stored requests,
one crash.

### AgentAttempts

`startAttempt` (`stage`), `runSession` (`run`) and the settlement of a live
attempt (`settle`, with `todo` and `waits` for its children) are three calls over
one row (`state`) that none of them compares before writing.  `lease` is the
credential lease, `host` the adapter's process, `tracked` and `ops` what the
operation registry knows of it.  Every later look at task, mode and workspace is a
chance to fail.  A root and a child attempt, one crash: the child's start meets
the parent's settlement.

### ProjectRegistry

`db` is the rows, `calls` the call each window is in with what it has read,
`tracked` and `live` the operations in memory, `view` and `open` what a window has
seen, `disk` and `files` directories and workspace files.  Requests carry the
revision their window saw, and may be sent again (`sent`).  Two projects,
repositories, directories, windows and requests, one task, `KeptResults = 1`
instead of 1,000, two calls, one repetition, one change of the disk: a result is
forgotten before its request comes again.  Metadata is left out.

### TaskAuthority

`TaskRegistry` and `InteractionModes` are one task and its mode; `TaskAuthority`
composes them, since an edit asks the mode for leave and a transition asks for the
task.  Calls read before their await (`jobs`, `confirming`, `cancelling`) and, but for a
cancellation, look again after it.  `CancelTransition` finds the transition waiting and
asks for the task; `CancelCommit` writes over whatever it has become.  `owners` of a
transition is its `qualification_digest`, `serving` whether the registry accepted its
rows at the last start (`ModeRestart`).  What `resolveTask` answers and the transaction
after it are one step, since nothing else is awaited between them.  In `MCGovernance` a
task that exists at the start has its mode row; one that is created gets it by a call.  Two windows, one session, four calls, one transition between two modes.
Other tasks only add conflicts; the owner that qualifies a transition is external.

### WorkflowScheduler

`graph` and `plan` are the template, `run`, `att`, `waits`, `outbox`, `anchors`,
`outcomes` and `idem` the tables, `exec` the calls in memory, of which `busy` holds
the thread.  Each transaction is an action, so that a crash may fall between any
two.  `MCGovernance` gives five graphs: two lines with a continuation, a handled
failure, a join, and branches of which one ends by itself.  Two calls, one
admission, two reviews, one repetition, one restart.  Compilation is the check of
the graph; loops are excluded by the compiler, editing of drafts is left out, and so is
the residual of an agent whose start was refused (`workflow-registry.ts:350`).

### RanexJournal, KernelBridge, JournalOwners

`RanexJournal` holds the pure operators of the adapter: the guards of each
operation, the fact it appends, the rows and decision of a verdict, and whether it
is still current.  `KernelBridge` composes them with the bridge: adapters that
run, pipes, pending requests, timeouts, protocol failures, the adapter that is
given up and runs on.  One caller, five requests, three checks executed by two
identities, two journals to start from, two adapters, one fault.  `JournalOwners`
numbers the facts again at every refresh; three kinds, two identities, two facts.

### CodexSession, CodexHost, ClaudeSession

`CodexSession` has the frames in both pipes, the phases of the protocol and the
stages of the cleanup with their deadlines; the server keeps to its protocol and
answers with results (a JSON-RPC error, `codex-protocol-core.ts:92`, is never sent), so
a refusal is a race.  `CodexHost` has the gate of the process and the reservation,
with calls the broker has not handled yet.  `ClaudeSession` is one attempt from
what must be verified (`verified`, `checked`) over the process (`phase`, `at`,
`host`, `row`), the credentials (`reserving`, `revoking`, `lease`, `broker`), the
permissions (`pending`, `decided`, `calls`, `allows`) and the messages (`queue`,
`sent`, `ended`) to the lifecycle that binds them (`settle`).  Owner and broker are
external; the owner is given the deadline of a spawn and does not do later what
it has not done by then, and releases only what it holds.  One permission asked
for twice, three messages, two of them queued.  What is verified (digests,
statements) and the content of messages are left out.

### AccountLogins, CredentialFile, AdvisoryChat, ProviderPanel

`AccountLogins`: two sign-ins of one provider, with the tool, its exit handler, its
operation's deadline and the polling widget.  A tool that is missing has no pid, and
`lease.started(-1)` throws after the entry was registered and before the handlers are
attached (`LaunchThrows`; so may it for a tool that runs, when its row cannot be
written): the entry stays, its exit goes unheard (`ExitUnheard`), and another press
answers its state (`PressAgain`).  The handler of the child's `error` event is left out:
only a failed spawn, where it is not attached, or a signal that cannot be sent raises
it.  `CredentialFile`: three changes of
two records over inodes, so that a rename moves what another call still writes.
`AdvisoryChat`: three chats of three kinds of provider with two chunks each.
`ProviderPanel`: an account and a provider with a key, two calls at a time.

### DiagnosticReports, Marketplace

Two reports of two contributors with one stop and a clock of milliseconds; two
windows, two versions and one crash.

### MCGovernance, MCServices, MCDeadlines

Each of these puts components side by side that share no state in the code, or
whose meeting is modelled elsewhere, and moves one of them in a behaviour
(`part`).  Its properties are conjunctions of properties of the components, each
of which is stated, with the code it is about, in the module of its component.
One run then answers a question of several components.  `MCGovernance` has the tasks,
the allocation, the workflow and the kernel that judges them; `MCServices` what keeps
or passes on what others rely on; the bounds of the components whose stores are proved
about are constants of it.  `MCDeadlines` does the
same for liveness; the components that do not move stay in initial states where
none of their fair actions is enabled, so that their fairness asks for nothing.
The windows of `MCGovernance` are symmetric in its run of safety (`Symmetric`).

## Runs

All runs check deadlock except those whose cfg says otherwise, where a bound (no
more calls, crashes or events) or the end of a session stops the system.

| run | expects | properties | what it shows |
|---|---|---|---|
| RegistryAdmission | pass | FailedCleanupBlocksAdmission, ResidualBlocksAdmission, LeasesAreLive, CleanedProcessIsGone | an ordinary operation with a child beside one of an exempt kind, across a restart: what blocks admission, what may lift the block, and that a process called clean is gone when the callbacks of its operation wait for it |
| RegistryClients | pass | TypeOK, CleanedOperationIsClean, AttestedProcessIsGone, TerminalIsFinal | an operation with both deadlines whose two children are a repository probe and a client that only signals, under cancellation, timeout, shutdown and a crash: what the registry vouches for when clients are careless |
| StreamAgreement | pass | TypeOK, StreamsAgree, OwnersOnlyDiverge | two operations, pruning, recovery, a crash and expired rows: the read model holds what the owners hold, under the epoch they publish |
| StreamLoss | pass | GaplessStreams, CompletedHasNoProcess, CurrentHasNoFaults, FaultsClearOnlyByReopening | the projection store fails in the middle of a replay or is lost, with faults in it, and is filled again by owners that carry on under old epochs |
| StreamConverges | pass | Converges | after any crash, loss and divergence the read model comes to agree with its owners and to be current |
| Merge | pass | UpdateHasExecutor, LandsOnce, KeepsPromise | two merges of one branch from challenge to settled, with overlapping requests, failing steps, a crash at any point and an owner who moves the branch: the ledger implements MergePromise |
| Agents | pass | UnownedHostBlocks, SettledNeverSpawns, CancelSettles | a root attempt and its child through start, session, deadlines, cancellation, settlement and a crash: no host is forgotten and a cancellation ends |
| Projects | pass | ReferencesHold, AppliedOnce, UnavailableIsTold, MeasuredWhileBound | two windows call the project registry, giving way at every await, while a directory comes and goes, a request is sent twice and the backend restarts |
| Governance | pass | AllocationsAgree, ReviewsHold, RunsAreOrdered, VerdictsHold, StepsAreGoverned | side by side, one moving at a time: two workspaces of one repository from reservation to removal with helpers that outlive two crashes; a task edited, reviewed, approved and admitted by two windows while its mode and binding move; a run of each shape of graph admitted, routed, paused, continued, attested and quarantined by a restart; the kernel with its bridge and journal |
| Services | pass | StoresAgree, ToldAsKept, ChangesAreExact | side by side, one moving at a time: the credential file, a Codex host, the transfer of a candidate, the marketplace, the native helper, the readers of verdicts, the owners of the kernel's journal, diagnostic reports, a chat, the provider panel, the feed of the operations view, its action router and the queries of the read model, what seven registries publish, and a Claude session |
| Deadlines | pass | SessionsAgree, RecoveryEnds, CancellationSettles, DeadlinesHold, WaitsEnd, CleanupEnds | side by side, one moving at a time: recovery, cancellations and deadlines of the registry although children ignore signals, a sign-in with its tool and its widget, the cleanup of a Codex session beside a server that answers late, and the calls of the provider panel |
| WorkflowReplay | violation | UnknownOutcomeStays | an admission sent again after a restart completes a run whose outcome is unknown |

The runs that expect a violation show where the code does something else than a
document or a comment says:

- WorkflowReplay (`packages/kogg-workflow/src/node/workflow-registry.ts:191`):
  admitRun with a requestId that was answered before: transaction()
  (workflow-registry.ts:273-277) returns the stored 'admitted' and line 191 lets
  it through to executeRun. After a restart recovery has quarantined the run and
  taken its outbox away, so this execution finds nothing to do and
  finishControlRun (381-386) completes the run whose outcome is unknown;
  docs/v1/governed-task-loop/workflow.md:55-56 says "retries are bounded new
  attempts with explicit idempotency/side-effect policy, never transparent
  replay of an unknown outcome"

### Other disagreements

More disagreements between the code and its documents were met while modelling.
The models contain the steps that lead to them.  Where a property states what the
document promises it is named; it is defined in the module and no run keeps it.

Operation registry and read model:

- A process may be registered and spawned under an operation that was cancelled
  (`CancelledHasNoDescendant`; `registerProcess`, `operation-registry.ts:275`,
  does not look at the operation; `operations.md:178`).  A cancel callback that
  signals and returns (`account-login-manager.ts:266`), or a probe that awaits
  `realpath` (`project-repository-probe.ts:44`), lets the operation become
  cancelled while its child runs or before it is spawned.
- Recovery takes ESRCH of a process group for the absence of a child that leads
  none (`RecoveredProcessIsGone`; `terminate`, `operation-registry.ts:741` and the
  comment at 742; clients: `account-login-manager.ts:102`, `kernel-bridge.ts`).
- A probe of a missing path leaves a registered row and blocks admission
  (`ProbeWithoutChildDoesNotBlock`; `project-repository-probe.ts:67`;
  `projects.md:280`).
- `recover` reconciles only rows in started, ready, spawning and registered
  (`operation-registry.ts:447`), so an operation whose process is exited and not
  clean becomes recovered and cleaned; `operations.md:43` says exit is not cleanup.
- The flush of pending activity appends `process.activity` without a process
  (`operation-registry.ts:261`), which `ownerEventKind` turns into
  operation.failed: the timeline of a healthy run shows a failure.  The count that
  was coalesced is not in the event at all (`operations.md:149`: "exact counts").
- Activity told after a cleanup shows a cleaned process as live again
  (`CleanedIsNotLive`; `operations-prototype-findings.md:47`); a run that executes
  is not shown before it ends (`ActiveRunIsShown`; `workflow-registry.ts:193`
  publishes after `executeRun`; `operations.md:21`).
- When the registry opens a new epoch, its old activity is added to the aggregate
  once more (`operations-read-model.ts:442`; `operations-pseudocode.md:141`).
- A fault is stored by one statement and the read model degraded by the next: after a
  store error between them the lifecycle stays current beside the fault
  (`operations-read-model.ts:398-400`), until the next event or start.
- After an error of the store in `ingest` there is no fault, the owner waits for
  its next mutation, and the lifecycle may stay current
  (`workflow-registry.ts:88`; `operations-pseudocode.md:124`).
- An event for a run whose row has been retired makes a row with lifecycle unknown,
  where a rebuild gives completed (`ViewIsReplay`;
  `operations-read-model.ts:409`; `operations-read-model.test.ts:18`).
- A hold of one kind acquired by two owners for a run is one row: the first owner's
  release does nothing or the second's ends both (`HoldsAreOwned`;
  `operations-read-model.ts:446-453`).  No owner emits a release, so an evidence
  hold, and its run, stay for ever.
- Every start numbers changes from 0 again under the same epoch, so an old cursor
  or an action's expected sequence may fit another state
  (`AnyResumeIsWhole`; `operations-read-model.ts:504-512`;
  `operations-pseudocode.md:200-201`).  Faults and changes of the lifecycle are
  never signalled (395), a failed synchronisation is not repeated, and after a
  reconnection nothing is asked anew.
- Events of verdicts, merges and projects carry no run, and `projectEvent` returns
  early (`operations-read-model.ts:408`): the summaries of a run stay unknown and
  its holds of these kinds are never acquired (`operations.md:17`, `:110`).  So do
  the requests of attempts (`agent-registry.ts:347`): the counts of attempts and
  retries stay 0.
- A failed execution that was cleaned is told as completed, and one that is cleaned
  after its retention as started (`ownerEventKind`).  The migration of verdicts
  and merges is not one transaction: a death in it leaves it incomplete for ever
  (`BackfillIsWhole`; `merge-authorization-registry.ts:266`).

Execution:

- A failed import leaves its quota lease allocated on a quarantined row, which
  the registry's own check refuses at the next start, so that it never starts
  again (`RestartsPass`; `execution-allocation-registry.ts:457`, 955-968).
- A retained run is quarantined, and admission blocked, at the next restart; with
  admission blocked cleanup refuses as well; ids that run out leave an admitted row.
- When the failure of an allocation, a cleanup or an import cannot be recorded it is
  only logged: admission stays open over what may be on the disk until the next start
  (`native-allocation-controller.ts:78-81`, 112-115; `candidate-lifecycle-controller.ts:45`).
- A cleanup of the helper that is cut short after `allocation.json` is gone cannot
  be completed (`kogg-execution-helper.c:331-336`).
- A seed bundles HEAD, not the base it has checked (`private-git-seeder.ts:39`;
  `execution.md:564-565`); an import refused after its `update-ref` leaves the ref
  (`candidate-importer.ts:36-38`; `execution.md:626`).

Merge:

- The projection that the backend binds mints new identifiers and times at every
  read and digests them (`verdict-projection-authority.ts:46`, 60-63), so that a
  challenge is always refused (`CurrentPassIsOffered` with `FreshProjection`;
  `verdict-merge-service.ts:76`; `verdict-merge-pseudocode.md:168`).
- A challenge revoked while it is authorized is authorized all the same
  (`RevokedIsFinal`; `merge-authorization-registry.ts:124` and 136-140); recovery
  may quarantine a merge that another call has settled (`SettledIsFinal`;
  `native-git-merge-service.ts:143`); an `update-ref` child may be lost sight of
  and land later, which is the exception in `MergePromise`.
- Recovery reads the branch and reports a merge as not committed without asking for a
  child that the registry's recovery has just left as a possible residual, and "recovery"
  operations are not blocked by one (`operation-registry.ts:105`, 456-470): the child may
  land a refused merge (`RefusedNeverLands`; `native-git-merge-service.ts:117-131`).
- Stored verdicts of an older version make `verifyIntegrity` throw
  (`verdict-merge-service.ts:89`), an unknown one is stored for ever, and
  overlapping readers get an internal failure.

Agents:

- The second start after a residual host forgets it (`AdmissionAgrees`;
  `agent-registry.ts:50`, 58; `agent-protocol.md:959`); cancellation and a late
  "ready" rewrite terminal states (`TerminalIsImmutable`; `agent-registry.ts:196`,
  210, 228; `agent-protocol.md:710`).  A child may be attached after its parent was
  settled, and cancelling a parent while a child starts throws.

Projects, tasks, modes, workflow:

- The degraded branch of a switch clears it without ending its operation
  (`project-registry.ts:380-386`; `projects.md:266`); overlapping refreshes write
  what they have read (`projects.md:711`); a repository that moved is refused
  because its identity is its path (`projects.md:320-321`); the catch of
  `createProject` removes the workspace of a committed project.
- Approval and admission do not look at the lifecycle of a task (`tasks.md:381`,
  `:614`); a change of the binding is final; a revision of a task in build mode
  leaves `restore-degraded` (`interaction-modes-pseudocode.md:265-270`).
- A cancellation looks at the state of a transition before it asks for the task and not
  afterwards, so that it overwrites a transition that was committed or refused meanwhile
  (`interaction-mode-registry.ts:144-148`).  The mode stays the one that was committed, and
  the next start refuses the rows (`ModesAlwaysRestart`, 315-325).
- A wait left waiting in a failed run stops the workflow registry from starting;
  `continueRun` replays like the admission above (214-216);
  `scheduler_lease.admission` is never consulted (433).

Kernel:

- A verdict with a failed and a blocked row is blocked to the adapter
  (`kogg_ranex_adapter.py:847`) and a protocol failure to the bridge, which expects
  fail (`AnswersAreUnderstood`; `kernel-bridge.ts:559`; `verdict-merge.md:131`).
- Roles are separated only when a suite is executed (py:629-633;
  `kernel-evidence.md:317`); a reconciliation under another request conflicts for
  ever; an unknown outcome is reported as refused (`kernel-evidence.md:322`);
  two evidences for a claim block it for ever; `terminateChild` ends nothing
  (`kernel-bridge.ts:605`) and a start that fails leaves `starting`.
- An execution identity that recurs makes `mapEvents` throw for ever
  (`check-operations-owner.ts:87`).

Providers, adapters, marketplace, reports:

- A sign-in whose tool is missing stays registered as running, and its widget, if it
  presses again, polls for ever (`EverySignInEnds`; `account-login-manager.ts:94-103`): the
  message that the tool could not start is in a handler that is not attached (148).
- Cancelling a sign-in drops its entry and leaves its tool running beside the next
  one (`account-login-manager.ts:92-93`), whose child the first one's timeout may
  kill.  Codex pushes the whole text with each delta and the widget appends it
  (`NothingShownTwice`; `account-login-manager.ts:247`; `provider-widget.ts:106`).
  A discovery under way offers models of the previous provider
  (`provider-widget.ts:466`).  Overlapping changes of the credential file are lost;
  the desktop's file can be torn by a crash.
- A notice that is in flight when a Codex turn is interrupted, or its completion
  afterwards, makes the client refuse the frame and the cleanup report a failure
  (`codex-protocol-core.ts:98-100`; `codex-adapter.md:108`, `:246`).
- In the Claude adapter a reservation or registration answered after a cleanup sets
  the phase back, so that a process its owner holds is cleaned in its row
  (`CleanedHasNoProcess`; `claude-process-host.ts:31`, 44); a release answered
  during a cleanup's revocation leaves a cleaned row ready; a reservation refused
  while a cleanup waits for it is reported as a residual process though nothing is
  left (`claude-credential-grant.ts:23`); a cancelled operation ends the process and leaves
  its permissions open.
- Installations of one version that overlap share a temporary directory; a crash
  in or after the `rm`, or a failed `rename` (`marketplace-client.ts:65-66`, 77), leaves
  `current` without a whole version; nothing reads `revocations.json`.
- A report under way at a stop stays started; two bundles of one millisecond share
  a name (`diagnostics-service-impl.ts:75-78`).

## Fairness

Liveness is checked under weak fairness of what the event loop and timers
guarantee, and of nothing that a child, a server, a user or the network decides.

- `OperationRegistry`: continuations of settled promises, expired deadlines, the
  10 second cleanup timer, the end of a client function that has failed, and each
  step of `recover`.  Nothing of client functions at work, of children, of
  cancellations or restarts.
- `OwnerStream`: the steps of a replay, which is a synchronous loop, and the start
  of each owner's wiring.  `Converges` asks for agreement only of behaviours in
  which the backend stays up in the end.
- `AgentAttempts`: the steps of a settlement (`SettleStep`), which are
  continuations and the timers of grace and cleanup.
- `AccountLogins`: the widget's poll, the operation's deadline, the import of a
  credential after the exit, and the launch, or its failure, after the operation
  started.  A tool that was sent a signal need not end, so `SignInsEnd` and
  `ShownSettles` except it, as they except a sign-in whose handlers were never attached.
- `CodexSession`: the stages of a cleanup, each of which has a deadline
  (`codex-session-cleanup.ts:54`).  Nothing of the server.
- `ProviderPanel`: the answers to its calls, which end at the latest by a timeout;
  the test of an account's connection has none in the code
  (`provider-registry.ts:240-266`) and is taken to end.

## Proofs

All theorems hold for every value of the constants under the named assumptions of
the modules: any number of operations, processes, merges, attempts, windows,
owners, crashes.  Each invariant was checked by TLC on the instance of its run
before it was proved.

**`OperationRegistryProofs`.** `TypeCorrect`: `TypeOK` is inductive as it stands;
each row update is a lemma.  `FailedCleanupBlocks`, `ResidualBlocks`: admission is
enabled only by the end of `recover`.  `AdmissionInv` says what makes that
decision sound: nothing volatile survives going down (`DownIsEmpty`), no client
of an ordinary operation runs during recovery and admission is not enabled in
it (`RecoveryIsQuiet`), recovery has reopened every ordinary operation whose
cleanup failed (`FailedIsReopened`), and every row recovery may find residual
belongs to an operation (`RowsHaveOperations`).  Without `RecoveryIsQuiet` a
cleanup could fail after recovery made its list.

Its second part adds `LifeInv`: the leases of an open registry are the
operations at work, and recovery's list is those in `recovering` (`OpLife`); a row's
exit is observed only of a child that is gone (`RowLife`); a cancel callback under
way has signalled its child (`CallbackLife`); a row recovery still has to look at
belongs to no running client (`RowToReconcile`).  From it: `Leases`,
`CleanedOperations`, `CleanedProcesses`, `AttestedProcesses`, and for steps
`TerminalStates`.  Its lemmas split a step into what it does to one operation or
one process (`OperationFollows`, `ProcessTouchesOne`), so that each conjunct is
proved of the row that moves.

In its third part, about `MCDeadlines` under `DeadlineBounds` (numbers that bound
sign-ins and notices), `LoginInv` and `SessionInv` give `SessionsAlwaysAgree`.
Sign-ins start in order, one at a time (`LoginOrder`), and one whose tool still runs
without an entry lost it to a cancel or a lost code (`EntryLost`).  Of a Codex
session: what is asked or answered is in one pipe once and remembered by the client
(`AnswersOwed`), where the start stands says what it has asked (`StartStands`), and
the notices on their way are those the client's phase expects, up to the cleanup
(`NoticesFit`).

**`OwnerStreamProofs`.** `CurrentIsHonest`: `LifecycleInv` adds that available owners
are configured and what the lifecycle means while the backend is down.  A lifecycle that
was not marked after a fault (`unmarked`) is excepted, and its presence in a backend that
runs shows a store error.
`FaultsPersist`: faults disappear in one branch of `ingest`, whose guard
compares epochs for equality only.  That the later epoch is greater follows from
`EpochInv`: no stored fault is of an epoch its owner has yet to open.

Its second part proves `HoldsInv`: for each owner the accepted events are the
prefixes of the chain of its cursor, and what is being published continues it.
`Gapless` follows.  `AgreeInv` adds what the owners do: the other owners only
append; of the registry the events held agree with its facts up to the first
pruned operation, and beyond it its facts go on, because pruning spares the
newest finished operation; and faults are those of the publication on the stack.
The lemma `Verdicts` then says that only a duplicate, the next event or a conflict
can be met, and `Agreement` and `Divergence` follow: the registry's conflict is
answered by a new epoch, after which nothing else is refused.

Its third part is about the derived tables, which are folds over the accepted
events: `TablesOK` is kept by `ProjectEvent`, hence by a rebuild (there is no shortest
prefix of the folded events at which it fails), and by an expiry.  It says that the timeline holds only
accepted events, that no completed run has a live process, and that a process which
is not live was cleaned after every event that says it lives.  With `OrderOK` (events
are accepted in the order of their epochs and numbers) `StreamTypes` and
`CompletedAreIdle` follow.

**`GovernedMergeProofs`.** `IInv` ties each merge's row, its executor, its child, its
recovery and the branch (`Fresh`, `Runs`, `Swaps`, `Reported`, `Recovers`), with
`Down` for a backend that died.  The difficult part is `Recovers`: what recovery
has read of the branch is still true when it writes, unless a child was lost
sight of: a child that is still there when a recovery decides belongs to a merge in
`strays`, so that recovery need not have ended the children for the proof.  `UpdateIsAwaited` and `MergeLandsOnce` follow, and `MergeKeepsPromise`:
every step of `GovernedMerge` is a step of `MergePromise` or a stutter, one lemma
for each kind of abstract step.

**`ServicesProofs`.** Of the attempts of agents, `IInv`: a down backend is idle, a
starting attempt is not live, a lease that may still spawn belongs to a live attempt
(`LeaseOfLive`), and a host that runs beside a settlement is a tracked process or a
residual of it (`HostIsKnown`).  `UnownedHosts` is the conjunct that admission needs;
`SpawnsAreOwned` is the action property.

Then `StoresAlwaysAgree`, under `ServiceBounds` (finitely many credentials and
versions, records and ancestors that are given, bounds that are numbers), with an
inductive invariant of each component.  `HelperInv`: the call the helper is at has
behind it what the calls before it do, in memory and, from the last `fsync` on, on the
disk (`HelperStages`, `HelperDisk`).  `HostInv` and `ClaudeInv`: between reservation,
revocation and the end of the process, what the broker holds is what a step still to
come will take back (`HostRevokes`, `ClaudeGrant`, `ClaudeGate`).  `TransferInv`: from
sealing to the ref the candidate is lawful (`LawfulCandidate`), whatever the user's
repository does meanwhile.  `MarketInv`: as long as one call is at work
(`MarketAlone`), what it has on the disk follows from the step it is at
(`MarketStages`), and a version that is complete stays so.  `CredentialsInv`: a call
writes to an inode nobody else has open unless it overlaps another, and what the last
call of a record set is in the file and in what is written next (`CredentialsKept`);
from it `ChangesStayExact`.  As one component moves, `StoresInv` asks of the others
that they are in initial states.

**`ProjectRegistryProofs`.** `IInv`: the rows refer to what exists and were told
(`RowsOK`), no two requests share an operation (`TrackedApart`), and of every call
what it has read is either of the present revision or of an earlier one
(`CallInv`, `SentInv`): `Later` is the relation between what was read and what is,
and one lemma for each kind of call says that its rows stay `Later`.
`AppliedInv` gives `RequestsApplyOnce`: an applied request has a revision that has
passed, and can only be refused.

**`ExecutionAllocationProofs`** (under `AllocationBounds`: finitely many runs, an id
to give, a bound on crashes).  `RunInv` says of each run what the state of its row
settles: the quota lease and the clean-up (`RowAgrees`), the import and its lease
(`ImportAgrees`), the directory, the child and the ref (`OutsideAgrees`), and where
its controller may stand (`PlaceAgrees`), which a crash takes away while helpers
go on.  The runs share admission, the next id and the repository: `RecoverySettles`,
`OneUnsettled`, `OwnProjects`.  `StepKeepsOthers` and `OtherRunInv` show that a step is
about one run, `OwnRunInv` what it does there.  The conjuncts of `AllocationsAgree`
follow (`LeasesAlwaysAgree`, `DirectoriesStayLeased`, `ImportsExclude`,
`EvidenceStaysKept`, `ResidueBlocks`: a `lost` controller leaves its row as the failure
found it, among the `Unsafe` ones), and of `StepsAreGoverned` the first
(`QuarantineStays`).

**`WorkflowProofs`** (under `WorkflowBounds`: finite graphs whose edges join nodes of
the graph, a bound on reviews; the lemma `Graphed` of `GovernanceProofs` shows that
the graphs of the run satisfy it).  Requests are not deduplicated while the first is
being executed, so that two calls may execute one run.  `IInv` separates what holds
in any case from what needs a single executor.  In any case: one call at most
holds the thread, and a call that awaits a node or an anchor has its row of the
outbox (`Held`); what a check or an anchor recorded as succeeded stays, and a call
past the checks has seen them (`Spines`); a continuation has a receipt (`Approved`).
As long as no request was replayed (`Sole`): one call executes, what it holds in
memory agrees with the rows (`WorkAgrees`), a row of the outbox that is live, residual
or unfinished belongs to the call, to an outcome recorded with residue or to a
quarantined run (`Covered`), and
every dispatched node had its predecessors.  Each handler is one lemma, over lemmas
for what a settled row, a closed row and a step of one call leave alone.  From it:
`WorkflowTypes`, `WorkflowOrder`, `WorkflowAttestation`, `WorkflowOutcome` and
`WorkflowReviews`.

**`GovernanceProofs`** (with `ModesAreOrdered`: a sequence of at least two different
modes; `NoneIsNoRow`).  `TaskInv`: what a call read of the task is of a revision the
task had, and of its present row only if nothing was written since (`JobReads`);
the number of a review is its own, among challenges, approvals and calls
(`ReviewsOnce`, `ReviewIsNew`).  `ModeInv`: only the last transition can wait, and it
would change the mode; the mode is where the last transition that was qualified ended,
and counts them; there is none without a task.  That holds whatever is cancelled late,
because a cancellation keeps what the owners answered (`OwnersAnswered`): a committed
transition is a qualified one, and a qualified one that is not committed was cancelled,
which `VerifyTransitions` refuses (`RowsAccepted`).  `ReviewsAlwaysHold` follows.  The other two components are instances: the lemmas
`AllocationRefined` and `WorkflowRefined` show that `AllSpec` implies their
specifications, and `AllocationsAlwaysAgree`, `RunsAlwaysOrdered` are their theorems
carried over.  `StepsAlwaysGoverned` joins the action properties of all three.

The kernel is proved under `KernelBounds`: attested checks, well-formed requests, and
journals that earlier adapters may have left (`JournalsAreKept`).  `KernelInv`: the
journal is `Kept` (evidence is of the state that was checked, a pass is earned, a
verdict is the decision on what was there before it); a frame of a caller, in
either pipe, is of the request that caller waits for, and an answer on its way is
true of the journal (`FramesFit`); a caller has one frame at most (`OneFrame`), so
that taking it leaves no second answer; what was told stays true, because facts are
only added (`CallsTold`).  The lemma `DispatchIsGood` says of each operation of the
adapter that it keeps the journal and answers truly; the rest is that timeouts,
protocol failures and exits forget a caller's frames.  `VerdictsAlwaysHold` follows.

Only model-checked:

- all liveness (`Converges`, `RecoveryEnds`, `CancellationSettles`,
  `DeadlinesHold`, `CancelSettles`, `WaitsEnd`, `CleanupEnds`), which needs `ENABLED`;
- of `MCDeadlines` the panel, and of `MCServices` `ToldAsKept`, but for its part about
  Claude sessions (the lemma `ClaudeHolds`): nine smaller components, each with a state
  of its own, whose bounds are part of what the run says.
## What is left

Not modelled: browser sign-in (a cookie set once and compared), the contracts
(types, validation, canonical JSON), the support export (a rendering of the read
model), what the widgets render, and the scripts that build, package and test.
Within the modelled components `PROJECT.json` says what is left out.

Worth proving next: the components of `ToldAsKept`, with `OperationsFeed` and
`ActionRouter` first, because their windows and requests could be any number.
