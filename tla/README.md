# Verification of librecode

librecode is a local-first terminal agent written in Go.  A user's prompt becomes
a *run*: the runtime sends the conversation to a model provider, executes the tool
calls the model asks for, and stores everything in an SQLite session.  Tools change
files, some of them as durable background tasks that outlive the turn and even the
process.  This directory holds TLA+ models of the parts where that is hard to get
right, the TLC runs that check them, and TLAPS proofs of their main properties.

Paths below are relative to `src/internal/` unless they say otherwise.

- [Inventory](#1-inventory)
- [Modules and how they correspond to the code](#2-modules-and-how-they-correspond-to-the-code)
- [Runs](#3-runs)
- [Fairness](#4-fairness)
- [Proofs](#5-proofs)
- [Where code and documentation disagree](#6-where-code-and-documentation-disagree)
- [Properties that do not hold](#7-properties-that-do-not-hold)
- [What is abstracted](#8-what-is-abstracted)
- [Not modelled](#9-not-modelled)
- [Plan](#10-plan)
- [Running it](#11-running-it)

## 1. Inventory

### The parts that carry the program's logic

| Part | State | Operations | Hard because |
| --- | --- | --- | --- |
| File mutation queue, `tool/mutation_queue.go`, `tool/registry.go` | pending reservations in registration order, a channel per reservation | prepare, admit, try to admit, execute, release | waiters are woken one by one, contexts are canceled at any moment, paths overlap through directories and symbolic links |
| Tool batch executor, `assistant/tool_executor.go`, `assistant/tool_detach.go` | one goroutine per call, semaphore of four slots, attachments of durable calls | admit in source order, take a slot, execute, attach to a task, detach, cancel, finalize | three orders meet: source order, slot order and queue order; detach races completion and cancellation |
| Task store, `database/task_repository.go`, `database/tool_task_repository.go` | one row per task with state and lease, one outcome per tool task | create, claim, renew, transition, finish, recover | several processes share the table; only conditional UPDATEs keep them apart |
| Task runtime, `taskruntime/service.go` with the handler in `tooltask/service.go` | poller, semaphore, active runs with their contexts, heartbeats | start, list, dispatch, claim, register, run, settle, recover, cancel, shut down | crash between any two transactions, leases that expire under a live worker, cancels that race registration and settlement |
| Session operation coordinator, `assistant/session_operations.go` | a slot per session with reference count and token | acquire, give up, release | a slot is deleted by the last to leave while another arrives |
| Steering inbox, `assistant/steering_inbox.go` | a registry of inboxes, each bounded and closable | register, accept, drain, settle, restore, close | a message is accepted under another lock than the one it was looked up with |
| Prompt runtime, `assistant/runtime.go`, `round_persistence.go`, `runtime_model.go`, `context_overflow_compaction.go` | lineage, pending rounds, attempt, replay state | prompt, rounds, checkpoints, retry, overflow recovery, answer or failure | messages arrive while rounds are made durable one transaction at a time; a failed attempt is retried |
| Agent task service, `agenttask/service.go` | bounded queue, session slots, subscriptions, leases | submit, run, cancel, await, recover, shut down | the row is durable before the queue accepts it; retried renewals; sources of cancellation |
| Workflow service and dispatcher, `workflow/`, `database/workflow_repository.go` | runs, children, leases | submit, execute, resume, cancel a tree, recover | a child is admitted while its tree is canceled; a crashed run keeps its lease |
| Completion delivery, `database/completion_repository.go` | projected completions per session, quotas | project, consume, repair | one transaction ends a task and projects it, unless a quota drops it |
| Progress writer, `taskprogress/writer.go` | batched drafts under a lease | write, flush, close | a canceled flush puts its drafts back |
| Event publication and watches, `agenttask/service.go`, `terminal/agent_tasks.go` | bounded channels per subscriber | publish, subscribe, await, watch, replay | a full channel drops events; a watch joins the log and the live stream |
| Waiters of tool tasks, `tooltask/service.go` | a channel per waiter, a lock per invocation, completions | start, wait, notify, subscribe | locks are made and removed on demand; a task ends between a read and a select |
| SQLite transactions, `database/transaction.go` | pooled connections | attempt, commit, roll back, retry, discard | the callback runs again; every statement, the rollback included, may fail |
| Session store, `database/session_*.go` | a tree of entries per session | append, compact, delete a branch or a session, build a context, page | readers page while entries come and go; compactions are conditional |
| Partial progress, `assistant/runtime_persist.go` | streamed blocks, pending tools, completed rounds | record, commit a round, reset, write a failure | a failure may come between any two writes |
| Compaction, `compaction/`, `contextwindow/`, `assistant/context_*.go` | a plan, a summary, a checkpoint | plan, cut, request, reduce, repair, validate | plans chain over summaries; cuts fall inside turns; budgets interact |
| Provider clients, `provider/` | the request's history, a stream, tool calls in pieces | send, read, dispatch tools, checkpoint, retry | three protocols end a stream in different ways |
| Script worker, `executeworker/`, `workflow/workflow.go`, `workflowprogress/` | pipe, callbacks, links, progress sequence | evaluate, call, answer, progress, cancel, settle | two processes, bounded callbacks, an evaluation that is repeated after a crash |
| Extensions, `extension/` | registrations, timers, one Lua state per extension | load, dispatch, register, time, merge | callbacks change what is being dispatched; two threads enter |
| Terminal, `terminal/`, `tui/` | prompt queues, views, followed work, text box, lists | submit, steer, cancel, switch, refresh, edit, scroll | answers come back after the user has moved on |
| Credentials, `auth/` | `auth.json`, its cache, a callback port | save, refresh, log in, log out, reload | refreshes overlap; the process may die in a write |
| Model catalog, `model/` | the discovery cache and its tag | refresh, write, merge | two files, no transaction |
| Tools, `tool/` | a file, an output buffer, an ignore cache | edit, run, read, grep, find | offsets, limits and pages |

They interact as follows.  The prompt runtime takes a session from the coordinator,
opens an inbox and calls a provider client; the client hands each batch of tool
calls to the executor; calls reserve paths in the one mutation queue of the process;
calls that can be rebuilt from their arguments become rows of the task store, which
the task runtime of some process claims and runs, reserving in the same queue of
that process.  Agents started by a run are tasks too and prompt sessions of their
own; workflows start trees of agents; when a task ends its completion is projected
for the session that owns it.  The terminal steers, cancels, detaches, and writes
entries of its own.

### The properties that make each part correct

- **Mutation queue**: overlapping mutations exclude each other; a waiter is woken
  exactly when nothing earlier is in its way; nothing stays reserved.
- **Batch executor**: the model's order of overlapping mutations is kept; every
  batch returns; a detach that was granted is final.
- **Task store and runtime**: a tool runs at most once, under one worker; a task
  ends once and is not reported successful without a result; a cancel reaches the
  handler; a task whose process died is ended by another.
- **Coordinator and prompt runtime**: one operation per session; no turn drops out
  of the conversation; every operation ends.
- **Steering**: an accepted message is consumed or returned, once and in order;
  nothing is shown to the provider before what precedes it is durable.
- **Agent tasks and workflows**: a submitted task is on its way to a worker and
  settles; slots and attempts are accounted for; a canceled tree misses no child and
  gains none; a queued run starts and a claimed one ends.
- **Events, waiters and completions**: the end of a task reaches whoever sleeps for
  it; drafts and deliveries arrive once and in order.
- **Session, compaction, provider**: every message is replayed or summarized, never
  both; requests are well formed; no tool runs on part of its arguments; a failed
  prompt leaves a result for every call.
- **Scripts and extensions**: an evaluation leaves nothing running; every call gets
  its own child; timers neither vanish nor come back; an event sees what the last
  one left.
- **Terminal**: a draft is in one place; what streams is shown where it belongs;
  the end of background work is told once.
- **Credentials and catalog**: a token is durable before it is used; a tag never
  vouches for older content.
- **Tools and text**: edits are made at once and nowhere else; an output that is
  cut says so; the cursor stays in its box.

All components, modelled or not, are listed in `PROJECT.json` with what is covered.
The hazards of the code, each at its line, are in the same file, with the properties
that cover them.

## 2. Modules and how they correspond to the code

```
FileMutationLocks ┬─ PreparedCalls, ExecuteWorker ── ForegroundProofs
                  ├─ ToolBatch ────── ToolBatchProofs
                  └─ FileMutationLocksProofs (lemmas both of them use)
TaskStore ┬─ ToolTasks ── TaskRuntime ── TaskRuntimeProofs
          │                   └ refines TaskLifecycle
          └─ AgentTasks ── Workflows ── DurableWork ── DurableWorkProofs
SessionOperations ┐
SteeringInboxes   ┴─ PromptRuns ── PromptRunsProofs
ToolWaits, Transactions, TerminalRefresh, ExtensionHost ── ServicesProofs
MCServices ── PartsProofs

one component each, over its own state:
  AgentEvents  ToolWaits  Completions  Transactions  SessionTree
  PartialProgress  CompactionPlans  ProviderRounds
  WorkflowScripts  ExtensionHost
  TerminalPrompts  TerminalRefresh  TextInput
  Credentials  ModelCatalog  FileEdits  ToolOutput  FileSearch
```

Definitions keep the names of the Go functions where TLA+ allows it.  Everything
that happens under one mutex or in one transaction is one operator, and one step of
whoever calls it.  An event loop's handlers are one step each.  Operators named
"Mutation" in their comment are not part of the model: each is a plausible mistake in
the definition that follows it, and breaking a property with it shows that the
property depends on that code.  Variables named "history" or explained so serve
properties only.

### Tool calls, tasks and prompts

**FileMutationLocks** is `fileMutationLocks`.  A path is a sequence of components;
what `EvalSymlinks` answers is a constant, so `canonicalMutationPath` resolves the
longest existing ancestor as the code does.  `reservations` is the queue, `ready`
the reservations whose channel is closed.  `reserve`, `tryReserve`, `refuse` and
`remove` are the critical sections of `reserveMode` and `remove`.

**PreparedCalls** is `tool.PreparedCall` around it: `Admit`, `TryAdmit`, `Release`
and `Execute`, whose two checks of the context and whose select are the separate
steps `Execute`, `Proceed` and `Abort`.  A worker prepares calls again and again, so
reservations come and go for ever.

**ToolBatch** is one batch.  `input` is what `prepareProviderToolCalls` made of it:
for each call its path, whether it reserves at admission (calls of an agent's
registry do, the wrapped calls of the top level reserve when they execute), whether
it is run as a durable task, and whether it forces source order.  `pc` is the
goroutine of each call; `attachment` and `task` are the foreground attachment and
the durable task behind it; calls and tasks share the mutation queue.  The loop of
`releasePreparedToolCalls` gives back one reservation per step (`ReleaseRemaining`), and
the batch returns (`ReturnBatch`) when none of its calls is in the queue any more.

**TaskStore** has one operator per transaction of the tasks table: the WHERE clause
as a guard, the row it leaves.  A lease is an owner and whether it is still live;
`Expire` may end it at any moment, so no result depends on the speed of clocks.
**ToolTasks** adds the outcome that is committed with the row, including the
override by a durable cancellation.  **TaskRuntime** is the processes.  An owner is
one start of a process, as in the code, where a restart makes a new lease owner.
`run[p][t]` is the goroutine that claimed a task: `claimed` (after the UPDATE),
`registered` (its context is in `active`), `running` (the handler), `returned`,
`decided` (after `confirmCanceling`), `settling` (past the fence).  Every repository
call may fail when `StoreFails` is set.  **TaskLifecycle** is the abstract
specification: what a reader of the table may rely on.

**SessionOperations** is the coordinator; a slot is named by the operation that made
it.  **SteeringInboxes** is the registry and its inboxes, named by their runs.
**PromptRuns** composes them with the life of `Runtime.Prompt`: `Acquire`, `Enter`,
`ResolveParent`, `AppendUserEntry`, `Register`; then a slash command, a cached
response or a request; then rounds.  `TextRound` and `ToolRound` are a provider
round up to the drain of its checkpoint, `PersistPendingRound` and
`PersistSteeringDraft` the writes of the checkpoint, one transaction each, and each
may fail.  `RetryRequest`, `RecoverOverflow`, `Complete`, `PersistAnswer`,
`PersistFailure`, `CloseRegistration`, `ReturnSteering`, `EndTurn`, `Release` and
`Leave` are the rest.  `LookUpInbox` and `AcceptSteer` are `Runtime.Steer`;
`CompactSession` is a manual compaction; `SaveAgentCompletion`, `ReadLeaf` and
`AppendSessionInfo` are the entries that the terminal writes without the slot.

An entry of a session is abstracted to the set of operations that have entries on
its branch.  That is enough to say whether a run continues everything stored before
it, and small enough to check.

### Durable work

**AgentTasks** is `agenttask.Service` over the tasks table.  A submission is a row
(`SubmitAgentTask`) and then a queue entry (`enqueueCreated`, which may find the queue
full, the service stopping or the context canceled and then ends the row).  A worker
goes through `take`, the session slot, the attempt budget, the claim, the registration
of its cancel function, the re-read, the prompt attempts and `finalizeRun`, whose read
and finish are two steps.  `renewLease` retries up to its deadline.  A restart is a new
owner; a crash loses queue, timers, slots and workers.  A claim or a rejection that
fails leaves the row queued and nowhere (`stranded`) until the next start.

**Workflows** is `workflow.Service`, its dispatcher and `runHost` in a process: submit,
poll (`enqueueQueued`), claim, `agent` (the transaction that creates and links a child
behind the admission fence), the cascade of `CancelOwned`, `wait`, the settling of what
a script leaves behind, `finish`, recovery.  Each call of the host about a child may
fail, which fails the run and goes on with the next child.  **DurableWork** puts both in one process
that stops, crashes and is started again, and states the properties that need both.

**AgentEvents** is the progress writer with its fenced append, and publication to the
subscriptions behind `Await`; its second half, the watch, is the terminal's side:
subscribe, replay the log page by page, then forward live events and fill gaps.
**ToolWaits** is
`tooltask`: the lock per invocation in `Start`, the channel per waiter in `Wait`, and
the completions that subscribers get after the settlement.  **Completions** is the
delivery of terminal tasks into the entries of a session: projection with its
eligibility and quotas in the transaction that ends a task, `Pending`, `Consume`,
`Repair`.  **Transactions** is `transactionValue` over a pool: attempts, busy errors,
failing commits and rollbacks, panics, and what becomes of the connection and of the
transaction that may still be open on it.

### Sessions, compaction and providers

**SessionTree** is the entries of a session: appends under any parent, conditional
compactions, deletions of branches and sessions, `BuildContext`, the tree of the panel
and a reader that pages the transcript.  **PartialProgress** is what a failing prompt
writes: blocks, pending tools, rounds already durable, retries.  **CompactionPlans** is
`PlanBranch` and `PlanBranchFromFirstKept` on a growing branch: cut points, split turns,
summaries that chain, and the records of work and files; and how the summary is
obtained: budgets, chunks, reduction after a truncated answer, repair
and validation of the checkpoint.  **ProviderRounds** is the three streaming clients:
what a stream may bring piece by piece, how each protocol may end it, which calls are
run, what the next request contains, when a request is sent again.

### Scripts and extensions

**ExecuteWorker** is a script's worker process and its parent: bounded pipes of frames,
the guest's `Parallel`, callbacks in goroutines with slots and a total limit, progress
in the reader, cancellation from either side, the end of both processes.
**WorkflowScripts** is the host's answers: children launched, found again by their
links, awaited, canceled and settled; and the validation and numbering of what scripts
announce.  **ExtensionHost** is the manager: loading, registration, dispatch by
priority from snapshots, timers, the active event, and two threads that enter the Lua
states under their locks, what a callback does being nondeterministic; and what
callbacks see and leave of buffers, windows and layout, and the merge of lifecycle
results.

### Terminal, files and stores

**TerminalPrompts** is the event loop: drafts, the two prompt queues, steering,
cancels, compaction, inspected agent sessions and the events goroutines post.  All of
the loop's state is the record `app`; handlers map one to the next.
**TerminalRefresh** is the background refresh, whose snapshot may be stale when it is
applied, and what is told of tasks and runs.  **TextInput** is the text area and lists
of `tui`.  **Credentials** is `auth.json` behind its lock, its cache, refreshes, logins
and logout.  **ModelCatalog** is the discovery cache of two files and the merge.
**FileEdits**, **ToolOutput** and **FileSearch** are the edit tool, the output of bash
and read, and grep, find and the ignore cache.

## 3. Runs

A run of several instances has a constant variable `part` that is chosen in the initial
state; each part moves the variables of its own module and leaves the others as they
are.  The state spaces are disjoint, so such a run checks exactly what separate runs
would, and its invariants hold of all of them at once.

| Run | Instances | States | Properties |
| --- | --- | --- | --- |
| `foreground` | three calls on a directory, a path below it through a symbolic link and an unreadable path; a worker process with two items, two at a time, one callback slot, a limit of two callbacks | 151 000 | `MutualExclusion`, `QueueSound`, `EvaluationContained`, `EveryWaiterLeaves`, `EvaluationReturns` |
| `tool_batch` | batches of three calls on a directory and two files, in process, in source order or durable, crowded or not, canceled or not; two slots | 102 000 | `BatchSound`, `InProcessOrder`, `DetachIsFinal`, `BatchReturns` |
| `tool_batch_deadlock` | three durable calls on one directory, two slots | – | `BatchCompletes` is violated (section 6) |
| `task_runtime` | two processes that share a tool task, with a store that fails; one process with two tool tasks, one of them canceled while it runs, and one of an unknown kind; the terminal that follows two agents and a workflow run | 1 280 000 | `AtMostOnce`, `RunsSound`, `CancelReachesHandler`, `FollowedWork`, `ImplementsLifecycle` |
| `task_runtime_live` | two processes, one worker each, one task | 43 000 | `EveryTaskEnds` |
| `prompt_runs` | a prompt, a slash command and a manual compaction on one session | 55 000 | `SessionsSound`, `LineageUnbroken`, `EveryOperationEnds` |
| `prompt_steering` | a prompt and a slash command, two messages, an inbox of one place, and a second turn or one terminal entry; the terminal with two drafts, two prompts and one inspected session | 1 010 000 | `SteersInOrder`, `CheckpointsSound`, `DraftsConserved`, `ViewsSound` |
| `prompt_lineage` | two prompts, one terminal entry | – | `LineageUnbroken` is violated (section 6) |
| `durable_work` | two agent tasks of one session on two workers, a queue of one; one workflow run with one child, which a worker runs; in both a call of the store that fails, cancels, crashes, one restart | 1 055 000 | `AgentsAccounted`, `CancelReachesRun`, `TreeSettles`, `ClosedAdmitsNothing` |
| `durable_work_live` | two workflow runs, one of them with a child, one host, queues of one, no failing store | 68 000 | `WorkSettles` |
| `workflow_recovery` | one run, two processes in turn | – | `RecoveryEndsRuns` is violated (section 6) |
| `services` | 24 parts, below | 824 000 | below |

A property that a run checks is often the conjunction of named parts, each with its own
comment in its module; the conjunction says what a reader of the component relies on.

| Property | Module | Parts |
| --- | --- | --- |
| `QueueSound` | PreparedCalls | `TypeOK`, `ReadyIffUnblocked`, `NoLeakedReservation` |
| `EvaluationContained` | ExecuteWorker | `NoCallbackOutlivesEval`, `CallbackSlots`, `RequestsInFlight`, `SequenceBreaksOnlyAfterRefusal` |
| `EvaluationReturns` | ExecuteWorker | `AdmissionCloses`, `EvalReturns` |
| `BatchSound` | ToolBatch | `TypeOK`, `ExclusiveMutation`, `NoReservationOutlivesBatch` |
| `BatchReturns` | ToolBatch | `UncrowdedBatchCompletes`, `CancelUnblocks` |
| `RunsSound` | TaskRuntime | `TypeOK`, `OneWorkerPerTask`, `SuccessMeansResult` |
| `FollowedWork` | TerminalRefresh | `RefreshSlot`, `FollowsItsSession`, `ToldOnce`, `NothingForgotten` |
| `SessionsSound` | PromptRuns | `OneOperationPerSession`, `SessionLeftClean` |
| `CheckpointsSound` | PromptRuns | `TypeOK`, `ExposedIsDurable` |
| `ViewsSound` | TerminalPrompts | `ShownWhereItBelongs`, `ActiveEnds`, `IndicatorHasOwner` |
| `AgentsAccounted` | AgentTasks | `AgentTypeOK`, `SlotsAccounted`, `OneWorkerPerTask`, `QueuedIsTracked`, `AttemptsBudgeted` |
| `TreeSettles` | Workflows | `NoChildOutlivesRun`, `RefusedOnlyAfterFailure` |
| `WorkSettles` | DurableWork | `QueuedSettles`, `QueuedRunStarts`, `ClaimedRunEnds` |

Parts of `services`:

| Part | Bounds | Property: its parts |
| --- | --- | --- |
| AgentEvents | three drafts, batches of two, subscriptions of one place | `EventsDelivered`: `DraftsInOrder`, `CloseLosesNothing`, `EndReachesAwait` |
| ToolWaits | three starters, one waiter | `WaitersServed`: `StartedOnce`, `NoLostWakeup`, `WaitersRemoved`, `PublishedIsSettled` |
| Completions | four tasks of two sessions, two rows per session and in all, pages of two, two readers | `DeliveredOnce`: `DeliveredInSequence`, `ConsumedAsRead`, `PendingBounded` |
| Transactions | a writer and a reader, two connections, two attempts, one canceled context | `CommitsHonest`: `ReturnedIsCommitted`, `NoPoisonedConnection`, `LeftOpenFailed` |
| SessionTree | three entries of four kinds, two compaction operations, pages of one | `TreeSound`: `TreeShowsAll`, `TreeIsStable`, `ContextFollowsCompaction`, `CompactedOnce`, `PagesComplete` |
| AgentEvents, the watch | four events, pages of two, a channel of one place | `EventsDelivered`: `ForwardsTheLog`, `StopIsAnnounced` |
| PartialProgress | three tool calls, two texts, two attempts | `TurnSound`: `ToolsAnswered`, `NothingStoredTwice` |
| ProviderRounds | two rounds of two blocks, one steering message, two sends, each of the three APIs | `TurnSound`: `CallsAnswered`, `RolesAlternate`, `WholeCallsRun`, `NothingFromBrokenStream`, `ShownIsStored`, `HistoryOnlyGrows`, `NoRetryAfterTools` |
| CompactionPlans | branches of up to six entries, two tool results, one file, two windows | `SummariesTellAll`: `TailKept`, `SummaryPlusTail`, `CountsWhatIsReplayed`, `ActiveWorkRemembered` |
| CompactionPlans, the summary | histories of up to four messages of three sizes, answers of two sizes | `SummariesTellAll`: `ToldInOrder`, `ReductionIsOneRound`, `CheckpointContract` |
| Credentials | one caller, one login, one key, logout, reload; two grants, one of which expires; three of these jobs at work | `StoredSound`: `FileIsWhole`, `OtherProvidersKept`, `RefreshedIsSaved` |
| ModelCatalog | three catalogs | `StoredSound`: `UnmodifiedIsCurrent`, `MergedModels` |
| ExtensionHost, dispatch and events | two extensions, three registrations; one event after another | `ExtensionsSound`: `IntervalsKept`, `StoppedStaysStopped`, `OnlyItsCallbacksWrite`, `RunsByPriority`; `BuffersAsSeen`, `WindowsAsSeen`, `LifecycleMerged` |
| WorkflowScripts, calls and progress | two callbacks of an evaluation that is repeated; one emitter with a refusing sink | `ScriptsSound`: `OneChildPerCall`, `LaunchesInOrder`, `LaunchedAreSettled`; `WatchersCanFollow`, `JudgedAsSeen` |
| FileEdits | files of up to three characters from an alphabet with blanks, line feeds and returns | `FilesSound`: `EditsAtOnce`, `RestOfFileKept`, `NoGuessedPlace` |
| ToolOutput, FileSearch | seven bytes and limits of two lines and three bytes; files of four lines; two walkers | `FilesSound`: `BufferIsTail`, `TailShown`, `PagesWholeFile`; `GrepComplete`, `FindBounded`, `IgnoreFresh` |
| TextInput | texts of three runes of width zero to two, boxes of two sizes; lists of a few items | `InputSound`: `WrapKeepsText`, `CursorInBox`, `EditsAtCursor`, `SelectionShown` |

### Why the bounds are enough

- *Three calls* is the least number for which an order can go wrong that two cannot
  show: a call between two others that conflicts with both, with one, or with none,
  and a waiter behind a waiter.
- *Two slots for three calls* scales `maxConcurrentProviderTools` (4): the batch has
  one more call than slots.  `MaxCalls` scales `maxProviderToolsPerTurn`; one batch
  exceeds it.  Likewise one callback slot, queues, channels and pages of one or two
  places: each can be full with one more waiting.
- *Two processes and one task* have every race of the store: claim against claim,
  settlement against recovery, cancel against both; a process that dies leaves
  another.  Two workers let one process dispatch the same task twice.  *Two tasks
  and an unknown one* have the races for the semaphore and a recovery that ends
  several tasks at once.
- *Three operations on one session* are a holder, one that awaits the slot and one
  that finds the slot deleted or makes a new one.  Several sessions do not interact,
  except through the coordinator's map, which the proofs cover for any number.
- *An inbox of one place and two messages* fill the inbox, so refusal and a restore
  that does not fit both happen.  Two attempts allow one retry.  One tool round per
  request, before or after a text round, is enough for every checkpoint to be the
  first, a middle one or the last.
- *One failing call* (`MaxFaults = 1`) is one step of several that fails; in
  `durable_work` it is a call about an agent task in one instance and a rejection or a
  call of a run's host in the other.  There `Limited` leaves out what the other instances
  show: a second shutdown, submissions of the two tasks at a time and, after the restart,
  two workers at once and a user's cancel of a task at work.
- *A child and a run*: every race of a cascade is between the run and one child; with
  two agent tasks there is one that waits for a slot, a queue place or a worker.
- *Branches of six entries* hold two compactions with a split turn between them;
  *two grants* are a token and the one it is refreshed to; *three starters* are one
  that holds the lock of an invocation, one that waits for it and one that finds it
  removed.
- Bounds of this kind that the code does not have are named as constants of the module
  (`MaxEntries`, `MaxBranch`, `MaxTyped`, ...); the others are scaled constants of the
  code.

`SYMMETRY` is used only in runs without liveness, on messages (`prompt_steering`) and on
owners, workers and two like tasks (`durable_work`), which no operator orders.  Deadlock
is checked where every behaviour can go on or ends in a stutter (`tool_batch`,
`prompt_runs`, `task_runtime_live`); in the runs made of parts a part may stop: an
evaluation has returned, a bound on drafts, entries or restarts is used up.

## 4. Fairness

Goroutines that can take a step take it, and tools, providers and the store return:
weak fairness of each goroutine's steps.  Beyond that:

- `PreparedCalls`: a caller that holds a reservation executes or releases it, which
  the batch's deferred release guarantees.
- `ToolBatch`: every call's goroutine, the admission loop and a durable task proceed;
  nobody need cancel or detach.
- `TaskRuntime`: weak fairness of `LeaseExpires`, since time passes and a dead
  process does not renew; strong fairness of `DispatchTask`, since `TryAdmit` refuses
  a task only while calls that end hold its path.  `EveryTaskEnds` assumes that some
  process stays up from some time on, nothing more.
- `PromptRuns`: strong fairness of `Enter`, because the Go runtime serves the
  blocked senders of a channel in turn.
- `DurableWork`: `LiveSpec` (`MCLiveSpec` in the run) is a process that stays up and
  keeps its leases, over a store that answers (`MaxFaults = 0`): a row whose claim or
  rejection failed waits for a restart.  Strong fairness of the sends on the bounded
  queues, which the Go runtime serves in turn, of the requeue timer, of the dispatcher's ticker, and of the end of a script.
- `ExecuteWorker`: both processes' goroutines proceed and a killed process ends; a tool
  that a callback runs ends once its context is canceled; nothing obliges a script to
  end, so `EvalReturns` rests on the timeout of the evaluation.

`foreground` states each part's fairness on condition of the part.  Nothing obliges a
user to prompt, steer, detach or cancel, a context to be canceled, a heartbeat to be in
time, or a process to survive.

## 5. Proofs

The theorems hold for any number of calls, tasks, processes, workers, operations,
sessions, messages, runs and hosts, any paths and symbolic links, and any bounds on
queues, slots, attempts and faults.  They use only the named `ASSUME`s of the modules,
which are types of constants, null values that are not members of the set they stand
beside (`NoTask` is no task, `NoOwner` no owner, no login is called "logout"), callers
of one kind that are not of the other (`Transactions`: a write is not a read) and the
finiteness of the set of operations; TLC evaluates them in the runs.

**FileMutationLocksProofs** has the lemmas about the queue that the next two modules
share: what deleting one element of a sequence leaves (`RemoveAtProperties`), that
conflict is symmetric, that a reservation joins a sound queue (`ReserveStep`) and that
one which leaves wakes exactly those that nothing blocks any more (`RemoveStep`).

**ForegroundProofs**, calls (`Exclusion`; `TypeCorrect`, `NoLostWakeup`, `NoLeak`, and from
them `QueueIsSound`).
`MutualExclusion` says nothing of calls that wait, so it is not inductive.  The
inductive invariant adds that the queue holds exactly the calls with a reservation,
once each, that a reservation is ready exactly when nothing earlier conflicts, and
that a mutating call was made ready.  Two mutating calls are both in the queue, the
later one is unblocked, so they do not conflict.

**ToolBatchProofs** (`BatchExclusive`, `SourceOrderKept`, `DetachFinal`).  Here one queue
serves calls and the tasks behind them.  The invariant `IInv` says where a call, its
attachment and its task can be together (`CallOK`); who must have a reservation and
that it is for the right path and ready if its holder mutates (`ReservationOK`); that
nobody else is in the queue (`QueueOwned`); that a returned batch has given everything
back (`ReturnedOK`); and, for batches that reserve at admission and stay in the
process, that the queue is in source order (`QueueInSourceOrder`).  Exclusion follows as
above.  Source order follows because an earlier conflicting call that is not over has
a reservation in front of the later one, which then cannot be ready.  `DetachIsFinal` is
an action property: no step resolves an attachment that is detached, and the only
steps that cancel a task require that it is not.

**TaskRuntimeProofs** (`RunsAtMostOnce`, `CancelReaches`, `Implements`; `TypeCorrect`,
`ExclusiveWorker`, `SuccessHasResult`, and from them `RunsAreSound`).  The invariant says what each row
(`TaskSound`) and each goroutine (`RunSound`) may look like.  Its heart: a goroutine
between claim and settlement is alone on a task that has left the queue; no task
returns to the queue; so a handler that is about to be started was never started
before.  The refinement needs one fact more: a goroutine that wants to record
`canceled` works on a task that was asked to stop or has ended.  Initial states map
to initial states, and every step maps to a step of `TaskLifecycle` or a stutter.

**PromptRunsProofs** (`OneAtATime`, `LeftClean`, and from them `SessionsAreSound`;
`UnbrokenUnderSlot`).  `SlotSound`
says that whoever holds or awaits a session is counted by the session's current slot
(`Captured`), that the count is the number of users (`Counted`), that a slot belongs
to one session and has users (`SlotOwned`), and that the holders of a slot share its
one token (`TokenHeld`).  The count is what makes deletion safe: the last reference
is the caller's own.  From exclusion follow two things about other parts: the
registry names only runs between registration and close, so a run never finds
another's inbox (`LeftClean`); and if the terminal writes no entries of its own
(`Notices = {}`), every run continues all that is stored (`UnbrokenUnderSlot`).  With
such entries the lineage does break, as `prompt_lineage` shows: the coordinator is
sound, and the writes that go around it are the cause.

Its second part (`SteersKeepOrder`, `ShownIsDurable`; `SteeringInvariance`) goes on from
there.  `SteersInOrder` counts the messages of a run over what it keeps, what it has in
hand, what it lost, its inbox and what it gave back.  The inductive invariant
`SteerInv` says of each run (`RunSound`) that these are, in this order, the accepted
messages (`OrderOf`); which of them may be in use where the run is (`Staged`: a message
is in hand only during a checkpoint, something is lost only after a failed one); that
the conversation of the attempt is the end of what is stored and of the rounds still to
be stored (`Mirrored`); and that a request which found an inbox finds it open or closed
for good (`FoundOpen`), so that nothing is appended to an inbox that has been given
back.  The last needs exclusion: two runs of a session would
swap inboxes.  `ShownIsDurable` follows from `Mirrored`: when a request is made no round
is pending, so what it shows is the end of what is stored.

**DurableWorkProofs** (`CancelsReachRuns`, `AgentsStayAccounted`, `TreesSettle`,
`ClosedRunsGainNothing`; `DurableInvariance`) is about agent tasks and workflow runs
together, in a process that stops, crashes and starts again.  None of the properties is
inductive alone, and they lean on each other, so there is one invariant, `DurInv`:

| Part | Says | Needed because |
| --- | --- | --- |
| `DurTyped`, `ProcessSound` | types; the dispatcher runs only in a process that lives and has a lease owner | a start of the agent service finds no child being submitted |
| `RowsSound` | a queued row has no lease, a run at work has one | a rejected submission can fail its row; a leased run is not ended by the cascade |
| `LinksSound` | runs that have not started have no children; a linked child is durable; a run that ended has no child at work | the cascade moves no queued run to canceling |
| `WorkersSound` | a worker past its claim is alone on a row that left the queue; idle workers and callers hold nothing | a claim cannot meet another run of its task |
| `AttemptsSound` | an attempt reserved and not completed is the one that is prompted, or its run is over | the budget is spent before the model is called |
| `SlotsSound` | the slots of a key count the workers inside run for it | every way out gives its slot back |
| `QueuedIsTracked` | a queued row is in the queue, a timer, the backlog, a submission or with a worker, or its claim or rejection failed | rows are durable before they are queued |
| `CancelReachesRun` | a run asked to stop is signalled or about to be | registration comes before the re-read |
| `PlacesSound` | a task that is absent or being submitted by a script is with no worker and in no queue; a rejected child has ended unless its rejection failed | what a host was not told of is not at work |
| `HostsSound` | a run has one host, which knows every child of it and has seen the end of those it put aside, or saw a call about one of them fail | only then is a refused outcome the fault of a call that failed |

The proof does not go action by action through all of this.  `RowsStep` shows once that
every step of anybody moves a row along its life (`Follows`): a new agent row is in a
submission, a claim is made by the worker that took the slot, a running agent task is
asked to stop by a caller that goes on to signal it or by the cascade of its run.
`AgentSteps` and `WorkflowSteps` reduce any step to what it does to either service.  Then
each part has one lemma (`WorkersStep`, `SlotsStep`, `HostsStep`, ...), which treats the
actions that touch it and dismisses the others together.  `TreesSettle` rests on
`RunEnds`: a run is ended by the cascade only if it has no links, and by `FinishOwned`
only without active children, and nothing adds a child in the same transaction.

**ServicesProofs** (`CommitsAreHonest`, `WaitersAreServed`, `WorkIsFollowed`,
`ExtensionsAreSound`) holds components that run by themselves, each over its own variables.  `TxInv`: a connection is idle or of one
caller, only a reader's own may be marked (`ConnsSound`); what an attempt applied is
there exactly while nothing was said against it (`AppliedSound`), so the verdict after
cleanup agrees with the database; BEGIN needs a connection with nothing open, so what a
COMMIT applies is what its own attempt began, and what stays open anywhere is of an
earlier attempt or of one that failed (`OpenSound`).  `WaitInv`: a lock of the map is the one its users
refer to and its count is their number, hence one starter is inside (`LockSound`); a
task is admitted once (`AdmittedOnce`); the row has ended when a settlement is
remembered (`EndSound`); from these `NoLostWakeup` and `WaitersRemoved` are inductive.

`RefreshInv` is about the terminal's background refresh, whose worker reads rows one after
the other while they change, the user submits work and sessions are switched.  It says
what old knowledge is still good for: a run that was read as canceled or gone still is,
and a task that is followed has a row (`RecordsSound`); a look-up that succeeded found
every run it was asked for, and it was asked for all that were submitted before it began
(`LookupsSound`).  With one worker of the generation in flight (`OneRefresh`), nothing
read for an empty session (`OtherIsEmpty`) and the delivered set equal to what was told
(`DeliveredIsTold`), `Remembered` is inductive: what `applyTerminalRefresh` drops was
told, canceled, gone or late.  The invariant is stated of any terminal state, worker set
and rows, so that the lemmas are about the handlers' operators and the steps apply them.

`ExtensionsAreSound` joins the two halves of `ExtensionHost`, which share no variable.
`HostInv` is about dispatches.  What the terminal took from the timers is in its queue
once and no longer scheduled, an order number names one timer wherever it is, and a timer
that was stopped while it waited is remembered as canceled (`QueueHolds`); so the two
looks of `runTimer` neither run it again nor drop one that repeats.  A thread inside a
callback holds the lock of the extension, and an extension has an active event only while
the terminal holds it (`LocksHold`): that is why an assistant run's callback finds none.
`RanHolds` says that whatever has run of an event runs before whatever is still in its
snapshot.  It rests on `handlersFor` giving an order at all, for any finite table
(`HandlersForIs`): a dispatch is the members of the table by their rank (`OrderExists`).
`ExtensionInv` is about events: an open one was shown what the terminal still shows, and
differs from it in the names it has marked only (`EventHolds`, `KeptFrom`), unless a
layout was set, which replaces all windows.  For a lifecycle result, the merge so far is
compared with the tables that were returned; appending one changes the last index that
gave a field, or empties them all (`MergedStep`).

**PartsProofs** (`StoredIsSound`, `EventsAreDelivered`, `ScriptsAreSound`) is about behaviours of `MCServices`,
whose components share nothing.  Its invariant has a part for each component, which
the steps of the others leave alone (`PartsInvariance`).

`StoredIsSound` is about the two components that keep files.  `CredentialsInv`: whoever
reads and replaces `auth.json` holds the lock (`LockHeld`), so the temporary file is the
file with one change (`TempIsNext`); whatever is cached, read or used was renamed into
place once (`KnownIsDurable`).  It assumes that no login has the name of another job.
`CatalogInv`: a tag on disk has content of its catalog, or of a later one, behind it
(`TagVouches`), because the content is written first; a request carries that tag, and
what is then stored is what its answer brought (`RequestSound`).  `MergedModels` is about
a fold.  `MergeIsFold` unrolls it, `NatsByInduction` is induction over a set of numbers,
derived from the well-foundedness of <, and `MergeSound` concludes for any sequence of
models that each is there once, as its last entry describes it.

`EventsAreDelivered`: `LogSound` says that the drafts in the log, in the flush at work and
in the queue, one after the other, are those that were written.  It survives a flush that
is canceled because only one is at work (`FlushesApart`), so what is put back goes in front
of what came since; and the last flush is that of `Close`, after the ticker has stopped.
`EndIsLast`: nothing follows the end of a task, so whoever publishes the latest event
publishes that end.  For the watch, what was shown is the log up to the last event it
handled (`ShownIsHandled`), for a page as for a live event.

`ScriptsAreSound`: a call that holds `launchMu` has the last index of its node key, and
whatever link of that index exists is one an earlier evaluation left (`LaunchHeld`), so a
call that finds no persisted link makes the only child of its index, and makes it last.
A child was called for in this evaluation or its link is still to be read back
(`LinksNameChildren`); one that was given is not read back and not of the call that is
launching (`GivenAreCalled`).  While no error is noted, the host has one pass before it
in which everything that has not ended is still to be canceled (`LeftIsTodo`).  For the
emitter, the event with the sink is valid against what was accepted, because it holds the
lock (`InSinkIsNext`), and a final state once announced is the state still
(`FinalIsKept`).

**ForegroundProofs**, the worker (`EvaluationsContained`, `AdmissionStaysClosed`; `WorkerInvariance`)
is about a worker process and its parent.  `EvaluationContained` is not inductive in two
places.  That no request is lost needs to know whose an answer is: requests that wait have
numbers of their own, none later than the last one given out (`WaitersNumbered`), the
frames, calls and answers carry only such numbers (`FramesNumbered`), and the number of a
call is never that of an event (`CallsAndEventsApart`).  That a broken sequence follows a
refusal needs to know how far apart the counts of the two processes may be
(`CountsAgree`): as long as nothing was refused and the evaluation is not being ended, one
event is on its way at most, it has the number the parent expects, and its emitter still
waits for it; the counts agree when none is.  `ReaderSound` says that the parent's reader
ends only when no callback is left and the process is gone.  For `AdmissionCloses`, the
safety part of `EvaluationReturns`, it is enough that an item which failed has closed
admission in the same step (`FailureStops`).

Only model-checked:

- liveness (`EveryWaiterLeaves`, `EvaluationReturns`, `BatchReturns`, `EveryTaskEnds`,
  `EveryOperationEnds`, `WorkSettles`), which needs ENABLED;
- properties about what folds compute over data, which need an induction like that of
  `MergeSound` for each operator:
  `DeliveredOnce`, where consumed completions are compared with a flattened log, and most
  of `SummariesTellAll`, `FilesSound`, `InputSound`, `TreeSound` and `TurnSound`, whose
  operators cut, wrap, page and merge sequences;
- `DraftsConserved` and `ViewsSound`, for which no invariant was worked out.

## 6. Where code and documentation disagree

1. **A crowded batch waits for itself** (`tool_batch_deadlock`).  Reservations are
   taken in source order before any goroutine runs, slots in any order.  When later
   calls on the same path take all slots first, they hold them while they wait for a
   reservation whose owner waits for a slot.  `docs/runtime-architecture.md:49`
   promises no deadlocks.  Canceling the turn unblocks the batch (`CancelUnblocks`).
2. **An agent's result cuts the conversation** (`prompt_lineage`).  The terminal
   stores it with no parent and without the session's slot; the next prompt takes it
   as the latest entry, and its context starts there.
3. **Recovery does not end a workflow run** (`workflow_recovery`).  A run that was
   executing when its process died keeps its lease owner.  `RecoverInterrupted` finds
   it, but both of its writes ask for a row without an owner: the run stays running for
   ever and can never be resumed.  The comment at `workflow/service.go:296` says that
   the interrupted outcome is published.

Weaker promises that the models state exactly instead: order across durable calls
(`InProcessOrder` leaves them out, since `tool_detach.go:92` gives reservations
back); a canceling task may still end as failed or interrupted (`TaskLifecycle`,
although `tool_task_repository.go:195` calls canceling authoritative), and an agent's
may end as succeeded (`finalizeRun` reads and finishes in two transactions); messages
that do not fit any more after a failed checkpoint are lost (`SteersInOrder`).

## 7. Properties that do not hold

The following definitions state what a document, a comment or a message of the code
says, and no run checks them, because the code does otherwise.  Adding one to the
`INVARIANTS` of a configuration with the constants given reproduces a counterexample.

| Property | Module | Constants | What happens |
| --- | --- | --- | --- |
| `ActiveRunIsSteerable` | PromptRuns | one prompt, one message | the Responses API reports a completed response for a round of function calls, which becomes a stop (`provider/openai_responses.go:334`); the checkpoint takes it for the last round and settles the inbox of a run that goes on; later messages are refused and the next checkpoint fails the run |
| `AnswerSeesSteers` | PromptRuns | one prompt, one message, `MaxAttempts = 2` | after a text round whose checkpoint consumed messages, a retryable error resends the original request (`assistant/runtime_model.go:410`); the overflow recovery checks for this, the retry only for tools |
| `SteeringRestored` | TerminalPrompts | `MayLeave = TRUE` | `/new` while a canceled run still holds steering: the messages are returned to a session that is not shown, and dropped (`src/README.md:175`) |
| `SubmittedSurfaces` | TerminalRefresh | `RetryLimit = 3`, `MaxRefresh = 3` | a run submitted while an older refresh is in flight is not in the request of that refresh, whose valid list then discards it (`terminal/workflow_submission.go:75`) |
| `LatestOutcomeRecorded` | CompactionPlans | `Conversation = {"user"}`, `MaxBranch = 7` | a second compaction keeps the older outcome of a validation command (`compaction/appendices.go:71`) |
| `PartialCallsRefused` | ProviderRounds | as in `services` | an incomplete Responses response that lists no output is not a stop for length once calls were gathered, so the cut call runs (`provider/tool_loop.go:35`) |
| `EndedStreamsOnly` | ProviderRounds | as in `services` | the Responses client misses the last event only if it saw one of a type `response.*` (`provider/openai_responses_sse.go:228`): an empty stream, or one without such events that breaks off, is an answer, and its calls run with the arguments there are |
| `UniqueRegion` | FileEdits | as in `services` | an old text that overlaps itself occurs at several places and is counted once (`tool/edit.go:165`) |
| `CursorWhereTyped` | TextInput | as in `services` | at the edge of a full row the cursor is drawn on another row than the next rune (`tui/textarea.go:205`) |

What was seen besides, without a document that says otherwise:

- *Compaction.*  A history over its budget is reduced only after a truncated answer;
  one that overflows the summary's own request fails, although
  `docs/context-management.md:611` describes a retry with smaller chunks.  The list of
  files read keeps the oldest 64.
- *Extensions.*  A callback that fails drops the timers taken with it; a timer stopped
  by another of its batch still runs once; one failing lifecycle handler discards what
  the others returned; an extension that fails to load unloads all of them.
- *Credentials.*  A refresh that ends after a logout stores the credential again
  (`auth/resolver.go:152`); the lock does not reach other processes.
- *Model catalog.*  Two processes can leave older content under a newer tag, and a
  crash in a write leaves a broken file that counts as fresh.
- *Tools.*  The buffer of bash is as large as what may be shown, so the file that a
  truncated output names holds no more; find, grep and ls are cut at 200 rows with a
  notice that names other limits.
- *Agent tasks.*  A row whose rejection fails is only logged (`agenttask/service.go:822`)
  and one whose claim fails is dropped (`agenttask/service.go:737`): both stay queued,
  with no queue entry, until the next start of the service enqueues them.
- *Workflows.*  A child that the queue refuses is durable, but its script is told
  nothing of it; an evaluation that is repeated takes earlier children by their order
  and does not compare their prompts.  When a Get, Cancel or Await of a child fails
  (`workflow/workflow.go:641`), the child is passed over; while it is at work the run is
  refused its outcome, and its row stays running without a host until its lease is
  recovered.  The same holds when the outcome cannot be stored.
- *Terminal.*  Prompts queued during a login or behind a canceled compaction wait for
  the next key; a session that is shown again may be told an end again.
- *Transactions.*  A connection goes back to the pool also after a ROLLBACK that failed,
  or a COMMIT that failed and after which `Rollback` only says `ErrTxDone`: only a failed
  `query_only=OFF` discards it (`database/transaction.go:339`).  `PoolClean` of
  Transactions says otherwise and is violated with the constants of `services`; until the
  connection is closed a transaction left open refuses every BEGIN on it, and one of a
  writer keeps the others busy.
- *Progress.*  Drafts that `Close` cannot write in its time limit are lost without an
  error; an event the sink refuses advances the parent's sequence but not the worker's.
- *Completions.*  `Repair` can be kept from newer rows by a page of older ones, and has
  no caller outside tests.

## 8. What is abstracted

- A transaction is one step that commits or fails (`Transactions` models how).
  Recovery works in batches of 100 rows; one batch is modelled.
- Time is nondeterministic: a lease, a timeout, a timer or a poll may come at any
  moment.
- Outcomes are `ok`, `error`, the JSON value null, or none.  Messages, prompts, files
  and tokens are numbers or members of small sets; a text is a sequence of characters
  where its characters matter (`FileEdits`, `TextInput`) and a number of bytes or lines
  where only its size does (`ToolOutput`, the summary in `CompactionPlans`).
- In `TaskRuntime`, `TryAdmit` refuses or not; in `ToolBatch` it depends on the queue.
- In `PromptRuns`: prompts with an explicit parent (the user leaves the branch on
  purpose); what a summary says; a round that cannot be marshalled.  A failed checkpoint
  is not a retryable error, as in the code.  A run's history is dropped when it leaves,
  so that it does not multiply states.
- A message names its run: looked up after that run has ended it finds no inbox, or
  the inbox of a later run, which refuses it.
- In `ExtensionHost` and `ExecuteWorker` a callback or a guest does anything its API
  allows; the interpreters are not modelled.
- The providers, the token endpoint, the model source, the file system and the users
  are nondeterministic environments; definitions that stand for them are marked
  external in `PROJECT.json`.

## 9. Not modelled

- *fetch*, *ls*, *write* and image reading: one request or one system call behind
  parsing and limits.
- *Core resources, configuration, wiring, commands*: discovery of files, option parsing
  and dependency injection, without concurrent state.
- *Output schema, wire formats, markdown, rendering, themes, key tables*: pure functions
  over text.
- *OAuth exchanges*: external; what is kept of their answers is in `Credentials`.
- *Clone, fork, search and statistics of sessions*: copies and queries in one
  transaction.
- *The Lua and script interpreters* and the vim-mode script.

## 10. Plan

Done: the mutation queue, the batch executor, the task store and runtime, the prompt
runtime with coordinator and inboxes, and proofs of their main safety properties;
agents, workflows, events, completions and the other components of section 2.

Next:

1. Theorems: `ViewsSound` and `DraftsConserved` for the terminal.
2. An abstract delivery, once and in order, that `Completions` implements; the lifecycle
   of `TaskLifecycle` for agents, with the two-step finish as its weaker variant.
3. The composition of the watch with publication in `AgentEvents`, and of
   `WorkflowScripts` with `ExecuteWorker`.

## 11. Running it

```
tlc -workers 2 -config Foreground.cfg MCForeground
tlc -workers 2 -config Services.cfg MCServices
tlapm TaskRuntimeProofs.tla
```

Each run of `PROJECT.json` names its module and configuration; the longest take about
three to five minutes on two workers, each proof module less than five,
`DurableWorkProofs` and `ServicesProofs` about eight and `PartsProofs` about fourteen.
