# A TLA+ model of the Brio kernel

Brio (`brio-core/`) is a Rust micro-kernel for AI agents: a host process that
runs WebAssembly components, gives them workspaces, a database, language models
and each other, and a supervisor component that plans tasks and hands them to
agents. This directory specifies the parts of it that carry its own logic, checks
them with TLC, and proves the most important results with TLAPS.

Paths are relative to the repository; `kernel/` stands for `brio-core/kernel/src/`,
`supervisor/` for `brio-core/components/supervisor/src/`, `sdk/` for
`brio-core/components/agent-sdk/src/`.

## 1. The system

| Component | State it keeps | Operations | Interacts with | Module |
|---|---|---|---|---|
| Workspace sessions `kernel/vfs/manager`, `vfs/diff`, `vfs/hashing.rs`, `vfs/reflink.rs` | map of live sessions (base, hash of the base at the start); one directory per session | `begin_session`, `commit_session`, `rollback_session`, `cleanup_orphaned_sessions` | host state (one mutex), agents (edit the directories), the file system | `VfsSession` |
| Circuit breaker `kernel/inference/types/circuit_breaker.rs` | state, consecutive failures, last failure, calls remaining | `try_acquire`, `record_success`, `record_failure`, `force_*` | one per provider, behind an async lock | `CircuitBreaker` |
| Chat calls, retries, fallback `kernel/inference/{anthropic,openai}`, `provider.rs` | per call: provider, attempt, last error | `chat` of a provider and of the chain | breakers, HTTP | `InferenceChain` |
| Provider registry `kernel/inference/registry` | providers by name, default name (two locks) | `register`, `set_default`, `default_provider`, `remove` | host state, agents | `ReactAgent` |
| Task supervision `supervisor/orchestrator.rs`, `handlers/`, `repository/task`, `planner.rs`, `mesh_client.rs` | the `tasks` table; a poll's snapshot | `run` = `poll_tasks`, five handlers | SQL store, planner and agents by mesh calls, WebSocket clients (insert tasks) | `TaskSupervisor` |
| Branches and merge requests `supervisor/branch`, `domain/merge`, `repository/branch` | `branches`, `merge_queue`; a session per branch and per merge | create, status updates, abort, recover; request, approve, execute, commit a merge | sessions, SQL store, merge strategies | `BranchWorkflow` |
| Branching tasks `supervisor/handlers/branching` | the task's row | four handlers | the trait `BranchManager` | `BranchTasks` |
| Merge strategies, diff `supervisor/merge`, `supervisor/diff` | none | conflict detection, four strategies, Myers diff, three-way merge of lines | branching tasks | `MergeStrategies`, `LineDiff` |
| Kernel branch manager and API `kernel/branch_manager`, `kernel/api/branches` | two maps, a lock each | create, execute, abort, delete, merge requests | HTTP clients | `KernelBranches` |
| WebSocket layer `kernel/ws`, `kernel/api/sessions` | connections, a broadcast ring, a count of clients | connect, broadcast, client messages, sessions | host state, SQL | `WsConnections` |
| Terminal client `brio-core/brio-tui/src` | what is shown, two bounded channels | keys, events, the socket | a connection | `TuiClient` |
| Service mesh `kernel/host/mesh.rs`, `kernel/mesh` | routes to bounded channels, addresses of nodes, cached clients | `mesh_call`: local, remote or a plugin; `register_*` | all components | `MeshCalls` |
| Agents `sdk/`, `brio-core/components/agents` | one agent's history and counters, files | the reason-act loop, parsers, tools | inference, files | `ReactAgent` |
| Host state `kernel/host/state.rs`, `permissions.rs` | shared handles, permissions | delegation | everything | its mutex in `VfsSession`, its routes and permissions in `MeshCalls` |
| Agent selection, SQL and sandbox policies | none | pure checks | - | not modelled (section 5) |
| Plugin registry and engine, start-up, telemetry, tool components | - | - | - | wiring and I/O (section 5) |

What is hard in each, and what makes it correct:

- **Sessions.** The mutex orders the manager's operations, nothing orders the
  file system: the base may be edited at any time, each copy, removal or rename
  may fail, the process may die. Correct means: a commit overwrites no edit it
  has not seen, installs what the session wrote and nothing else, all of it when
  it succeeds and, as the documentation promises, none when it fails; the map and the directories agree;
  a live session keeps its directory; every operation ends.
- **Breakers and chat calls.** The breaker's lock is not held during a request,
  so an outcome is recorded in another state than the one that admitted the
  call. Correct means: the count of test calls adds up, a half-open circuit is
  waiting for a call that is on its way, an open one holds for its timeout,
  every call returns.
- **Task supervision.** A poll works from a snapshot and writes by id; statements
  stand alone; the agent is called before its answer is recorded. Correct means:
  completed and failed tasks stay so, a completed task has really been done, an agent
  is not given a task twice, every task ends, failures reach the parent.
- **Branches and merges.** Tables and sessions change in separate steps; a
  status is read, validated and written by three statements; an instance may
  trap and the kernel restart in between. Correct means: a failed branch leaves
  no session, a merged one was committed, and by one instance once; a recovery
  leaves nothing half alive.
- **Merging and diffing.** Index arithmetic over two sequences, and several
  branches over one path. Correct means: no change is dropped silently, the
  order of the branches does not matter, a diff names every line once.
- **Control plane.** Handlers that take a lock twice; a ring with slow receivers;
  two tasks with a channel each way. Correct means: an operation succeeds for
  one of the clients that ask for it; what a client gets has no gaps.
- **Mesh.** Bounded channels, replies without timeout, nested calls, components
  that end, nodes that move. Correct means: a caller that waits is held by
  somebody; no cycle of calls, no call that stays.
- **Agents.** Tags inside of tags, several agents on the same files, providers
  removed in the middle of a run. Correct means: what is executed is what the
  model said, in order and once; files hold what its tags put there; every run ends.

`PROJECT.json` lists these as hazards, each at its line, with the properties that
cover it.

## 2. The modules

| Module | What it is |
|---|---|
| `VfsSession` | workspace sessions, step by step |
| `AtomicSessions`, `VfsRefinement` | what they promise (atomic snapshots, first committer wins), and the mapping |
| `CircuitBreaker`, `InferenceChain` | the breaker as functions on its state; concurrent chat calls over a chain of providers with breakers |
| `TaskSupervisor` | polls and handlers over the tasks table |
| `BranchWorkflow` | the branch manager over tables and sessions |
| `LineDiff`, `MergeStrategies`, `BranchTasks` | diff and strategies as pure operators; the branching handlers that use them |
| `KernelBranches`, `WsConnections`, `TuiClient`, `ControlPlane` | the kernel's interfaces to its clients, and their composition |
| `MeshCalls` | calls between components, nodes and plugins |
| `ReactAgent` | agents with their tools, files and providers |
| `*Proofs` | the theorems about the module of that name |
| `MC*` | symmetry sets and structured constants for the model checker; plain constants are in the `.cfg` files |

Definitions whose comment begins with *Variant*, and some short ones beside the
definition they vary, are plausible mistakes in the code, one for each property;
no specification uses them. The map in `PROJECT.json` names the source lines of
every other definition.

### 2.1 VfsSession

`BrioHostState` takes its `session_manager` mutex for the whole of an operation
(`kernel/host/state.rs:195-220`), so one operation is in flight: `pc` and the
locals `cur`, `base`, `hash`, `put`, `del`, `stage` are its stack frame.
`tracked` is the manager's map, `fs` the directories on disk, `used` the
identifiers drawn; `written` is a history of what was written to each session.

| Code | Actions |
|---|---|
| `begin_session`: hash, `copy_dir_reflink`, insert into the map | `BeginSession`, `CopyFile`, `CopyFailed`, `SessionBegun` |
| `commit_session`, `commit_with_conflict_detection` | `CommitLost`, `CommitSession`, `DiffFailed`, `NothingToCommit`, `ComputeDiff`, `CommitApplied` |
| `apply_changes`, phase 1 | `StageFile`, `StageFailed`, `AllStaged` |
| `apply_changes`, phase 2 | `DeleteFile`, `MoveFile`, `ApplyFailed` |
| `rollback_session`, `cleanup_session_dir`, `cleanup_orphaned_sessions` | `RollbackSession`, `RemoveSessionDir`, `RemoveSessionDirFailed`, `CleanupOrphaned` |
| outside the code | `AgentWrite`, `ExternalWrite`, `ExternalTidy`, `LoseSessionDir`, `Crash` |

The calls that fail before they change anything (unknown session, conflict,
policy) are stutters. Abstractions: a hash is the tree it is taken of (so equal
hashes are equal trees; see the hazard at `vfs/hashing.rs:21`); paths are flat,
with no symbolic links and no file in a directory's place; a left-over staging
directory of a session is one more name, the session's own, in the base.
`AtomicSessions` commits in one step, or breaks off (`BreakOff`): an installation that
fails half way leaves a mixture of the base and the session's files, its session as it was.
`Races` says who may write to a directory an operation is working on, `Faults`
what may fail, `Nested` whether a session may be begun on another's directory,
as a branch of a branch is. A second `SessionManager`, such as a test's, is
another program to this model: an `ExternalWrite`.

### 2.2 CircuitBreaker and InferenceChain

`chat` of both providers has the same shape (`anthropic/client.rs:230-292`,
`openai/client.rs:188-243`): lock and `try_acquire` (`Acquire`, `Refused`),
request (`Answered`, `Retry`, `GiveUp`), sleep (`BackedOff`), lock and record
(`Succeed`, `Fail`). `FallbackProviderChain::chat` goes on to the next provider
after a retryable error or a refusal (`NextProvider`). Answers are classed by
what the code does with them: *transient* (429, 529, 500, 502-504, no connection:
retried, then fallback), *late* (any other `HTTP 50x` or `52x`: not retried, but
`is_retryable`, so fallback), *permanent*. The wall clock appears as whether the
timeout has passed since the last failure (`last`, `Elapse`); the totals that only
`stats` reports and the length of a backoff are left out (`1u64 << attempt`
overflows from attempt 64 on, which takes a `max_retries` nobody sets).
`granted`, `probes` and `lost` are histories: the test calls let through since the
circuit is half open, those still on their way, and whether one was dropped.

A call dropped at an await records nothing (`Drop`). If it was the last one a
half-open circuit admitted, the circuit refuses every call until `force_close` or
a restart; that is why `ProbeInFlight` and `HalfOpenEnds` except a circuit with a
`lost` test call. `force_open` and `force_close` (`ForceState`) may come at any time.

### 2.3 TaskSupervisor

`task` is the tasks table; per poll, `pc`, `snap` (tasks fetched and not handled
yet) and `job` (task, status to write, subtasks still to insert) are the locals of
`poll_tasks` and of the handler it is in. Each SQL statement is a step; a handler
that fails goes to `HandleFailure`. Priorities: clients' tasks have 10
(`kernel/ws/connection.rs:230`), subtasks 128, and the query sorts by priority, so
`Turn` takes subtasks first and is free among equals.

| Code | Actions |
|---|---|
| `fetch_active_tasks`, the loop | `Poll`, `Turn`, `PollDone` |
| `handlers/pending.rs`, `verifying.rs` | `PendingHandler`, `VerifyingHandler`, then `WriteStatus` |
| `handlers/planning.rs`, `planner.rs` | `PlanningHandler`, `CreateTask`, `WriteStatus` |
| `handlers/executing.rs`, `mesh_client.rs` | `ExecutingAssigned`, `Dispatch` (`Ask`), `AssignAgent` or `WriteStatus` |
| `handlers/coordinating.rs` | `CoordinatingHandler`, `WriteStatus` |
| errors | `StatementFails`, `HandleFailure` |
| `handle_task_submission` | `Submit` |
| traps, restarts | `Crash` |

Left out: contents (a planner's steps are taken to be non-empty) and with them the
selector; the statuses no handler reached from `poll_tasks` writes (`Assigned`, and
the branching ones, which `as_str` cannot store: see `BranchTasks`). A fetch
that fails changes nothing and is a stutter.

### 2.4 BranchWorkflow

`branch` and `request` are the two tables, `session` the kernel's sessions as
`VfsSession` has them (here one step each, free, open or closed, with the
directory they are of), `stale` the ones whose base has changed meanwhile. A
caller (`pc`, `job`) is an instance of the supervisor. With `mode = "one"` the
callers are the operations of one instance: they exclude each other except where
`execute_merge` awaits (`MayRun`), and `create_branch` (`&mut self`) excludes
all. Several instances over one database, or one that traps and is
followed by another, are `mode = "many"`.

| Code | Actions |
|---|---|
| `branch/lifecycle.rs`: `create_branch`, `check_branch_limit` | `CreateBranch`, `BeginSession`, `BeginFailed`, `InsertBranch` |
| `branch/state_machine.rs`: `update_status`, `validate_transition` | `SetStatus`, `ReadStatus`, `InvalidStatus`, `WriteStatus` |
| `abort_branch` | `AbortBranch`, `AbortFailed`, then `ReadStatus` |
| `branch/merge_request.rs`: `request_merge`, `approve_merge` | `RequestMerge`, `AutoApprove`, `ApproveMerge` |
| `execute_merge`, `branch/operations.rs` | `ExecuteMerge`, `CollectChanges` (`Scan`), `SaveStaged`, `ReadStatus`, `WriteStatus` |
| `commit_merge` | `CommitMerge`, `CommitStaging`, `CommitFailed`, `ReadStatus`, `WriteStatus`, `FinishRequest` |
| `recover_branches` | `Recover`, `RecoverBranch`, `RecoverDone` |
| errors, traps, a restart of the kernel, agents | `StatementFails`, `Crash`, `Restart`, `AgentWork` |

`ReadsBack` is about `repository/branch/wit_impl.rs`. That repository encodes a
branch's configuration twice and then cannot parse it, and stores a request's
status with its words run together (`readytocommit`), which it refuses when it
reads. With `ReadsBack = FALSE` a branch can be created, worked on and aborted,
but no merge is ever executed, and the run would show nothing of it. The run
therefore takes `TRUE`: a repository that gives back what it was given, as the
crate's trait asks for and its tests' mock does. The proofs hold for both.

What the model shows and no property states, because no document promises
otherwise:

- two concurrent `execute_merge` of one request both begin a staging session; the
  second is refused by the status and rolls its own session back, but has already
  stored it, so the request is ready to commit with a session that is gone;
- a crash between the commit of the staging session and the status leaves a branch
  in Merging for good; one between the request and the status lets the merge be
  committed while the branch is Completed, and again by a second request
  (`OneMergeCommitted` is about one instance);
- a branch being merged counts as active: the count may pass the maximum, which
  is why `OpenWithinLimit` counts the others;
- aborting a branch that is over rolls its session back first and is then refused;
- an error after `begin_session` in `create_branch` leaves a session with no branch;
- `apply_changes_to_staging` applies nothing (the code refers to its issue 124) and
  `collect_branch_changes` reports every file of the branch as modified, so what is
  committed is the parent as it was. `MergedWasCommitted` is about the commit.

### 2.5 LineDiff, MergeStrategies and BranchTasks

`LineDiff` has `diff/myers/algorithm.rs` (the trace as a recursive function, the
steps back, the grouping into operations), `diff/mod.rs` and
`diff/three_way/algorithm.rs` over sequences of lines, with the code's 0-based
half-open ranges. The code's loops are passes of `Loop`, a recursive function of the
number of passes, so that they can be reasoned about. `MergeStrategies` has `merge/conflict.rs` and the four strategies
over changes (path, kind): a path, and the places in the list of branches that change
it (`Touching`), stand for the code's map from a path to the list of its changes. `BranchTasks` puts both under the four branching
handlers: agents edit the files of their branches, the handlers create branches,
wait for them, ask for a merge and for approval, and write the task's row.

| Code | Actions |
|---|---|
| `handlers/branching/analyzing.rs` | `AnalyzingForBranch`, `CreateBranch`, `WriteStatus`, `ExecuteBranches` |
| `handlers/branching/execution.rs` | `Branching`, `RequestMerge`, `GetConflicts`, `WriteStatus` |
| `handlers/branching/merging.rs` | `Merging`, `GetConflicts`, `WriteStatus` |
| `handlers/branching/pending.rs` | `MergePendingApproval`, `ExecuteMerge`, `WriteStatus` |
| `poll_tasks` on errors | `CallFails`, `HandleFailure` |
| the manager, agents and approvers | `AgentEdits`, `AgentEnds`, `Decide`, `MergeExternally` |

The crate implements the trait these handlers call by `NoOpBranchManager` only, and
`poll_tasks` passes none at all; so the manager of this module is the one they are
written for, and the map marks it as external. A request that needs no approval
goes to Merging, and no handler then calls `execute_merge`: somebody outside must
(`MergeExternally`). The three-way strategy takes the first branch's file when no
lines clash and drops the second's change, so `CompletedKeepsAll` is about `union`,
which is what the handlers ask for. Which modified files clash for it depends on the
order of the branches: an insertion counts as being at base line 0 but reaches as far
as its lines in the target, and what joins a group of changes depends on which one
opens it (base `x y x`, one branch `x`, the other `y y y`: a clash in one order, none
in the other). No document promises that order does not matter, and `MergesAgree`
says of three-way only that it is no stricter than `union`. `ours` takes the
first branch's change of a path and `theirs` the last one's, as the code does; the
documentation says something else of `ours` (section 3). `apply_diff` skips insertions, as its comment
says, and `to_edit_script` stops keeping lines once the script is as long as the
base: `DiffCovers` counts what both do produce. Left out: binary files, and how
conflict markers are rendered.

`ConflictsAreOverlaps` says of the conflicts of a merge of lines that they are lines of
the base, always; and, where neither branch's diff has an insertion (a change that only
adds lines), that they are in order, do not overlap, each has a line both branches
changed, and that there is one if there is such a line. With insertions this second
half need not hold, although `three_way.rs:238-240` of the strategies says that overlapping
changes are marked. An insertion sorts at base line 0, so it may come between two changes
of one line and end the group there: base `2 3 0`, one branch `3 4 5`, the other `3`, merge
to `4 3` with no conflict, though both change the first line. It may also let conflicts come
out of order, in larger texts (a base of 12 lines). No run shows either; the three lines of
`merges` have two values.

### 2.6 KernelBranches, WsConnections, TuiClient and ControlPlane

| Code | Actions |
|---|---|
| `branch_manager/core.rs`, `api/branches/handlers.rs` | `CheckName`, `InsertBranch`; `CheckStored`, `RemoveBranch`; `CheckBranch`, `InsertRequest`; `ExecuteBranch`, `AbortBranch`, `Judge`; `Refuse` |
| `ws/handler.rs`, `ws/broadcaster.rs` | `Connect`, `Broadcast`, `Receive` |
| `ws/connection.rs`: `run` and the handlers of messages | `Receive`, `Text`, `Reply`, `Chatter`, `Leave`, `Close`, `SendFails` |
| `api/sessions/handlers.rs` | `HttpSession` |
| `brio-tui/src/main.rs`, `app.rs` | `Enter`, `NoKey`, `Enqueue`, `HandleEvent`, `Drained`, `Quit`, `Kill`, `StartAgain` |
| `brio-tui/src/network.rs` | `ConnectAsync`, `ReadText`, `ReadEnds`, `WriteLine`, `Report` |

A handler of a branch takes a lock for what it checks and, in some operations,
again for what it changes: `call` is a handler in between. `execute_branch` goes
from Pending to Completed under one lock, so nobody sees Running. A broadcast is its number;
`conn[c].next` is where the receiver is in the ring, `got` what its client has been
sent. The parts share no variable, so a behaviour of `ControlPlane` is about one of
them (`about`), which checks the same and keeps the state space a sum.

Facts the modules have and nothing promises otherwise: two requests at the same time may create
one name twice; a delete that races another says Ok twice; approve and reject
overwrite each other, and requests outlive their branch; `run_server` mounts the
session routes but not those of branches; a lagging receiver is told that its
channel is closed and is disconnected; nobody sends `Shutdown`, and a connection
that gets it sends it on like any other message; a client's sessions outlive its connection; a line
typed after the connection has gone is shown as sent and is lost; with both
channels of the terminal full, the interface and its network task wait for each
other for good (`ShownInOrder` still holds then, nothing more is shown).

### 2.7 MeshCalls

`router` is a node's table of components, an instance with its bounded channel
(`comp`); `known` and `clients` are the addresses of other nodes and the clients
cached for them, `listens` where those nodes really are. A call (`call[k]`) has a
parent when it is made while another one is handled.

| Code | Actions |
|---|---|
| `host/mesh.rs`: `mesh_call` | `Route`, `Send`, `ConnectOrGet`, `Request`, `RequestFails`, `Response`, `PluginEnds` |
| `mesh/service.rs`, `mesh/grpc.rs` (the other node) | `Request` begins a call there |
| components and plugins | `Takes`, `Replies`, `Dies`, `HostCall` |
| `register_component`, `register_remote_node`, callers | `Register`, `RegisterNode`, `Moves`, `StartCall` |

Payloads are left out, but for what decides a route. `layered` behaviours keep
the order of `Rank`, the others call as they like: a cycle of calls waits for ever,
since `mesh_call` has no timeout, and `CallsReturn` is about the layered ones.
Others: a cached client stays at the old address after `register_remote_node`; a
plugin run by a call has the permissions of its caller, and the kernel holds none,
so what it starts for another node may call nobody; a target `n2/n3/c` is forwarded
by `n2` (the name is a sequence here); a target with nothing before its first `/`
panics and is not among the inputs.

### 2.8 ReactAgent

| Code | Actions |
|---|---|
| `agent/base.rs`: configuration, `prompt.rs` | `Misconfigured`, `Configure`, `CheckContext`, `LoadContext`, `BuildPrompt` |
| `engine/react_loop.rs`: `run` | `CheckLimits`, `Answer`, `UpdateState` |
| `kernel/inference/registry/core.rs` | `DefaultName`, `FindProvider`; `Register`, `SetDefault`, `RemoveProvider` |
| `tools/registry.rs`: `execute_all`, `agent/parsers.rs` | `Invocations`, `Parse` |
| `agent/tools/**` | `CheckSize`, `ReadFile`, `ListDirectory`, `Truncate`, `WriteFile`, `Shell`, `CommandChanges`, `CommandEnds`, `Grep`, `Done` |

An answer is the sequence of its tags in the order in which they begin; `holds` is how
many others begin in a tag's content, `breaks` whether that content goes over a line
end. Regular expressions become what `find_iter` finds: for each tool the tags of its
own from left to right, each beginning where the last match has ended. A tag that breaks is
no match, so that one of the same tool inside of it may be; one that does not break ends at the first
closing tag of its tool, so that one inside of it is not looked at. Parsers of different tools know nothing of
each other: tags inside the content of another tool's tag are executed as well, and a done tag
inside a write's content ends the run. `todo` is the set of the places still to be
executed, of which `First` is next, as the sorted list of `execute_all` has it; `ran`
is a history. Of the tools only what the four agents and the registry's
presets register is there; coder's and smart-agent's own `write_file` take a path as it is.

`read_file` looks at the size and then reads, `write_file` truncates and then writes;
other agents run in between. A write goes to the file as it was opened: over what
others have put there meanwhile (`Over`), or to a file without a name if that has
been removed (`opened`).

`validate_shell_command` compares the first word of a command with the allow list and
refuses a few characters. The default list (`sdk/config.rs:310-323`,
`agent/registry.rs:334-349`) has `find`, `sort` and `uniq`, which can remove and write
files, and `tail`, which can wait for ever. So an allowed command is a set of changes to files
(`Effects`), any of which it makes in any order, one by one and beside the other agents,
before it exits with or without an error (`CommandChanges`, `CommandEnds`); or it
never exits (`Endless`, `Hangs`), and `output()` then waits as long: the timeout of a
run is looked at between iterations only.

## 3. The runs

| Run | Question | Result |
|---|---|---|
| `vfs` | two sessions, on one base or one on the other, nobody writes to a directory in use, every step may fail: no lost update, only the session's writes, all of them if the commit succeeds; `AtomicSessions` is implemented | holds |
| `vfs_torn` | the same: does a failed commit leave the base as it was? | no: finding |
| `vfs_races` | everybody writes at any time, every step may fail: bookkeeping, directories of live sessions, the mutex is released | holds |
| `chain` | two callers, two providers, dropped calls, forced circuits: every call returns, open circuits hold, half-open ones have a call that decides them and end, counts stay in their bounds | holds |
| `tasks` | one poll at a time, all answers, faults and crashes: completed and failed tasks stay so, completed is done | holds |
| `tasks_finish` | failing calls and statements: every task ends, failures reach the parent, no task is handed out twice | holds |
| `branches` | two callers, one failure anywhere: branches, sessions, requests and merges agree | holds |
| `merges` | up to three branches, all edits and decisions, one failure: completing keeps every change; strategies agree, diffs cover both texts, conflicts of lines are overlaps | holds |
| `diff` | does the diff rebuild the target? | no: finding |
| `gateway` | HTTP and WebSocket clients at once, the terminal: one outcome per operation, no gaps | holds |
| `mesh` | three calls over two nodes, a plugin, a component that ends and its successor: waiting callers are held, calls in one direction return | holds |
| `agent` | two agents on the same files, one with a shell: they do what the answers say, files hold what their tags can have left, every run ends or waits for a command | holds |

The findings, with the sentences they contradict, are in `PROJECT.json`:

- `vfs_torn`: `apply_changes` returns the first error of phase 2 with what it has
  deleted and moved by then in place. A commit that returned an error has then
  changed the base, which is neither the old tree nor the session's, and the next
  attempt takes its own changes for a conflict. The documentation promises "All-or-nothing
  commits" (`src/concepts/wit-interfaces.md:225`, `src/guides/branching-workflows.md:57`)
  and "either fully succeeds or fully fails" (`:511`). What such a base still is, is
  part of `vfs` and of the theorems: `AtomicSessions!BreakOff`.
- `diff`: `backtrack` skips the last vector of its trace, so the edit script starts a
  round early; of the base `x x` and the target `x x y` it makes operations that give
  another text. `three_way_merge` slices by these operations. That they still cover both files
  (`DiffCovers`) is why nothing panics.

Disagreements of the code with a document that no run of its own is about. The models
do what the code does:

- **Test calls.** `circuit_breaker.rs:22` says of `half_open_max_calls` "Maximum number of
  test calls in half-open state". The call that finds the timeout passed opens
  the half-open state and is not counted, so one more than the maximum goes through. The theorem
  `OneTestCallMore` says so: a half-open circuit that refuses the next call has let
  through `HalfOpenMaxCalls + 1`.
- **Retries.** `src/concepts/supervisor.md:91` and `:106` draw a transition from Failed to Pending,
  "Retry". No code makes it (`:458` of the same page lists retries among what is to come), and
  `TerminalStays` says that a failed task stays failed. The rest of the diagram differs as
  well: the code goes from Planning to Executing or Coordinating, from Coordinating to
  Verifying, and from Executing to Completed without Verifying when an agent completes the task on the spot.
- **Ours.** `three_way.rs:493` and `:503` say that the strategy `ours` prefers the base
  version when there are conflicts, and so do `src/guides/merge-strategies.md:12`, `:79` and
  `:104`. `OursStrategy::merge` never looks at the base: of a path that several branches change it
  keeps the first branch's change, and reports the conflict as one it solved "using base
  version" (`three_way.rs:537`; `OursMerge`).
- **Transactions.** `src/concepts/supervisor.md:307` says that a plan is stored in one
  transaction. It is not; a crash leaves part of it.

Limits of what holds, assumptions of the results above rather than findings:

- A write to the base between the conflict check and the moves of phase 2 is lost, and one
  between the hash and the copy is taken for the session's (`Races` must not
  contain "external" for `NoLostUpdate` and `OnlySessionWrites`). An error in phase 1
  leaves a directory `.commit_<uuid>` in the base.
- Permanent errors count as failures of the breaker, and so lead to a fallback once
  it opens. A half-open circuit all of whose test calls were dropped stays half open for good.
- Two polls that overlap overwrite each other's results (`TerminalStays` needs one
  poller): every `UPDATE` names the row only. A planner that always finds steps makes tasks without end.
- A branch that is being merged has a request that is ReadyToCommit (`MergingIsStaged`),
  but of overlapping merges the session it names may have been rolled back (2.4): it cannot be committed then.
- A circuit that is forced open before its first failure is never timed out.

**Bounds.**

- Sessions: two sessions on one base are the least that can conflict; two files let
  a commit be half done, delete one and write another (`vfs`, `vfs_torn`), one is enough for
  bookkeeping (`vfs_races`); with one content and "absent" a file can be added,
  deleted and put back; with `Nested` the second session may be begun on the first.
- Breakers: with a threshold of 2, two callers are enough for an outcome of an
  earlier period to arrive in every state of the circuit, and two providers for a
  fallback; one call may be dropped while the other decides.
  `MaxRetries` 1 makes both a retry and its end occur.
- Tasks: plans of at most two steps (`MaxSubs`) and three subtasks let a plan be cut
  short and repeated and a subtask be planned in its turn.
- Branches: a branch and its child are the least that can be merged; `MaxBranches` 1
  makes the limit bite; two requests let a merge be asked for twice; four sessions
  are two for the branches and two for staging. One failure (`MaxFaults`) at any
  step leaves room for the recovery from it. `Bounded` keeps several requests to
  one instance: two instances share one request, which is where they meet.
- Merges: three branches are the most the handlers make, and need approval; files
  of at most three lines of two values, with two edits, give repeated lines,
  insertions and deletions at each end, equal and different changes, and two changes of
  one branch against one of the other. `diff` needs two lines and one edit.
- Gateway: a ring of two with four broadcasts laps a slow receiver; channels of one
  can both be full; ids, names and requests are as many as meet in two handlers.
- Mesh: three calls are a call, one it leads to and one more that fills the channel
  of size one; the component that ends has a successor under the same name.
- Agents: one with two iterations, one with every tool; the answers are one of each
  kind the parsers and tools tell apart, nested and broken tags among them; one
  command writes a file, one removes one, one never exits (`MCReactAgent`).

Identifiers are used once, as UUIDs and row ids are, which keeps behaviours finite:
the sets of constants are the bound. Symmetry is used in safety runs only; that of
`branches` has an action property that is about every caller alike.

**Fairness.** `VfsSession`: the thread that holds the mutex goes on
(`WF(Working)`); nobody has to start an operation or edit a file.
`InferenceChain`: the runtime polls each call and each request comes back, or
errs (`WF(Step(c))` for each call; the HTTP client's own timeout or the server
sees to that); nobody has to call, and no timeout has to elapse. `TaskSupervisor`:
the host calls `run` again and mesh calls return (`WF(Run(p))`); an agent that never
answers stops the supervisor. A task that an agent accepts
is skipped by every later poll and completed by nobody in the supervisor, so
`TasksFinish` excepts tasks that wait for one (`Held`); the dispatcher the
supervisor is wired with (`supervisor/mesh_client.rs:98-105`) never gives that
answer. The run has no busy agents, no failing `mark_failed` and no crashes: each
could happen for ever. `WsConnections`: `select!` picks at random among what is
ready, so a receiver with something to receive does so in the end however much its
client sends (`SF(Receive)`), and handlers and closes end (`WF`). `MeshCalls`: a
call goes on where it can, a component takes messages and replies to them when it
waits for nobody, and a request over the network is sent or fails; once sent it
has no timeout, and no fairness makes it fail. `ReactAgent`: an agent runs on, as calls of a
provider return (`chain`) and tools end, but for a command that never exits: `RunsEnd`
excepts the run that waits for it. Nothing is assumed of those who register
providers. The timeout of a run is not needed for `RunsEnd`.

**Where the system may stop.** A branching task ends, and with it the behaviours of
`BranchTasks` (`CHECK_DEADLOCK FALSE` in `merges` and `diff`). Everything else goes
on for ever, and deadlock is checked.

## 4. The proofs

Proved for all values of the constants, under the assumptions the modules state
about them:

| Theorem | Says | Extra assumption |
|---|---|---|
| `VfsSessionProofs!ShapeAlways`, `TypeCorrect` | the bookkeeping is sound whoever writes and whatever fails | none |
| `LiveDirsKept` | the directory of a live session is never removed | nothing outside removes one |
| `InvAlways` | snapshot, copy and remaining changes agree | `Races = {}` |
| `LostUpdateFree`, `CommitsOnlySessionWrites`, `CommitIsComplete` | the three commit properties | `Races = {}` |
| `SessionsAreAtomic` | `VfsSession` implements `AtomicSessions`, in which a commit may break off | `Races = {}` |
| `InferenceChainProofs!TypeCorrect` | types; the calls remaining never go below zero | none |
| `OneTestCallMore` | a half-open circuit that is used up has let through one call more than its documented maximum, dropped calls included | none |
| `FailuresAreBounded` | a circuit counts failures up to its threshold, and one more per call let through | finitely many callers, a positive threshold |
| `ProbeAlwaysInFlight` | a half-open circuit has a call on its way, or one of its test calls was dropped | none |
| `OpenHolds` | an open circuit holds for its timeout unless it is forced | none |
| `TaskSupervisorProofs!TypeCorrect` | types, any number of polls | none |
| `OnePollTerminalStays`, `OnePollCompletedIsDone` | completed and failed tasks stay so, completed is done | one poll at a time |
| `OnePollAskedOnce` | no task is handed out to an agent that has answered it | one poll, no crash, no failing `mark_failed` |
| `BranchWorkflowProofs!TypeCorrect` | types of the tables and callers | none |
| `FailedBranchesAreOver`, `MergedBranchesWereCommitted` | a failed branch has no session, a merged one was committed; any number of instances | none |
| `OneCommitPerBranch`, `BranchLimitHolds`, `MergingBranchesAreStaged`, `RecoverySettlesAll` | one merge per branch, the limit, Merging has a request that is ReadyToCommit, a recovery leaves nothing half alive | none; the properties are about `mode = "one"` |
| `BranchTasksProofs!CompletedTasksKeepAll` | a completed task has every change of its branches merged | none |
| `StrategiesAgree` | of branches of one base `union` reports what `detect_conflicts` does, in any order, and three-way is no stricter | none |
| `DiffsCover` | the operations of a diff cover all lines of both texts, in order, and what is derived from them adds up; any texts | none |
| `MergesOverlap` | the conflicts of a three-way merge of any texts are lines of the base, and overlaps if there are no insertions | none |
| `ControlPlaneProofs!OneOutcomeAlways` | one outcome per branch and per session, receivers counted right | none |
| `ReceivedInOrderAlways`, `NoGapsAlways` | a client has what was broadcast since it connected, and the terminal shows it, without gaps | none |
| `MeshCallsProofs!TypeCorrect`, `WaitersAlwaysHeld` | a caller that waits is held by one living instance, once | none |
| `ReactAgentProofs!AgentsFollowAlways` | agents do what the answers say, in order and once; files hold, and the model is shown, what tags and allowed commands can have left | none |

- **Sessions.** `Shape` is inductive by itself: it says for each phase which
  directories exist and what the locals mean. `Inv` adds what ties contents
  together: a file nobody wrote is as it was hashed (`UnwrittenIsSnapshot`), the
  copy in progress and the base agree (`CopyMatchesHash`), and in the last two
  phases the files still to be installed are untouched in the base while all
  others already agree with the session (`InstallsRemaining`). That last one gives
  the three commit properties at once: what is installed was untouched, was
  written in the session, and when nothing remains the trees are equal. It needs
  that nobody writes to the two directories meanwhile. For the refinement, the atomic
  snapshot of a session is the base at its begin and its directory once the copy is
  complete; every step of a copy, a staging and a clean-up is a stutter, and the step
  that leaves phase 2 is the atomic commit. An error or a crash in phase 2 is `BreakOff`, since the files that
  remain are those of the snapshot and all others the session's. It also needs that only
  the names of staging directories ever hold anything else than users' contents, in
  the directories as in the snapshots (`PlainFiles`, `PlainSnapshots`).
- **Breakers.** The induction is over `TypeOK`, `ProbesBounded` and
  `ProbesOnTheirWay` (a probe is a call between admission and outcome at that
  provider); `BreakerMoves` lists what each breaker function does to the state.
  `ProbeInFlight` follows since admitted calls are on their way, were dropped (`lost`) or have
  decided the circuit: in half-open state any outcome does. `ProbesBounded`, that calls let
  through and calls remaining add up, gives `OneTestCallMore`. `RetriesLeft` bounds
  the attempts. For `FailuresBounded`, an open circuit's count and
  the calls that are still on their way add up to less than the threshold and the
  number of callers (`FailuresCounted`): a late failure moves one from the second
  to the first, and an open circuit lets nobody through; a half-open one counts from zero.
- **Tasks.** `Fresh` says that what the one poll fetched and has not handled yet is
  still in the table, and that the row of the task it is at is active; so a write
  by id never meets a finished row. `Earned` strengthens `CompletedIsDone` to the
  states on the way there: a task that is verifying, or about to be, has children
  and they are completed, one that is coordinating has children. Two polls break
  `Fresh`. For `AskedOnce`, `Taken` follows an answer into the table: a task an agent
  has taken on is finished, or executing and recorded as the agent's, or in the hands of
  the poll that asked, and what a poll has fetched agrees with the table on whose it is.
- **Branches.** The two properties are about rows, but a status is validated and
  written in different steps, so neither is inductive. `CallersSound` says what a
  caller may rely on where it is: the one that is about to write Failed has a branch whose
  session is closed, the one about to write Merged a branch that was committed.
  Other callers cannot take this away, since a closed session is never opened
  and commits are only counted up (`RowsSound` has the rows' half). `CreatorsApart`
  keeps two creators from one id, so that an insert never overwrites a row.
  The four properties of one instance share an invariant, `OneInv`. Operations exclude
  each other except where a merge awaits (`OneAtATime`), so what was read stays true
  until it is used (`ReadsHold`). An open staging session is of one
  request and one caller (`StagesApart`); a branch has one merge that is ready at most,
  and none once one was committed (`MergesOnce`); one that is Merging has a request
  ready to commit (`MergesSaved`). `Room`: with the branch being created those to be worked on
  are within the limit. `Rescued`: every branch a recovery has to settle is on its
  list or in its hands.
- **Branching tasks.** `TasksInv` relates a task's row, the copy a handler works
  on and the requests: a merge is asked for when all branches have completed, so nobody
  edits them any more (`AllReady`), a row names a request for its own branches
  (`RefersTo`), and what is merged had no conflicts when it was and, since files
  no longer change, still has none (`MergedClean`). The rest is about operators: the
  base decides whether a change of a path adds or changes a file, so any two changes
  of one path conflict (`SameBaseConflict`). Hence what `union` and `detect_conflicts` report are
  the paths two branches share (`UnionIs`, `DetectIs`), no conflict means one branch for each path and
  nothing is dropped (`UnionKeeps`), and none of that depends on the order (`Reversed`).
- **Diffs.** These theorems are about what loops compute from texts of any length. A loop
  is a recursive function on `0..n`, so an induction on its passes is enough, and `Counted`
  gives it without an operator as a parameter: if a set holds 0, and i whenever it holds
  i - 1, it holds all of `0..n`, since otherwise there would be a least number outside.
  `Iterates` and `Follows` state it for loops. The trace of `compute_ses` ends because
  after round d every diagonal's place has x + y of at least d, so round n + m has reached
  the end (`Trace` takes the least such round). Whatever the trace holds, `backtrack` then makes edits that
  lead from the first lines of both texts to the last (`Leads`): each step prepends
  what brings it to where the later ones begin. `convert_ses_to_diff_ops` turns such a
  script into operations whose ranges cover both texts without gap or overlap (`Covers`),
  and counting them gives the sums of `DiffCovers`. That nothing more is needed of the trace is
  why the finding and the theorem are both true: the operations cover the texts and yet
  do not rebuild the target.
- **Merges of lines.** The changes of both branches, sorted, are in the order of their places
  and are those of the two diffs (`Ordered`, `MadeOf`). A group is a run of
  changes that follow each other, and its members are its first change and the first of the other branch.
  The invariant of the merge (`Within`) is that the next base line is 0 or behind a
  change that is done (`Past`), and the conflicts so far are ranges of the base. Without insertions
  a change reaches over its own base lines, and `Clear` adds that what is not yet merged begins
  behind every change that is done: then a line of two changes puts both in one
  group, and the conflicts are in order.
- **Control plane.** The parts change nothing of each other, so `ControlInv` is
  three inductive invariants proved apart, each with a lemma that a step elsewhere
  leaves it alone. `BranchesInv` knows what a handler between its locks holds: a
  branch to be inserted is not there and nobody else's. `SocketsInv` has
  the place of a receiver, which is never past what was sent, and the count of clients
  as the cardinality of the receivers. `TuiInv` is the size of the channels.
  `ScreenInv` follows a message to the screen: the events on their way are the greeting,
  then the messages that come next, then the one that ends the connection
  (`EventsInOrder`), and with what is shown they add up to what was read
  (`ReadAddsUp`); the status is behind the connection by the greeting and the last
  event, and the lines typed are written, in the channel or about to be sent.
- **Mesh.** `WaitersHeld` needs both directions: a held call waits for the instance
  that holds it (`CompSound`), a waiting call is held by the one it went to
  (`Found`). `CallsSound` adds what a call has found by where it is, so that
  sending goes to an instance. Most steps change one instance and one call
  (`CompStep`), or calls that do not wait (`QuietSound`).
- **Agents.** `Sound` is about one agent's engine and history, so a step of another
  leaves it alone. While an agent works, the tags done and those to do make up the answer
  and every one done comes before every one to do (`Splits`); with `FirstIs`, that there
  is a first of any set of places, the tags done are always a beginning of the text
  (`UpTo`). `Paced` has the length of the conversation by where the engine is, `Told`
  what it says of each answer. Of the files, `FilesSound` says that each
  holds what tags and commands can have left, over one another; whatever an agent reads or is shown is
  what a file held at that moment, and `Held` is one set for all of a behaviour.

The assumptions on constants are those the modules name (`...Assumption`): types and
finiteness of what is enumerated, and that the markers (`None`, `Absent`) are no values.
`VfsRefinement` adds that the two specifications mean the same by "no directory".

Every safety property the runs check is stated by a theorem. Model-checked only:

- the findings, each of which is one behaviour;
- everything under fairness (`LockReleased`, `CallsReturn` of both modules, `HalfOpenEnds`,
  `TasksFinish`, `FailurePropagates`, `Delivered`, `RunsEnd`), which TLAPS does not do.

## 5. Not modelled

- `supervisor/branch/manager.rs`, `branch/execution`, `branch/events`,
  `branch/tool_integration.rs`: no `mod` declaration reaches them, so they are not part of
  the crate. (The first would execute each child of a branch twice.)
- `supervisor/repository/transaction.rs`: nothing begins a transaction.
- `sdk/tools/wasm_bridge.rs`, the SDK's branch tools and the grep that searches
  files: registered by no agent. The grep that is registered finds nothing.
- The agent selector, the SQL policy and the sandbox's path policy: pure
  functions of one argument with no state; the models take what they let through.
- Plugin contexts and the event bus of the host, and with them foreman, which
  only handles events: nothing creates a context that could subscribe.
- WASM hosting, plugin loading, streaming completions, configuration, start-up,
  telemetry, metrics, audit, the tool components: third-party wiring and I/O with no protocol of
  their own.
- What a command of an agent does beyond changing files, and its output; a rename is a removal and a
  change of content, a write of content one step. Where the agents' WASM host has no
  processes, a command fails, which is one of its outcomes.
- Contents, wherever two of them are never told apart: payloads of mesh calls, task
  descriptions, prompts, HTTP and WebSocket framing, JSON.
- Bytes: the directory hash over names and contents without separators
  (`kernel/vfs/hashing.rs:21`), and rows whose text does not parse
  (`supervisor/repository/task/wit_impl.rs:105`), listed as hazards without a property.

Details of the agents that the model keeps and a reader may not expect: the
configuration from the environment never sets the tools' switches, whose defaults are all
false, so smart-agent gets neither writing nor its shell; feedback carries the first line of
each output only; a tool that fails ends the run, so the model never hears of it.
