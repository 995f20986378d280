# A TLA+ verification of the wgenty-code agent runtime

wgenty-code is an AI coding agent written in Rust. A root agent talks to a model,
runs tools and spawns subagents through the `task` tool; a daemon hosts sessions for
a terminal UI, a web UI and a desktop shell, starts turns, queues messages, retains the
results of background work and relays permission prompts. Almost everything that is
hard about it happens between tasks of one tokio process: lock sections interleave,
futures are dropped at an await, a timeout fires while an answer is on its way.

This project models those parts, checks them with TLC on small instances and proves
the most important invariants with TLAPS for instances of any size. Paths below are
relative to the crate (`src/src/` in `PROJECT.json`).

## 1. Inventory

| Component | State it keeps | Operations | How it interacts | What is hard | What makes it correct |
|---|---|---|---|---|---|
| Task-group store (`agent/task_group.rs`) | generation per session; unclaimed groups with members, results, deadline | create, add child, record result, expire, three claims, advance and cancel a generation | called by the coordinator only, one mutex | claims race; a reset races with reports and late results | a child's result is delivered once; nothing of an old generation survives; an owner gets a turn's results together |
| Agent coordinator (`agent/coordinator.rs`, `agent/store.rs`) | scopes (status, terminal, handle, permit), records, owner→group and child→group maps, a semaphore | reserve, join a group, finish, join children, collect, finalize, cancel subtree, reset | `task` tool, subagent loop, HTTP handlers, run loop | every operation is several lock sections; calls and futures are dropped or aborted between them | permits conserved, one terminal per child, parents complete after children, cancel settles its targets |
| `task` tool and subagent loop (`tools/meta/task.rs`, `teams/subagent_loop.rs`) | the child's future, its batch of results | spawn, synthesis barrier, timeout, finish | drive the coordinator | a caller is dropped half-way; nested calls compete for permits | results arrive; waits end |
| Run registry and scheduler (`daemon/run_loop.rs`, `daemon/state.rs`) | the run slot, message queue and claim, background-result inbox, failed-save barrier, event channel | post, retract, claim, handoff, finish, ack, requeue, block | clients, background tasks, ready groups, the session store | a client, a finishing turn and the scheduler meet at the slot; saves fail; hints are dropped | one turn at a time, no leaked slot, nothing lost or doubled, FIFO, progress |
| Approval bridges (`teams/permission_bridge.rs`, `daemon/interaction_bridge.rs`, handlers and ports) | pending entries, oneshot channels, remembered resolutions, session rules | ask, wait, time out, drop, resolve, grant | tool ports wait, HTTP handlers answer | answer against timeout, duplicates, cancelled runs, disconnecting clients | first decision stands, fail closed, no late or second answer approves a rule, no phantom prompt |
| Session event streams (`run_loop.rs`, `daemon/ws_push.rs`) | sequence numbers, broadcast hub, replay buffer, per-client cursor and backlog | publish, subscribe with a cursor, catch up, resync on lag | every client | publish and subscribe are two steps each; buffer and hub forget at different sizes; restart | no event lost without a gap notice, none out of order, a connected client catches up |
| Session saves (`run_loop.rs`, `daemon/handlers/sessions.rs`, `session/`) | save generation, write lock, session file and version | start, title, mid-run and final save, PUT, DELETE | run loop, clients | snapshot tasks are late, cancelled, panic, fail | an older history never replaces a newer one; the final save stands; a run settles |
| Per-turn snapshots and `/undo` (`tools/checkpoint_store.rs`, `tui/`) | manifests and blobs per turn, on disk | begin turn, capture before an edit, prune, rewind a range | file tools, subagents, `/undo` | unlocked read-modify-write by several agents | undo restores what was there before the oldest turn it takes back |
| Execution session: nodes and verify gate (`exec_session/node_runtime.rs`) | nodes, budgets, attempts, gate, captured work state | begin, verify, decompose, review, roll back, restart | agent tools | steps release the gate before they mark; operations are dropped half-way | Verified only after what the route asks for passed in one attempt; verdicts land on their own node |
| Work graph (`exec_session/runtime_store.rs`, `decompose.rs`, `work_graph.rs`, `org_graph/work_state.rs`) | pending root-cause route, units, budgets, audit | route, reserve, bind, report, terminal, decompose | `task` tool, daemon start | report, terminal, abort and relaunch race for one route | the root is held while a failure has no diagnosis, and no longer; budgets never grow |
| Execution session: git rollback (`exec_session/coordinator.rs`) | the execution turn (HEAD, untracked files), session.json, node chain | begin, commit, roll back in stages, resume | git, snapshots | crash or error between two stages | a repeated rollback lands where an undisturbed one would; the user's files survive |
| Agent loop (`agent/runtime/`, `api/types.rs`) | history, boundary, frontier, summary, round counters | build the view, compact, request, run tools, repair, save | daemon, TUI, subagents | several cuts and repairs at indices into a growing history; saves repair it concurrently | requests pair calls and results, fresh results are shown, turns end |
| Task list (`tasks/`) | tasks with blockers, one file each | create, update, complete, set dependencies, delete, load | agent tools | checks and saves outside the lock; ignored failures | some open task is ready |
| Memory (`context/`) | pools, index, files, lock file | add, load, delete, consolidate, prune | tools, CLI, daemon, other processes | load and consolidate against add and delete; stale locks | one consolidator at a time; nothing lost |
| Mailboxes and approval registry (`teams/`) | JSONL files, waiters | send, drain, register | subagents, other processes | drain is read, then truncate | no message lost |
| Background commands (`tools/execution/`) | running tasks, sessions | start, poll, kill | run scheduler | completion races kill | one result per task |

The remaining parts (model API client, MCP, terminal UI, CLI, configuration, prompts,
permission policy, sandbox, plugins, knowledge, WASM, transcripts, utilities) parse,
format, render or call external programs. `PROJECT.json` lists every part with its
status and, under `hazards`, each place where the code is exposed to something a test
would hardly reach, with the properties that would catch it going wrong.

## 2. Modules

| Module | Models | Built on |
|---|---|---|
| `TaskGroupStore` | the operations of `TaskGroupStore`, as actions on `generations`, `groups`, `minted`, `overdue` | |
| `TaskGroupDelivery` | its concurrent callers: who may add, report, claim, reset, and what each owner has been handed (`inbox`) | `TaskGroupStore` |
| `ResultDelivery` | the abstract promise: a registered child's result is withheld, discarded or delivered, once | |
| `TaskGroupDelivery_proofs` | four theorems, the refinement of `ResultDelivery` among them | `TaskGroupDelivery` |
| `AgentCoordinator` | coordinator, `task` tool, subagent loop, cancel, reset | `TaskGroupStore`; instantiates `TaskGroupDelivery` as the contract it must keep |
| `AgentCoordinator_proofs` | eight theorems | `AgentCoordinator` |
| `RunScheduler` | one session's slot, queue, inbox, turns and the continuation scheduler | |
| `RunScheduler_proofs` | two theorems about the slot and four about what the turns carry: saves, background results, messages | `RunScheduler` |
| `ApprovalBridges` | both bridges, the two waiting ports, the two resolving handlers | |
| `ApprovalBridges_proofs` | five theorems | `ApprovalBridges` |
| `WorkGraphRouting` | pure part of the work graph: routing, budget split, adaptation of a plan | |
| `WorkGraph` | the node state machine, the verify gate, decomposition, the root-cause route, restarts | `WorkGraphRouting` |
| `WorkGraph_proofs` | three theorems about verdicts, passes and budgets, four about the hold on the root | `WorkGraph` |
| `SessionEvents` | hub, replay buffer, SSE and WebSocket clients | |
| `SessionSaves` | saves of runs, snapshot tasks, PUT and DELETE | |
| `Checkpoints` | turn snapshots, captures by several writers, `/undo`; a capture is `raced` when another, or a turn that makes the directory anew, meets it half-way | |
| `NodeRollback` | the workspace, its commits and snapshot, a node's rollback in stages | |
| `AgentLoop` | the conversation of a turn: view, compaction, tools, repairs, saves | |
| `TaskList` | the project's task list and its files; the walk of the cycle check is the least set that is closed under blockers | |
| `ConsolidationLock` | the lock file of the memory directory, over crashing processes | |
| `AgentLoop_proofs` | one theorem about requests and saved conversations | `AgentLoop` |
| `SessionStores_proofs` | two theorems each about saves and streams, one each about the lock and the task list | `SessionSaves`, `SessionEvents`, `TaskList`, `ConsolidationLock` |
| `MCSessionStores` | the seven models above for one session or project; `part`, picked at the start, says which of them a behaviour is about, since they share no modelled state | `SessionEvents` ... `ConsolidationLock` |
| `MCSessionStores_proofs` | snapshots and `/undo`, node rollback, and what the `session_stores` run checks of them all together | `MCSessionStores`, `SessionStores_proofs`, `AgentLoop_proofs` |
| other `MC*` | small instances: model values and, where it is sound, symmetry | |

How state and steps correspond to the code:

* **One step is one critical section**, one send, or one end of a future. Where the code
  does several things under one lock, so does the action; where it drops a lock or awaits,
  the action ends, and any other action may come in between. `reserve_child`, for example,
  is `Admit`, `AcquirePermit`, `InsertRecord`, `InsertScope`, `MarkRunning`; `finish_child`
  is `Finish` (settle the scope), `Persist` (store), `Record` (group result);
  `PermissionBridge::resolve` is `Take`, `Send`, `Remember` or `Take`, `Lookup`.
* **Programs are places.** `call[c]`, `fut[c]`, `canceller.pc`, `sched.pc`, `runs[r].phase`,
  `ask[r]`, `posts[p].pc`, `op[a].pc` (tools on a node), `conn[c].at` (a client's stream), `run[r].at`
  and `job[r][g].at` (a run and its save tasks), `call.at` (a rollback), `at` (the agent loop),
  `taskCall[c].at` and `lockAt[p]` say where an activity stands between two of its lock sections.
* **Dropped futures are actions**: `InterruptRoot` (the user cancels a run inside a
  `task` call), `LoopFails` (timeout, cancellation or error of a subagent), `CancelTimeout`
  (abort after the grace period), the dropped tool calls of `WorkGraph`, `CancelTurn`, `Dies` (a turn ends before its start save), `Drop` and
  `Disconnect` (a waiter or an HTTP handler goes away). Each keeps exactly what the dropped
  future had already done, and runs the code's drop guards.
* **Data is abstracted** to what decides: a result is its terminal, a message a model value,
  an answer yes or no, a uuid an element that is never reused. A client's `always` answer
  names any rule or none, whatever the prompt was about, since the handler takes what the body says. A history saved by a run is the
  set of changes it holds, a message of the conversation its role and call id, its size a weight.
* **History variables** (`inbox`, `registered`, `torn`, `parked`, `accepted`, `evicted`,
  `history`, `proven`, `commanded`, `taken`, `raced`, `gone`, `late`, `landed`, `meddled`, `stranded`, `drifted`, `stolen`) record what happened for the properties and guard nothing in the code's
  steps; `minted` and `registered` also stand for the freshness of uuids.
* Operators called a *wrong variant* next to an action are the bugs the properties were
  tried against (`mutants` in `PROJECT.json`); no specification uses them.

## 3. Runs

### Runs that pass

| Run | Instance | States | What it shows |
|---|---|---|---|
| `task_group_delivery` | 1 session, 2 owners, 2 children, 2 groups, 2 generations | 23 thousand | the store under racing callers: `DeliveredAtMostOnce`, `OnlyCurrentGroups`, `BatchesWhole` (an owner's results of a turn come in one claim), and the refinement of `ResultDelivery` |
| `coordinator_cancel` | 2 children, depth 2, 2 permits; 1 cancel, 1 interrupt or 1 expired group | 654 thousand | a disturbance against spawning, joining and finishing agents: `PermitsAccounted` (conserved, and with live scopes), one terminal per child that is recorded after its children's (`TerminalsInOrder`, `TerminalKept`), `CancelSettlesTargets`; every step on the store is one `TaskGroupDelivery` allows (`UsesStoreAsPromised`), so the store's theorems carry over |
| `coordinator_reset` | 2 children, depth 2, 2 permits, 1 reset, 2 generations | 872 thousand | a reset against the same agents: `MappingsFollowGeneration`, `UsesStoreAsPromised` |
| `coordinator_live` | 2 children, depth 2, 1 permit, 1 interrupt, 2 expired groups | 61 thousand | `NothingWaitsForEver`: every root child that joined a group is delivered, and a nested call waiting for the only permit gets on |
| `scheduler_safety` | 3 messages, 2 background tasks with a duplicate report, 5 run ids, queue of 2, inbox of 1, 1 failure, 1 retraction | 1.05 million | `RunOwnsSlot`, `SlotHasHolder`, `ResultsAccounted` (neither lost nor doubled, every batch has an owner), `QueueOrderKept` (FIFO, retracted messages never run), `NoContinuationOverUnsaved` |
| `scheduler_live` | 2 messages, 1 task, 1 group, 5 run ids | 122 thousand | retained results and ready groups are delivered (`ContinuationsDelivered`), messages parked behind a turn start (`QueuedBehindRunStarts`) |
| `approvals` | a root prompt, a subagent prompt, a question, two of them made; 2 posts, 2 rules, memory of 1 resolution | 545 thousand | `DecisionStands`, `FailClosed`, `RulesAreGranted`, `NoPhantomPermission`, `PromptsAccounted` (each dismissed once), `AskEnds` |
| `work_graph` | 2 agents, 2 nodes, 2 automatic retries, 5 tool calls, 1 crash, 1 dropped operation | 705 thousand | `VerifiedWasProven`: with the Rust profile a node is Verified only after all its anchors passed in one attempt and the human asked for approved, without it only after its own verify commands passed; `PassesSound`: two passes do not mix their results; `BudgetNeverGrows` over decomposition and rollback |
| `root_cause` | 1 agent, 2 specialists, 3 automatic retries, 5 tool calls, 1 crash, 1 abort, no decomposition | 221 thousand | `HeldForADiagnosis`: the root is held back exactly while a failure on record has no report, also after a restart; `DiagnosisIsNotBypassed`; `VerdictsAreAboutTheirNode`; `CallsAndRoutesEnd` |
| `session_stores` | see Bounds | 445 thousand | `StreamsSound` (a client misses nothing it was not told of), `NothingGoesBack` (events in order, no stale overwrite), `SavesStand`, `FilesComeBack` and `UndoRestores` (snapshots, `/undo` and node rollback), `ConversationSound` (well-formed requests, fresh results shown, whole saves), `SharedFilesSound` (some open task is ready, one consolidator), `StoresProgress` (events arrive, runs save, turns end) |

Properties with several parts are conjunctions of named definitions; the part that failed is
found by putting it in the cfg instead.

### Runs that refute a claim of the repository

Each checks one sentence of the docs or comments against the model of the code; the
quotation is in `PROJECT.json` under `findings`.

| Run | Claim | What the code does |
|---|---|---|
| `cancel_stuck` | a cancelled run settles with its history saved | the cancelled loop future stays pinned, and unpolled, in the queue of the fair history mutex; if a snapshot task held the mutex at that moment, the final save waits behind the loop for ever |
| `verified_lost` | a rollback keeps the work of verified nodes | every node starts in the session's only execution turn, so the rollback of the second node resets git to where the session began; the first node's commit is gone |

### Other disagreements

Met while modelling or reading. Where a module is named the model contains the behaviour, and
the property's exception names it.

**Coordinator and groups** (`AgentCoordinator`)

* `reserve_child` writes `Running` after the scope is visible, so a cancel in between settles
  a child that is then revived. The properties of `coordinator_cancel` except such children (`torn`).
* A `task` call dropped between inserting the scope and spawning leaves a scope that holds its permit
  for ever, though permits are said to be released on every path
  (`docs/superpowers/specs/2026-07-11-strict-subagent-isolation-design.md:573`).
* A subagent that times out or fails is `Failed` at once while its children run on, against
  `2026-07-12-unified-subagent-lifecycle-design.md:329`.
* `cancel_root_children` stops at the first child whose group refuses the result; its siblings
  are not cancelled. `CancelSettlesTargets` holds only where no group expires, and
  with no interrupted reservation, which leaves a record without a scope.
* An abort between the scope and the store update of `finish_child` leaves the record `Cancelling`;
  `finish_child` releases the permit before the store knows the terminal.
* `root_context` (`daemon/state.rs`) looks a root up and creates it in two steps; two first requests may
  create two roots.

**Scheduler** (`RunScheduler`)

* A message may be parked after the run has settled and the scheduler gone to sleep: it waits for the next
  event (`post_run` tests the slot and enqueues in two steps).
* A turn that dies before its start save leaves `MessageInbox.claim`, and `claim_head` refuses the queue for good.
* A message may run under the id promised to the message before it, when that one is
  retracted between the peek and the claim.
* The results of a task group claimed for a continuation are lost if its start save fails.

**Approvals** (`ApprovalBridges`)

* `InteractionBridge::request` cleans up after its await and has no drop guard: a dropped question stays listed.
* `resolve_subagent_permission` approves the `session_rule` of the body. It does not compare it with the rule of the
  pending request, and "Required when `always` is true" (`daemon/models.rs:141`) is not enforced: an `always` without
  one approves none. `RulesAreGranted` says which answer may approve a rule, not which rule.
* An answer that arrives after the id is published and before the entry is inserted gets 404,
  and the root waits for another; one that takes the entry just before the waiter is dropped
  suppresses the resolved event; a second answer between `Take` and `Remember` gets 404, not 409.

**Nodes and work graph** (`WorkGraph`)

* The complete route releases the gate before it marks, and marks the *current* node; begin and rollback
  never take the gate. `VerifiedWasProven` excepts the nodes this hits (`overtaken`); `VerdictsAreAboutTheirNode`
  is checked and proved for one agent without a reviewer, where it cannot happen (a cancelled run does no harm), and
  is false beyond.
* `rollback_node` of a decomposed, escalated node restores the budget and keeps the failed anchor: the next
  step is a root cause with no current node, and every mutating tool is refused until a restart.
  `HeldForADiagnosis` is checked without decomposition for that reason.
* A child aborted, or a run cancelled, during the launch of a specialist leaves its route pending (`cuts`).
* `decompose_node` panics on its checked subtraction, and `current_node().expect` after a rollback, both
  under the write lock, which stays poisoned (`poisoned`).
* The floor of two iterations per unit breaks when at most two remain; a second decomposition overwrites
  `pre_decompose_budget`; a human reject during an admitted
  verify is bypassed; a legacy node cancelled while verifying stays `Verifying`; rollback anchors on the last
  Verified *or Failed* node; units' charges and routes are not captured; a subagent's root-cause dispatch never
  binds; a rejected specialist report leaves its value in memory; a crash inside `begin_node` leaves the new node
  with the old work state. `record_human_review` has no caller in production.
* Without the Rust profile, that is without compile and test commands, `verify_current_node` takes the legacy path
  (`node_runtime.rs:935`, `1140`): the node's own verify commands pass and it is Verified. No compile or test anchor
  runs and no human is asked, although the tool's descriptions say "Require a trusted human approval before
  completion" and "'high' forces the terminal human review gate" (`node_tools.rs:247`, `252`). `VerifiedWasProven`
  says what is earned on each route (`Earned`) and does not claim the promise for this one.

**Streams and saves** (`SessionEvents`, `SessionSaves`)

* `subscribe_session_events` reads the buffer before it attaches to the hub, and publish sends before it
  buffers: an event in between reaches the client neither way. After a daemon restart an old cursor beyond
  the new numbers counts as up to date.
* PUT tests for an active run and writes later; the title's save does not bump the version; a DELETE during a
  run can be undone by a save; a dead run's snapshot task can overwrite the next run's start save; a title, written
  back over a PUT that was admitted before the run, and such a task take the version back, so that a later PUT may be
  accepted for a version that was already written (`OnePutPerVersion` starts over at these points);
  `persist_to_disk` is not atomic.

**Snapshots, undo, rollback** (`Checkpoints`, `NodeRollback`)

* Manifests are read, changed and written without a lock and blobs named by the number of entries: two agents
  that capture at once lose a capture. A late subagent captures into a finished turn. Pruning may take
  the execution session's directory, after which the work state cannot be captured; `rewind_range` skips missing
  manifests silently; undo of code only, then to a later turn, mixes two trees.
* File tools capture under the daemon's turn id, so the execution turn's snapshot is empty: uncommitted edits
  of tracked files survive a node's rollback when HEAD has not moved. Once its directory is pruned the rewind
  fails after git has been reset, and so does every later rollback. A user's untracked file that an agent
  commits is deleted by the reset, though rollback "never touches files the user had before the turn". Projects
  without git restore nothing.

**Agent loop** (`AgentLoop`)

* In the TUI's own loop `spawn_save_session` repairs the *live* history: run late, it answers a running call
  with "[Tool execution interrupted by user]", and the real result is later demoted to a user message.
* Synthetic results are appended after the user messages that came in between, so after an interrupt they do
  not follow their call; saves repair copies.
* `advance_frontier` and the fallback keep the last three tool results: a round of more calls that crosses the
  watermark has results replaced that the model never saw. `FreshResultsShown` covers rounds of at most
  `KeepResults` calls.
* An interrupted turn's orphan call makes the loop compact again and again until the requested save repairs the
  history; `TurnEnds` therefore assumes that save.
* `/compact` puts summary and boundary on a loop that is dropped; the next turn sends the full history.

**Task list and memory** (`TaskList`, `ConsolidationLock`)

* `update` checks under the read lock and writes later, so a task may start although a blocker was added
  meanwhile. The saves of complete, set_dependencies and delete fail silently, and update saves an older copy
  after the lock: a restart may load a cyclic list on which nothing is ever ready (`drifted`). Deleting a blocker
  blocks its dependents until their dependencies are set again.
* Two processes may both consolidate: one removes the file the other has just created, having judged the
  previous one, or judges a file before its owner has written its pid, or drops its guard after losing the file
  (`stolen`), while the comment says that in the worst case "both processes remove then one wins create_new". The doc calls a
  lock stale if it is old *or* its process is dead; the code wants both.
* No module covers the pools. By reading: the daemon never loads its `MemoryManager`s, so
  `POST /memory/prune` consolidates only what was added since its start, and `reconcile` removes every other memory
  file; `load` reads the disk and replaces the pool with no lock across, so an `add_memory` in between vanishes and
  the next consolidation deletes its file; `delete_memory` removes the file before it takes the lock, so a
  consolidation may write it again; tombstones are dropped once live memories reach the maximum; `import` and
  `clear` leave the index alone.

**Not in a module**: `Mailbox::receive_all` loses a message that another handle appends between its read and its
truncate (`teams/mailbox.rs:182`); finished command sessions never leave their map, and `finished` may be reported
before the last output is read.

### Bounds, and why they are enough

Two children give a parent and a child, or two siblings; two groups give the root's and a
parent's, or an old and a new generation's; one canceller with one request walks every shape of
tree the children can form. Two permits let a parent and a child be live together, one permit
makes them compete. In the scheduler one failure and one retraction may hit any step; an inbox
of one result forces eviction, a queue of two is overfull by a requeue, three messages tell
FIFO from a requeue at the back, five run ids let a failed start be retried behind two further
turns. Two posts are a decision and its duplicate, or answers to two requests, so no more
than two of the three requests are made in one behaviour, each pair in some (`MaxAsked`); of two rules the prompts
are about one and a client may name the other; a memory of one resolution forces eviction. A cancel, an interrupt and an expiry are each tried against the two-level
tree, but not two of them together (`MaxDisturbances`), except interrupt and expiry in
`coordinator_live`. `MaxGeneration`, `MaxCancels`, `MaxInterrupts`, `MaxDeadlines`,
`MaxReports`, `MaxFailures` and `MaxRetractions` bound how often the environment acts and appear only
in the guards of its actions.

`work_graph` has two agents because gate, pass and mark of one meet begin and rollback of the other, and two
nodes because a verdict can then land on the wrong one; five tool calls reach begin, a failed verify, decompose,
rollback and begin again. `root_cause` has two specialists so that a relaunched one meets the late report of the
first. `session_stores` gives each part its own bounds: three events for a buffer and a hub of two, so both
overflow, at different times, with one foreign event, one lost connection and one restart; two runs, two PUTs, two
snapshot tasks per run and one disturbance, so that a task of the first run is late for the second; two files, two
writers, three turns with two snapshots kept and three undos, so that one is pruned and undo follows undo; a
project with a committed file, a file of the user's and a new one, two writes, two nodes and one fault, so that a rollback is cut
once and repeated; all three front ends of the loop over two rounds and two user turns, with a watermark and a
threshold that two messages cross, one result kept and one continuation, and two calls, so that the fallback of a failed
request cuts an old result down while the latest has to stay (no call reads a file, whose result the fallback would
spare: the theorem has any `ReadCalls`); three tasks, the shortest chain the cycle
check has to walk, four operations and two failures or restarts; three processes at the lock, an owner, a judge and a
newcomer.

All instances may stop when the environment's bounds are used up,
so deadlock is not checked; that the program gets on is what the liveness properties say. Symmetry is used for safety runs only.

### Fairness

* `AgentCoordinator`: futures that were spawned are polled; tokio's mutexes and its semaphore are first come
  first served, which is strong fairness for the steps that wait for them; `LoopFails` is
  fair because every subagent loop runs under `tokio::time::timeout`; deadlines pass;
  `RootSweep` and `RootPick` are fair because an attached client polls them. The model's
  choice to answer (`CandidateFinal`) is not assumed.
* `RunScheduler`: the scheduler task, the hint forwarder, started turns and a started
  handler are polled; a turn ends because the loop has a round limit and its calls have timeouts.
  Clients need not act, saves may fail in the safety run; `scheduler_live` has no failures
  because a failed save blocks continuations on purpose.
* `ApprovalBridges`: a waiter is polled and a subagent's timer fires. Nobody has to answer, so
  only subagent prompts and delivered answers are promised to end.
* `WorkGraph`: a tool call that has started goes on (strongly, where it queues for the fair gate), and specialists
  that were launched end, by report, failure or timeout. No tool has to be called.
* `MCSessionStores`: the publisher buffers what it sent, stream tasks, runs and save tasks are polled, an admitted PUT
  is finished. For the agent loop fairness is stated by what it comes to (`LoopGoesOn`: a busy loop does not
  stand still; `SaveIsMade`: a requested save is not put off for ever): model calls and tools have timeouts.
  Clients, users and processes need not act.

## 4. Proofs

TLAPS proves, for any values of the constants that satisfy the named assumptions:

| Theorem | States | Inductive invariant |
|---|---|---|
| `DeliveredAtMostOnceTheorem`, `GroupsCurrentTheorem`, `BatchesWholeTheorem` | no child's result is handed over twice; no group of an earlier generation stays; a claim hands an owner all it still has out in a turn, or nothing | `DeliveryInv`: types; a child is in at most one group and was registered; a delivered child is in none; one open group per owner and turn; generations |
| `ImplementsResultDeliveryTheorem` | the store implements `ResultDelivery` | `DeliveryInv` |
| `CoordinatorInvTheorem` and from it `PermitsTheorem`, `TerminalsTheorem`, `MappingsTheorem`, `TerminalKeptTheorem` | permits conserved and held by the live; one version of a terminal, parents complete after children whose results they used; mappings follow the generation; terminals are final | `CoordinatorInv` |
| `StoreUseTheorem`, `DeliveredOnceTheorem` | the coordinator's steps on the store are steps of `TaskGroupDelivery`, so exactly-once delivery holds under it | `CoordinatorInv` |
| `CancelTheorem` | a cancel request that is over left its targets terminal | `CoordinatorInv` and `CancelInv` |
| `RunOwnsSlotTheorem`, `SlotHasHolderTheorem` | every active turn owns the slot; the slot is never held by nobody | `SlotInv` |
| `BarrierTheorem` | no turn but a client's own begins on a turn that did not save | `SlotInv`, `BarrierInv` |
| `ResultsKeptTheorem`, `ResultsAccountedTheorem` | background results are not lost, batches have owners, bounds hold; none is durable twice while the tombstones suffice | `ResultInv`, `OnceInv` |
| `QueueOrderTheorem` | messages become durable in the order they were queued; a retracted one never runs | `LineInv`, `CarryInv` |
| `DecisionStandsTheorem`, `FailClosedTheorem`, `RulesAreGrantedTheorem`, `NoPhantomPermissionTheorem`, `PromptsAccountedTheorem` | the five safety promises of the approval bridges | `IInv`, `PromptInv` |
| `VerifiedTheorem`, `PassesTheorem`, `BudgetTheorem` | Verified only after what the route asks for; passes do not mix; budgets never grow | `SessionInv` |
| `StreamsSoundTheorem`, `DeliveredInOrderTheorem` | the buffer has no gap and a following connection misses nothing it was not told of, but for the events of `blind`; the numbers a client sees only grow, except at a resync | `EventsInv` |
| `SavesStandTheorem`, `NoStaleOverwriteTheorem` | what was saved stands; no late save takes back what its run has on disk | `SavesInv` |
| `GateSurvivesTheorem` | while nothing is decomposed, a root that is held back in memory is held back after a restart | `HoldInv` |
| `HeldForADiagnosisTheorem`, `VerdictsTheorem`, `NotBypassedTheorem` | with one agent, no decomposition and no reviewer: the root is held back only for a failure a specialist can be asked about; reports and verdicts are about their node; nothing takes the root around the report | `AloneInv`: `SessionInv` and `RootInv` |
| `CheckpointsSoundTheorem`, `UndoRestoresTheorem` | a manifest is intact unless captures overlapped; `/undo` gives each file the content it had when the turn began | `UndoInv` |
| `RollbackKeepsItsWordTheorem` | a rollback that is past its stages is where it says, and the user's own files are there | `RollbackInv` |
| `TaskListTheorem` | some open task is ready, unless restarts loaded a list that drifted | `TaskInv`: no set of tasks waits only for itself |
| `ConversationSoundTheorem` | every call in a request is answered once, before the next answer of the model; a round of at most `KeepResults` results is shown in full; what the daemon has saved needs no repair | `LoopInv` and `LatestInFull` |
| `FilesComeBackTheorem`, `SharedFilesSoundTheorem`, `NothingGoesBackTheorem` | the properties of the `session_stores` run that join several stores | those of the stores |
| `OneConsolidatorTheorem` | two processes consolidate at once only after a file was removed unjudged or judged unwritten | `LockInv`: a process that writes or holds has the file there is; who is about to remove it has found nobody working under it |

**Delivery.** `DeliveredAtMostOnce` looks only at `inbox`, and a claim hands over whatever a group holds; to know
that this is the first time, the invariant has to say that no child is in two groups and
that a child in a group has an empty inbox. Creation, reports and sweeps keep it since they never
move a child; `HandOver` empties exactly the group it reads; `AddChild` uses the
freshness of child ids. `BatchesWhole` needs more: that lookups never split an owner's turn over two groups (`OneGroupPerTurn`),
so that all it has out in a turn are the members of one, and that a group is handed over only when each member has reported,
by itself or through the sweep. The refinement maps a child to idle, awaiting, settled, discarded or delivered by where it is: a sweep that
settles several children and a reset that discards those of every group it closes are one abstract step each. Assumptions: `NoTurn` and `None` are no ordinary values, `Children` is finite, `MaxGeneration` is a
natural number.

**Coordinator.** None of its properties is inductive alone. Four arguments meet in `CoordinatorInv`: every
permit is counted in one place (`PermitsConserved`); the place of a call or a future says what its scope and
record may be, so that a finisher, the canceller and a dropped call never disagree about a child
(`Reservation`); every step on the store is one the store's specification allows, so `DeliveryInv` holds
throughout; and an agent passes its synthesis barrier only when every child it registered is over and used
(`BarrierSound`). `CancelInv` adds, while no deadline has passed, that children are mapped to open groups, so that
no finisher is refused (`MappedIsOpen`), and that every target of a request is terminal, still to come or the one
the request is at (`RequestTracked`). The proofs found two places where the properties said too much:
a child that its group refused was never spawned, so `CompletesAfterChildren` asks for the use of registered
children only, and a child whose call was dropped before it had a scope is terminal in the store, which
`CancelSettlesTargets` now reads (`StatusOf`). Assumptions: the root is an owner and no child, `NoGroup` is no
group and no result, the limits are natural numbers.

**Slot.** "Every active turn owns the slot" is not inductive: when a turn ends, the slot stays
claimed until the scheduler handles its `RunFinished`, and the scheduler then owns it while it
decides. `SlotInv` says that there is at most one *holder*: an active turn, a `RunFinished`
event in the channel, or the scheduler (with the finished run or the one it has just claimed),
that the holder's run id is the slot's owner, and that ids not yet used hold nothing. The lemmas
follow the shape of the code: `TurnGoesOn` and `TurnEnds` for what a turn does, `TakesSlot`, `GivesBack`
and `StartsRun` for what the scheduler does, so that each action is one citation.

**Barrier, results, queue.** All three rest on the single holder: whoever settles a claim does it alone.
`BarrierInv` follows an unsaved turn from the event in the channel through the scheduler's requeue and block to
the flag that the three checks read. `ResultInv` says who holds a claimed batch (`BatchHeld`), that the turn's
items are those of the batch (`BatchCarried`) and that what it has saved is durable; `OnceInv` that each result is in one
place of the inbox and that the durable ones are the consumed ones and those about to be acknowledged.
That last part needs `TombstonesSuffice` (`MaxTombstones` covers the session's tasks), an hypothesis of
`ResultsAccountedTheorem` alone: the inbox forgets the oldest of 1024 tombstones, and a report repeated after that
is accepted and becomes durable a second time. `LineInv` ties queue, claim and history to the order in which messages
were parked, also through a requeue at the front, and `CarryInv` a claim to the turn that carries it.
`NoContinuationOverUnsaved` is an action property; it speaks of every turn that becomes active, not of those of the
scheduler's start action only. Assumptions: capacities are positive, `None` is no run id, messages, tasks and groups
are different things (`KindsAssumption`).

**Approvals.** The four promises need one another's bookkeeping: an entry that an answer took is not listed again
(`EntryInv`), a channel that holds a value was filled by the one post that took its entry
(`ChannelInv`, `OneTaker`), a rule named with `always` is approved by a post that got past `Send`, so that its answer decided, what is remembered or shown is what is in the channel (`MemoryInv`,
`PostInv`), and a waiter that goes on with yes received it (`WaiterInv`). The fifth, that a prompt is dismissed
once, counts by the waiter's place (`PromptInv`). Assumptions:
the three kinds of requests are disjoint and the memory holds at least one resolution.

**Nodes.** On the Rust route a node is marked Verified two steps after the router has decided, without the gate; by then begin,
rollback, a cancelled run or a restart may have changed every result. What carries `VerifiedWasProven` is that
a pass holds the gate (`GateHeld`), that `prepare_work_graph_pass` clears the results in memory *and* on disk,
so that whatever is found there, after a restart or a rollback too, is of one pass (`OwnResults`, `ResultsOfOnePass`), and
that until the current node has its proof every pass and result is about it and no verdict is on its way
(`Unsettled`). On the legacy route the mark goes, without any gate, to the node
whose commands were started, however the chain has moved meanwhile; `Commanded` follows the success from the one to the other. Operations that judge nothing are shown to be `Calm`, and one lemma covers them. For
`BudgetNeverGrows` the units of a decomposition have equal shares (`EqualShares`), so what the open ones hold is a
product that a finished unit only lowers, and a decomposition takes from the parent what it lends. `ChainInv` says that
ids grow along the chain and that the current node is in it. Assumptions: `Nobody` is no actor, requests have a risk,
a number of specialists and a review flag, a decomposition has at least one unit, verdicts approve or reject, and the kinds
of actors are apart (`ActorsAssumption`: a specialist is not one of the agents).

**The hold.** Unlike the three theorems above, these are about a restricted system, and have to be: with a decomposition,
a second agent or a reviewer TLC finds the behaviours of section 3. The hypotheses are those of `root_cause`'s instance and
nothing more; any number of specialists, nodes, cancelled runs, aborts and crashes is allowed. For a restart to find the hold, it
is enough that nothing is decomposed (`HoldInv`): every step writes what it leaves in memory, or leaves the routing as it was. That
a hold is answerable rests on the root standing still (`RootStays`): while it is held, while a route is out
or a child's verdict is being marked, it is idle or about its specialist, so nothing it does can move node, results or
attempt. Then the failure a hold, a route and a report are about is on record under the current node's last attempt
(`OnRecord`, `RouteIsCurrent`), and whoever marks a node marks its own (`OnOwnNode`).

**Streams.** A receiver skips whatever is not above its marks (`seam_seq` of SSE, `delivered` and `snapshot_tail` of the
pump), so that it loses nothing rests on what the marks stand for: `Complete` says that all up to every mark, and all the
receiver has gone past, is told, that is given to the client, in its backlog, announced as lost or in `blind`. An event that is
passed on becomes a mark; that all below it is told needs `HubInOrder` (the hub has every number once and in order, so
what is below the next event is behind the receiver). A replay is complete because the buffer holds the newest numbers
without a gap (`BufferNewest`); a resync covers all but the event in flight. For the order, `Ahead` keeps the cursor at a mark and
the backlog above the cursor, and the backlog below the next live event, since it is of the snapshot or was taken from the hub.
`Reading` carries an SSE decision to the moment the connection joins the hub. The theorems hold for any number of clients
and any capacities; what stays in `blind` are the three windows of section 3. Assumptions: capacities and the replay
batch are positive, no client is of both kinds. `events_after` is written as the end of the buffer rather than as a filter,
because nothing is known to the provers about `SelectSeq`; the two agree on a sequence that grows, and TLC would
stop at the CHOOSE if the buffer's did not.

**Saves.** Both properties are about what is on disk when a save writes, long after the save copied the history,
took the lock and compared generations. `Newer` says what those steps bought: a save that passed its check, or still
can, has every change of its run that is on disk or in a save ahead of it, because a copy is of a history that only grows
and only the newest generation passes. `Locks` says that one save of a run is under way, `Generations` that the final
save's generation is above every task's, so that no task passes after it, `Finals` that the next run's history and saves
contain what earlier runs left on disk, unless somebody meddled, and `Updates` that a PUT writes a version
above all that have landed. The attempt to prove `OnePutPerVersion` showed that it held only for the run's single
disturbance: versions start over when the file is deleted and go back with a title or a dead run's save (section 3), and
the property now says so. Assumptions: the bounds are natural numbers, `Gone` is no session.

**Snapshots and `/undo`.** `UndoRestores` is about one use of `/undo` and the state when a turn began, any number of edits,
prunes and earlier uses of `/undo` before it. `GoesBack` says it at every moment: the content that going back *would* give a file is
the one it had then. It holds along edits because an edit's file has been captured (`Captured`), along new turns because
a file that no later turn has saved is untouched, and after `/undo` because the turns kept say the same of the files
given back. Manifests stay intact because a capture that nobody met writes back what is there and one entry more (`Alone`).
What the exceptions of the property (`raced`, `gone`, `late`, `passed`) leave out is described in section 3. Assumptions: there are finitely many writers, the root is one, at
least one snapshot is kept.

**Rollback.** What a rollback owes is fixed when its turn began, and agents write and commit while it runs. `Stages` says what
each stage passed has left: HEAD at the turn's commit unless somebody committed `during` it, and no file untracked
that was not before. `OwnNotInLog` keeps the user's files out of the commits that the reset may undo, and `OneTurn` says that
memory and disk know of the same turn. Assumptions: the user's files are not committed, at least one snapshot is kept.

**Task list.** `SomethingIsReady` needs a list without cycles, and cycles are made of several calls. `NoCycle` says it without
paths: in every set of tasks, one waits for none of the set. The cycle check keeps that because what it walks is closed under
blockers: a set that waits only for itself would lie within the walk, or not contain the task. A task that is created is safe since
nobody can wait for it before it is in the list (`Fresh`), and a restart because its file then says what will be inserted.

**Conversation.** A request is made anew each time, so the invariant is about what it is made of. Calls without a result may stand
anywhere in it, since a turn stops at any await; what holds is `Sound`: calls are made once and by assistants, a result stands in
the block of its call, once unless the TUI's save answered it while it ran, and a user speaks first. A repair then adds the only answer at
the end of a block, and a result whose call went into the summary has no call left in the view (`TailBlock`), so that demoting
it is enough. It lasts because a call of the round that is still to run has no result (`OnTheWay`). The latest results are shown
because the summary ends before the last assistant message and the markers before those results (`MarksWithin`), also when
a repair has made the conversation longer than the marks know; and they are in full since the fallback, which cuts results
down in the conversation itself, leaves the latest alone when there are no more of them than are kept (`LatestInFull`). `FlattenSeq` joins any number of parts, which the proof takes by
well-founded induction (`Flattens`); for that, the answers a block misses are written in the model as one part per call (`Unanswered`), not
with `SelectSeq`. Assumptions: the frontends are the three there are, the limits are positive.

**All together.** A behaviour of `MCSessionStores` is one of each store, the others standing still
(`StoresAreTheParts`), so each store's theorems hold of the composition, for any values of the constants.

**Lock.** That two holders do not meet says nothing of the process between `Create` and `Sign`, nor of one that has
judged a file and not yet removed it. `LockInv` ties both to the file: while nothing was stolen, who created the file
there is owns it, and a judge of that very file (`seen`) knows that no process is writing or holding, which no
step can change before the file is gone. Assumption: `Nobody` is no process.

The listed theorems state properties that the passing runs check on their instances, or parts of them
(`ResultsKeptTheorem` three of the four of `ResultsAccounted`, `GateSurvivesTheorem` one of `HeldForADiagnosis`, `OneConsolidatorTheorem`
and `TaskListTheorem` those of `SharedFilesSound`), or, like `CoordinatorInvTheorem` and `DeliveredOnceTheorem`, what those rest on and what follows.

**Only model-checked**: all liveness (fairness and ENABLED are outside what the prover does). Every invariant and action property
of the passing runs is stated by a theorem; some theorems have the hypotheses named above.

## 5. Not modelled

`PROJECT.json` gives the reason for each part. The definitions stand for about seven per cent of the crate's lines;
most of the rest draws the terminal UI, formats, parses, configures, calls the network, git or the operating system, or
tests. What is left out of modelled files:

* coordinator: read-only projections for the UI, result handles and `finalize_scope`, `cancel_scope`,
  `join_children_failfast` (called by tests only), node-type contracts, prompt assembly, traces and progress;
* daemon: several sessions at once (the state is per session), project routing, the trace and global hubs,
  heartbeats, archive, metadata and search of sessions, torn files;
* approvals: permission modes, `ask_strategy = deny`, the guardian, the mailbox copy of a request, the legacy
  approve endpoints and the second, per-session rule set a resolved "always" also writes;
* execution sessions: turns after the first (no production caller passes a session to the hooks), projects without
  git, the commands an anchor runs, field permissions of the work state, contents of reports;
* snapshots: skipped (binary or large) files, single-turn variants, failing writes during a rewind;
* agent loop: plan mode, `/compact` by hand, retries of a broken stream (they repeat the request), model fallback; the
  daemon's loop has neither compactor nor stuck detector, and the model says so;
* task list: `todo_write`, which replaces its list whole, and list, get and blocked queries;
* memory: the pools, their index and consolidation policy; of the lock, reused pids and a missing `kill`,
  which leaves only the age;
* mailboxes, background commands and interactive sessions: files and processes with a single hazard each, described above.

## 6. Plan

Done, in this order: task groups and their proofs; the coordinator above them; the run scheduler
and its proofs; the approval bridges and their proofs; nodes and the work graph; streams and saves; snapshots, undo
and rollback; the agent loop; the task list; the consolidation lock and its proof.

Proved, in this order: the slot, delivery, the approvals' four promises, the lock; then the refinement of
`ResultDelivery`, the coordinator above the store, the prompts' accounts, the scheduler's barrier, results and queue,
the verdicts, passes and budgets of the work graph, the session's saves and its event streams; then snapshots and `/undo`, a node's
rollback, the task list, the stores together, the hold on the root, and the conversation of the agent loop.

Worth modelling next: the memory pools with load, add, delete and consolidate as separate steps on memory, index and
files; mailboxes; execution sessions of several turns, once something starts a second one.
