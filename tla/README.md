# Verification of Minion's control plane

TLA+ modules, TLC configurations and TLAPS proofs for the program in `src/`: a
backend that runs long software-engineering tasks with a coding agent.  Paths
below are relative to `src/src/minion/` unless they start with `docs/`.

## 1. The system

| Component | State it keeps | Operations | Interacts with |
|---|---|---|---|
| State machine (`state_machine.py`, `domain.py`) | none | `validate_transition` | every writer of a task |
| Task repository (`repositories.py`, `models.py`) | `tasks` rows: status, version, environment | `create`, `require`, `transition`, `replace_environment`, `list_active` | PostgreSQL, one session per request or execution |
| Work queue (`queue.py`) | a Redis stream and its consumer group's pending entries | `put`, `get` (XAUTOCLAIM, then XREADGROUP), `ack` (XACK + XDEL) | clients put, worker loops get and ack |
| Orchestrator (`orchestrator.py`) | `_running`, worker tasks, heartbeats | `start`, `stop`, `submit`, `retry`, `cancel`, `send_instruction`, `reconcile`, `_worker_loop`, `_execute` | all others |
| Event store and bus (`events.py`, `api.py`) | `events` rows, `last_event_sequence`, subscribers' queues | `append`, `list_after`, `publish_live`, `subscribe`, the websocket | orchestrator and agent append, the API replays and streams |
| Session repository (`repositories.py`) | summary, plan, constraints, active skills | `update_memory`, `append_instruction` | API (instructions), agent (plan, constraints, skills, summary) |
| Environment providers (`runtime/workspace.py`) and leases | warm slots, workspaces on disk, lease rows | `prepare`, `allocate`, `attach`, `release`, `shutdown`, `upsert`, `heartbeat`, `mark` | executions |
| Coding agent (`runtime/agent.py`) | the step counter | `run`, tool turns | context manager, tools, LLM |
| Context manager (`runtime/context.py`) | none of its own | `maybe_compact`, `build_messages`, control tools, completion evidence | session repository, event store |
| Repository mirrors (`runtime/workspace.py`) | one bare mirror per repository under `cache_root`, a file lock each | `_populate` | executions of all processes that share the cache |
| Repository index (`runtime/code_index.py`) | objects, manifests, a file lock per repository | `ensure_index`, `search`, `impact_analysis` | `_preindex_workspace` of every execution, the agent's tools |
| Skills (`runtime/skills.py`) | the discovered skills | `discover`, `auto_activate`, `render` | context manager |
| Tools and policy, MCP, publisher, authorization, configuration | none between calls | one call each | agent, orchestrator |

The behaviours that are hard here:

* **Concurrency.** Several processes, each with several worker loops, executions
  and requests in one asyncio loop, share the table and the stream.  Every `await`
  is a point where the others move.  `transition` is a SELECT and a versioned UPDATE.
* **Failure.** Processes crash between any two statements; calls to PostgreSQL and
  Redis raise; the exception handlers make such calls themselves.
* **Time.** An entry becomes claimable again after the visibility timeout (60 s by
  default) whether or not its execution lives, and nothing refreshes it; executions
  take minutes.
* **Cancellation.** `Task.cancel()` raises at whatever `await` the execution is in:
  before its first step, in its body, in a handler, in `finally`.
* **Order.** Status, event and queue entry are three writes of which any prefix may
  have happened.

What makes each component correct:

* tasks: the table follows the state machine; the log tells only of ends the table
  has; every task that is not finished has somebody to bring it on; a race that is lost
  ends a worker loop in a handler only; accepted tasks end;
* events: the numbers of a session have no gap and no duplicate; clients are shown
  committed events, in order, and all of them;
* environments: warm slots are neither lost nor shared; an agent works in the
  workspace of its task; saved work is not destroyed; whoever waits is served;
* agent: the memory and the prompt cover the history but for what is cut; calls are answered; edits run
  alone; a finished task has evidence; runs end; no instruction is lost;
* mirrors and index: a workspace is no older than its task; one builder at a time; no
  finished manifest depends on half an object; readers need no lock; a damaged cache
  fails no task; a lost lock blocks nobody for ever;
* queries and skills: the impact of a change is complete and at the right distance, a
  definition is found before a mention, the right skills reach the prompt.

`PROJECT.json` lists the hazards one by one at their lines.

## 2. The modules

| Module | What it is |
|---|---|
| `TaskStates` | statuses, `Allowed`, `Legal`, the finished and the active statuses |
| `TaskLifecycle` | abstract specification: a task is created once and moves along edges |
| `TaskRepository` | the tasks table and `transition` as two statements for any set of callers; `Lifecycle` is the refinement mapping to `TaskLifecycle` |
| `WorkQueue` | the stream: actions `Put`, `Deliver`, `Ack`, and what `get` may return |
| `Orchestrator` | processes, worker loops, executions and requests over the two modules above |
| `OrchestratorProperties` | what the whole promises |
| `MCOrchestrator` | the small instances |
| `EventFeed` | abstract specification: a log that only grows, and readers that go on from where they are |
| `EventLog` | `append` with its row lock, the commit, the bus, pages and websockets; `Feed` is the refinement mapping to `EventFeed` |
| `Environments` | warm slots, workspaces and leases of one host, over executions, cancels and restarts |
| `AgentLoop`, `MCAgentLoop` | the agent, its session row, the prompt and the instructions of clients; small instances |
| `FileLock` | the locks of the filelock library as the code uses them, with the locks it loses |
| `MirrorCache` | the mirrors and the git processes that clone and update them |
| `CodeIndex` | the files of the index: absent, torn or whole |
| `RepositoryCache`, `MCRepositoryCache` | the three modules above composed: the repositories of executions in several processes on their way from the mirror into workspace and index; small instance |
| `Ranking` | the order `(-rank, name)` in which files and skills are listed, and the first of a list |
| `RepositoryQueries` | `search` and `impact_analysis` as functions of a manifest |
| `SkillSelection` | discovery, scores and rendering of skills as functions of the scopes |
| `Knowledge`, `MCKnowledge` | questions to the two modules above, and what their answers must be; a stock of questions |
| `TaskRepositoryProofs`, `OrchestratorProofs`, `OrchestratorRecoveryProofs`, `EventLogProofs`, `EnvironmentsProofs`, `AgentLoopProofs`, `RepositoryCacheProofs`, `KnowledgeProofs` | the proofs |

`Orchestrator` composes `TaskRepository` and `WorkQueue`, `RepositoryCache` composes
`FileLock`, `MirrorCache` and `CodeIndex`.  `Environments`, `RepositoryCache` and
`AgentLoop` each open one step of `Orchestrator`: there `Furnish` and `Release` stand
for all of provisioning, indexing and clean-up and `RunAgent` for all of the agent.  They
keep the statuses of the tasks (with `TaskStates`) and the runs as far as they need them.
`Announce` in `Orchestrator` and the appends in `AgentLoop` are one step each;
`EventLog` shows what such a step is made of, and why numbers may be taken for
positions in a sequence.

### How state and actions correspond to the code

`row[t]` is the status and version of a task's row; `seen[c]` what coroutine `c`
remembers from the SELECT of the transition it is in.  `stream` is the set of
entries, `delivered` once a consumer has been given one.

A coroutine `c` (a worker loop together with the execution it awaits, an API
request, or the start-up code of a process) is at a place `at[c]`, the await it is
suspended in, and deals with task `on[c]`.  `self._running` is `Runs(p, t)`: the
workers of `p` busy with `t`.  This is faithful because the loop puts the task into
`_running` in the same step in which it creates the execution and removes it in the
step after the ack, and waits in between.  `outcome[w]` is how the execution ends
(returned, cancelled, raised), which decides between ack (`Settle`) and the end of
the loop (`Die`).

| Code | Actions |
|---|---|
| `transition`, wherever called | `Read`, `Reject` (validation raises), `Commit`, `Conflict` (rowcount not 1) |
| `EventStore.append` of lifecycle events | `Announce` |
| `submit`, `retry`, `cancel` | `Submit`, `Retry`, `Cancel`, then the steps above, `Enqueue`, `SignalRunning`, `SignalNobody` |
| `_worker_loop` | `TakeDuplicate`, `Take`, `Settle`, `Die` |
| `_execute` | `Begin`, `Load`, `Furnish`, `RunAgent`, `AgentRaises`, `LoadFailed`, `LoadCancelled`, `Release` |
| `start`, `reconcile`, `stop` | `Boot`, `Requeue`, `Recancel`, `Serve`; `stop` is `Crash` |
| the surroundings | `Crash`, `Fault` (a database or Redis call fails) |

`Interrupted(w)` says what `running.cancel()` does at each place.  Definitions whose
comment starts with "Deviation" are plausible bugs of the definition that follows
them; each shows that some property can fail.

In `EventLog`, `events` are the rows, `last` is `last_event_sequence`, and `stage[w]`
and `number[w]` how far the append of writer `w` is: `Lock` (SELECT FOR UPDATE and the
number), `Commit`, `Publish`; a writer may stop anywhere (`Abandon`).  Pollers get pages
with `Poll`; websockets `Open`, `Send` the replay, `Subscribe`, `Receive` and `Close`.
A subscriber's queue is bounded and drops what does not fit.

| Code | Actions of `Environments` |
|---|---|
| `_worker_loop`, start of `_execute` | `Take`, `Load` |
| `allocate`, `attach` | `Allocate`, `Attach` (claim and `mkdir` or move), `Furnished`, `FurnishFails` with `Undo` and `UndoFails`, `MkdirFails` |
| transition to RUNNING, `replace_environment`, leases | `Adopt`, `MarkBusy`, `MarkStopped`, `MarkReady` |
| agent and publication | `Complete`, `Fail` |
| exception handlers | `HandleFailure`, `HandleCancel`, `HandlerFails` |
| `finally`, `release` | `Close`, `Release`, `ReleaseFails`, `CleanupFails` |
| `retry`, `cancel` | `Retry`, `Cancel`, `SignalNobody`, `SignalRunning` |
| `stop`, `prepare`, `reconcile` | `Restart`; on another host `Relocate` |

`exec[w]` has the local variables of the execution of worker `w`; `place[e]` says
where on disk workspace `e` is; `dropped` are the slots the code does lose.  Removals
are `rmtree(ignore_errors=True)`: what is removed, but not to the last file, stays where
it was and is in `litter`.  A move happens or raises; what a move back or a move to
`workspace_root` that raises leaves behind are `UndoFails` and `ReleaseFails`.

| Code | Actions of `AgentLoop` |
|---|---|
| `run` | `Start`, `TellStep`, `Say`, `Nudge`, `NextStep`; any exception or cancellation is `Stop` |
| `maybe_compact` | `MaybeCompact`, `TellCompacted` |
| `_activate_skills` | `EnsureAutoSkills`, `ActivateSkill`, then `PassOver`, `Activate` and `SaveSkills` |
| `build_messages`, `_model_turn` | `BuildMessages`, `ModelTurn` |
| `_execute_turn_tools` | `Announce`, `ExecuteTurn`, `CallTool`, `RecordResult`, `TellCheckpoint`; for a batch `RecordParallel`, `RecordsClash`, `EndStray` |
| `execute_control_tool` | `SetPlan`, `ReadConstraints`, `RememberConstraint`, `FinishTask`, `Answer` |
| `send_instruction` | `ReadRow`, `AppendInstruction`, `TellInstruction` |

`agent` has the local variables of the run, `row` its row of `sessions`: the summary
as the set of its lines, its mark, constraints and skills.  A line is the mark under
which it was written and the number of its event, so that a second line of one event is
seen.  `Condense` appends lines and keeps some end of the text (`Tails`:
`merged[-12_000:]`); `prompt` has the numbers of the events the model was last shown
and of those elided from the middle (`Middles`).

| Code | Actions of `RepositoryCache` |
|---|---|
| `_populate` | `Start`, `FetchMirror` (lock acquired, git started), `FetchEnds`, `FetchBreaks`, `ReleaseMirror`, `MirrorTimesOut`, `Clone`, `CloneFails` |
| `ensure_index` | `LookUp`, `LockIndex` (with the second look), `IndexTimesOut`, `ListFiles`, `ReuseObject`, `MeetTornObject`, `StoreObject`, `StoreManifest`, `ReleaseIndex` |
| `_preindex_workspace` | `Report` (in `LookUp`, `IndexTimesOut` and `ReleaseIndex`), `AppendEnds`, `AppendFails` |
| the surroundings | `Cancel`, `Crash`, `OrphanEnds` (a thread that still acquires a lock for a cancelled coroutine), `StrayEnds` (a git process nobody waits for), `PushUpstream` |

A job is one repository of one execution: `at[j]` is its await, `asked[j]` the version of
the remote when it asked for the mirror and `base[j]` the one its workspace got.
Histories are numbers, so "contains" is `>=`.  While a build parses and writes, its
event loop does nothing else (`Busy`), because nothing there awaits; other processes
go on.  filelock keeps a lock in the name of the thread that acquired it, and
`asyncio.to_thread` may release it from another one: `LetGo` then leaves the lock with
the process (`LostIn`) until that ends.

`Knowledge` asks one question: `AskImpact`, `AskSearch` or `AskSkills`; `answer` is what
the code returns.  Files and skills are numbers in the order of paths and names; what
contains what is the relation `Within`, ranks are natural numbers.

Simplifications: in `Orchestrator` provisioning, indexing, agent run and publication
are steps that succeed or raise; only lifecycle events are kept, and of these the latest per task;
`WAITING_FOR_USER` is a status nothing in the code enters; idle times are a choice
(`SlowExecutions`), not clocks; Redis and PostgreSQL themselves do not lose data.

## 3. The runs

The `orch_` runs, `viol_cancel` and `viol_two_agents` use `MCOrchestrator`.  Processes p1, p2; workers
w1, w2 in p1 and w3 in p2; clients c1, c2 in p1 and c3 in p2.  The bounds are the
constants `MaxRetry`, `MaxCancel`, `MaxCrash`, `MaxFault` (how often the surroundings
do each), and each task is submitted at most once.  With them the state space is
finite: entries are put once per submit, retry and reconciliation.  Deadlock is not
checked because the system may idle.

| Run | Instance | Shows |
|---|---|---|
| `orch_shared` | 2 processes with 1 worker and 1 client each, 1 task, slow executions, 1 cancel | `OrchTypeOK`, `Bookkeeping`, `SnapshotsAgree`, `TruthfulEvents`, `FollowsStateMachine`, `LoopsEndInHandlers` |
| `orch_recovery` | 1 process, 2 workers, 1 client, 1 task; 1 retry, cancel, crash and fault | `StartedIsCarried`, `RestartRecovers` |
| `orch_progress` | 1 process, 1 worker, 1 client, 2 tasks; 1 retry, 1 crash; fair | `QueuedIsCarried`, `QueuedIsFinished` |
| `viol_cancel` | 1 process, 1 worker, 1 cancel | a cancelled execution is acked while the task is CANCELLING |
| `viol_two_agents` | 2 processes, slow executions | two agents on one task |
| `events` | `EventLog`: 2 writers, a poller and a websocket; pages and queues of two; see `events.cfg`; fair | `LogTypeOK`, `LogIsGapless`, `OnlyCommittedIsShown`, `ShownInOrder`, `ImplementsFeed`, `PollersCatchUp` |
| `viol_event_gap` | `EventLog`: a websocket that connects again | an event between replay and subscription never reaches the client |
| `environments` | `Environments`: 2 tasks, 2 workers, 1 slot, 5 workspaces, 2 troubles; fair | `EnvTypeOK`, `SlotsAccounted`, `OneTreePerSlot`, `AgentIsAtHome`, `WorkIsKept`, `WaitersAreServed` |
| `agent_loop` | `AgentLoop`: 2 runs of 2 steps, 5 turns, 1 client, 2 skills of which 1 may be active, window of 2, threshold of 6, a summary that may be cut to 2 lines, a prompt with at most 1 event elided; fair | `AgentTypeOK`, `SummaryIsExact`, `CallsAreAnswered`, `EditsAlone`, `CompletionHasEvidence`, `SkillsAreLogged`, `MissedOnceOnly`, `RunEnds` |
| `viol_instruction` | `AgentLoop`: 2 clients, the agent remembers a constraint | an instruction is overwritten by another |
| `repository_cache` | `RepositoryCache`: 2 executions in 2 processes, 1 repository of 2 versions and 2 contents, 2 cancels or crashes; fair | `CacheTypeOK`, `BuildersAlone`, `IndexIsSound`, `WorkspaceIsFresh`, `FinishedFilesStand`, `IndexingSparesTheTask`, `JobsEnd` |
| `knowledge` | `Knowledge`: repositories of 4 files out of 5 kinds over 3 names, skills in 3 scopes, limits and depths from -1 to 4 | `ImpactIsExact`, `SearchFindsDefinitions`, `SkillsReachThePrompt` |

Why the bounds are enough: each hazard needs at most two coroutines on one task and
one event of the surroundings between two of their steps; the instances have both,
in one process (where `_running` decides) and in two (where only the table does).
Two tasks matter to progress only, where a worker must come back for the other one.
For `events`: two writers are enough for every order of lock, commit and publication,
and pages and queues of two fill up.  For `environments`: with one slot and two
workers somebody always waits, and a trouble is a retry, a cancel, a restart, a lost
host, a failing clean-up, a move that raises or a removal that leaves something behind, so
that any two of them meet.  For `agent_loop`: the threshold is
crossed in the second step or the second run; a second run begins on a log of at most
`MaxOld` events, so after anything that can happen to a first step up to a batch whose
records clash, and with what that batch leaves behind.  The client acts while the log
has at most `MaxSent` events, hence also between a compaction and its prompt; without
that bound TLC found no violation of the safety properties either (8,140,011 states), but
`RunEnds` takes too long there.  Where a text is cut
depends on the lengths of its parts, so the choice is free, down to what always fits:
`Fit` lines of the summary (the code cuts at 12,000 characters, and a line has about
1,200 at most) and the `Whole` newest events of a prompt (half of it, 30,000
characters, at 6,000 each).  With `Fit` 2 and one compaction after another, lines are
cut off while they are new and after others have been appended; the prompt loses any one
event of its middle (`MaxElided`).  Turns are a batch,
a read beside an edit, a command with `finish_task`, control tools, and none; with one
skill at most there is room for the first and none for the second.  For
`repository_cache`: two processes give every overlap of fetches, builds, crashes and
lost locks on one repository, the second version has one content that the first has and
one it has not, so objects are reused, met torn and written; that an execution has several
repositories, whose jobs index side by side and clash in the session, is covered by the
proofs, which are about any jobs (TLC also went through the invariants of an instance
with three jobs, two of them in one execution: 452,129 states).  For `knowledge`: four
files have every cycle, equal names, and a path of length three; three rooms make skills fit,
be cut, and be left out; the overrides are of every name the lower scope has, sound or not,
and two of the built-in files have one name.

What the passing runs do not claim:

* `QueuedIsCarried` is checked with one worker.  With two, `retry` commits QUEUED and puts
  its entry while the failed execution is still in its `finally` block, hence in
  `_running`; the other worker acks the entry as a duplicate (`orchestrator.py:176`) and
  the task stays QUEUED with no entry until a restart.  `README.md:20` promises
  "at-least-once worker delivery".  The same comes of a `put` that fails after `submit` or
  `retry` has committed QUEUED, and of a cancel and a retry that overlap.
* `RestartRecovers` is about one process.  `reconcile` calls `cancel` for a CANCELLING task
  with no handler (`orchestrator.py:168`): when a coroutine of another process moves that task between
  SELECT and UPDATE, the exception leaves `start()`, and two processes that start together
  can bring each other down again and again.
* `StartedIsCarried` is checked with one process, one client and no slow executions.  With
  two overlapping requests, a cancel whose commit is answered late can interrupt the run of
  a later retry, and its item is acked in mid-execution.  With slow executions, the other worker of the process claims the entry of a running
  task and acks it as a duplicate (`orchestrator.py:176`), and when a call of its failure
  handler then fails, the worker ends and nobody carries the task any more, although
  `docs/LLD.md:292` says "ACK Redis stream item only after execute returns".
* `LoopsEndInHandlers` does not say that worker loops survive, because they do not:
  `InvalidStateTransition` is not a `RuntimeError`, so a handler that loses a race ends the
  loop (`orchestrator.py:408`).  That happens with slow executions in two
  processes, with a crash in one of two processes (its entry is reclaimed by the other and
  requeued by the restarted one), when a cancel commits between the SELECT and the UPDATE
  of the failure handler, and with three overlapping retries of one task, since a transition
  from QUEUED to QUEUED passes and counts the version up.  The property says that a race
  costs a loop there and nowhere else: by the UPDATE of a handler, or by its check of a task
  that another has ended.  All other lost races end in the failure handler.
* `SlotsAccounted` counts the slots the code loses in `dropped`, at five points: `mkdir`
  raises (`workspace.py:361`); the move back of `attach` raises (406); the move to
  `workspace_root` raises (421), which `orchestrator.py:428` suppresses; the clean-up is
  cancelled; the heartbeat has died of an error, or reading the task raises.
  `WaitersAreServed` holds until one of them happens: from then on whoever waits may wait
  until a restart.  An execution that is cut off between `allocate` and RUNNING leaves a
  saved workspace no row leads to.  After a cancel the lease stays BUSY; nothing reads it.
* `OneTreePerSlot` is `README.md:241` ("Each warm container sees only its own task source
  slot") with an exception: where `rmtree` leaves something behind, the slot goes back to the
  pool with it, and the next user's container sees it.  It is never part of a workspace a
  task can come back to.  That `release` removes a target that exists
  (`workspace.py:418`) is left out: the target is named by the environment and free.
* `AgentIsAtHome` and `WorkIsKept` do not ask that a retry finds its workspace: a code that
  always allocated afresh would satisfy them.  That `attach` is tried first is in the model
  (`HasSaved`) only.
* `WorkIsKept` excepts the loss of the host.  A workspace that cannot be made healthy
  again when it is attached (`workspace.py:401`) fails every retry in the same way.
* `IndexingSparesTheTask` excepts the clash of two appends in the database session that
  the jobs of an execution share (in `repository_cache` every execution has one job, so
  that clash is in the proofs alone): it makes the task FAILED, although
  `orchestrator.py:204` says that a damaged cache "must not make an otherwise runnable
  engineering task fail".
* `IndexIsSound` lets a manifest be torn, and `IndexingSparesTheTask` lets the index of its
  commit be degraded for ever: the code writes manifests in place, although
  `docs/LLD.md:367` says "Atomically serialize the new HEAD manifest", and never replaces one
  that exists.  Both say nothing of what an index tells of: the files are read from
  the worktree, so a retry with uncommitted edits would be indexed under the commit's
  manifest.
* `WorkspaceIsFresh` is about executions that populate; one that attaches keeps the
  worktree it had.
* `SkillsReachThePrompt` takes skill files that load or do not.  One with an
  empty `markers:` makes `_load_skill` raise `TypeError`
  (`skills.py:113`), which ends the discovery.  The room is that of the shown parts: the
  note that something was cut and the separators come on top of `max_render_chars`
  (`skills.py:264`).
* `SearchFindsDefinitions` is about queries that are a name.  A blank one finds nothing
  (`code_index.py:501`), and a file whose path, or a part of whose symbols, matches may come
  before a definition; the property sets definitions against imports and previews.
* `CompletionHasEvidence` asks for evidence anywhere in the history, as `README.md:246` does:
  it may be older than the last edit, or of an earlier attempt.
* `SummaryIsExact` lets the oldest lines be missing: at the default settings a
  compaction may well write more than 12,000 characters, and `context.py:473` keeps their end.
  What is left of a line that is cut in two counts as gone.  The mark is found by a search
  for its first occurrence (`_compacted_through`); that no condensed text quotes a mark is
  assumed.
* `MissedOnceOnly` begins with the first compaction.  Before it, the events between the
  window (40) and the threshold (100) are in neither summary nor prompt.  It excepts what
  was elided from one of the two prompts (`context.py:572`) and what was condensed
  and has been cut off the summary since, which no later prompt shows.
* `EditsAlone` is about the calls of a run.  A read left over by a batch that raised can
  still be running when the next run edits.

**Fairness.** `FairSpec` asks weak fairness of every coroutine's own steps: the event
loop schedules every ready coroutine, the calls it waits in return (commands, model
calls and steps are bounded by `command_timeout_seconds`, the client's timeouts and
`max_agent_steps`), an idle entry is claimed by the next `get`, and a process that is
down is started again.  Nothing is assumed of requests, crashes and faults.
`EventLog` asks it of pollers only: a poller that is there polls again, and no writer
need ever finish.  `Environments` asks weak fairness of the steps of an execution and
strong fairness of claiming a slot: `asyncio.Queue` wakes its getters in the order they
came, so whoever waits is not passed over for ever.  `AgentLoop` asks weak fairness of
the agent's own steps.  `RepositoryCache` asks it of each job's own steps: `run_exec`
kills git after 600 s, a lock is had or given up after its timeout, and in between the
steps of a build do not wait.  It asks nothing of strays, orphans, pushes and crashes:
`JobsEnd` does not rest on a lost lock coming back.

## 4. The proofs

`TaskRepositoryProofs` proves, for any set of tasks and any set of callers:

* `RepoTypeCorrect`: `RepoSpec => []RepoTypeOK`.
* `OptimisticLocking`: `RepoSpec => []SnapshotsAgree`.  `SnapshotsAgree` is inductive
  with the types.  Its core is that versions only grow and one version of a row never
  has two statuses, so a version that still matches means a status that still holds,
  and the target validated against it is still legal.
* `TableRefinesLifecycle`: `RepoSpec => FollowsStateMachine`.  The UPDATE that matches
  maps to `Move`, or to a stutter when the target is the status the row has; `create`
  maps to `Create`; the SELECT and a rollback are stutters.

`OrchestratorProofs` proves the rest of `orch_shared` for any processes, workers,
clients and tasks:

* `OrchTypeCorrect` and `BookkeepingCorrect`.  Neither is inductive alone: what a
  coroutine may remember of the table depends on its place, and which entries may be
  held depends on who is at work.  The invariant is `Control`, `Supplies`, `Reads`
  (what a coroutine has selected is of the task it deals with), and `Committed` (whoever
  is about to tell of an end finds it in the table).
* `UsesTheRepository`: every step of the orchestrator is a step of `RepoNext` or leaves
  the table and the SELECTs alone; hence `Spec => RepoSpec`, and `SnapshotsAgree`
  (`OrchestratorLocksRows`) and the life cycle (`OrchestratorFollowsStateMachine`)
  follow from the theorems about the table.
* `EventsAreTruthful`: the log never tells of an end that the table does not have.

`OrchestratorRecoveryProofs` proves what `orch_recovery` and `orch_progress` check, and
`LoopsEndInHandlers` of `orch_shared`, for any processes, workers, clients, tasks and,
where not said otherwise, amount of trouble.  Three of the theorems name their deployment
and surroundings; section 3 says what goes wrong outside them.  `RequestsApart` (no two
requests deal with one task at the same time) is an assumption about the callers of the
API, since the code does not see to it.

| Theorem | Holds with | Invariant |
|---|---|---|
| `RestartsRecover` | `OneProcess` | `RestartInv` |
| `NothingIsAbandoned` | `OneProcess`, `~SlowExecutions`, `[]RequestsApart` | `CancelsStick`, `OneRun`, `Held`, `Parked`, `Kept` |
| `QueuedAreServed` | `OneWorkerEach`, `NoFaults`, `[]RequestsApart` | `CancelsStick`, `Placed` |
| `LoopsEndOnlyInHandlers` | no condition | `Familiar` |

* All rest on one view of a step (`Moves`): it is the step of one coroutine, and to every
  other it means that nothing happens (`Still`), that its process ends (`Gone`), that its
  loop starts (`Opened`) or that a request cancels its execution (`Struck`).
* `RestartsRecover`: with one process nobody else moves while the start-up code runs, so
  what `reconcile` has selected is still in the table when it acts on it.
* `NothingIsAbandoned`: `StartedIsCarried` is not inductive, because an ack takes away
  what carries a task.  `Kept` says that a task in PROVISIONING or RUNNING has a pending
  entry or a process that will put one.  So an ack must not come too early:
  an execution's entry is pending until then (`Held`), and an execution that will end in an
  ack has taken its task out of these statuses (`Parked`).  For that no other execution may
  bring the task back (`OneRun`), nor a request under a cancel (`CancelsStick`), and hence
  the conditions.
* `QueuedAreServed`: a task in QUEUED has an entry no execution has in hand, or a request
  or a start-up about to put one, or an execution on its way to take it out of QUEUED
  (`Placed`).  Late redeliveries and several processes are allowed.
* `LoopsEndOnlyInHandlers`: an execution raises when a transition of one of its handlers is
  refused or its UPDATE fails.  The second means that the row has been written since the SELECT.
  For the first, no entry, no visit of `reconcile` and no execution is about a task that is
  not yet queued (`Familiar`), and from the statuses that remain FAILED can be reached unless
  the task has ended, and CANCELLED from CANCELLING.

TLC checked each of these invariants on small instances, with `RequestsApart` as a
constraint, before it was proved.

`EventLogProofs` proves, for any writers, clients, page and queue sizes:
`LogTypeCorrect`, `NumbersAreGapless`, `ShownIsCommitted`, `ClientsReadUpwards`, and the
refinement `FeedImplemented`.  The invariant adds to the types that the row has the
number of the last committed event and only the holder of the lock has an event beyond
it, and that what is on its way to a client lies above what it has shown.  A page is a
stretch of the log (`PageIsAStretch`), which is why a poller cannot skip.

`EnvironmentsProofs` proves, for any tasks, workers, workspaces, finite set of slots and
amount of trouble, all five safety properties of `environments`: `EnvTypeCorrect`,
`SlotsConserved`, `TreesAreSeparate`, `AgentsAreAtHome` and `WorkSurvives`, from one
invariant, `AgentInv`.

* Its part about the host is `HostInv`: the types, `SlotsAccounted`, the first two parts of
  `OneTreePerSlot` (`Separate`), and `Shape`, which says at which places an execution has a
  slot, a workspace, or both, and that the workspace then is in the slot.  Without it a step
  that frees a slot could free `None`, or one that is free.  Every step does one of six
  things to the host (`QuietHost`, `TakingSlot`, `LosingSlot`, `FreeingSlot`,
  `LeavingSlot`, `StartingAnew`); a lemma each shows that it keeps the invariant, whether
  a removal was complete or not.
* No task has two executions in the process (`OneRun`); `Owned` says whose workspace is in
  which slot and behind which row, and `Settled` what an execution knows of its task while it
  works: a step of one execution changes nothing another relies on.
* `Strewn`: litter is of no row, or of one whose task has ended.  An execution dooms a workspace only
  when it has seen the end, which is final, and an allocation that fails has not been adopted.

`RepositoryCacheProofs` proves all six safety properties of `repository_cache` for any
repositories, executions with any number of repositories, processes, contents, versions
and amount of trouble.

* `CacheTypeCorrect`; with the types goes `AtWork`: an awaited git process is at the
  mirror of its job, and what is being written is an object.
* `BuildersExcludeEachOther` from `LocksHeld`: whoever is past an acquisition and not yet
  past the release has the lock in its name.  The release of one job cannot take another's lock,
  since it only acts on the one it has itself.
* `WorkspacesAreFresh` from `Fresh` and `Stages`: a job asked for no version the
  remote has not got; an awaited process brings at least that version; a whole mirror
  never gets older; and one that is still being cloned becomes whole only by a process
  that brings that version, too (`AwaitedIsFresh`), for processes whose directory is gone
  are gone with it (`StraysInPlace`).
* `IndexInvariant`, whence `IndexIsAlwaysSound` and `FilesStandForever`: while a job builds,
  every content of its commit is yet to be done, being written, or stored; the files it
  opens do not exist, which it knows because it looked with the lock in its hands and
  nobody else has built since.
* `TasksAreSpared`: a step to "failed" out of the indexing part is one of an append.

`AgentLoopProofs` proves all safety properties of `agent_loop` and its action
property for any clients, skills, turns, bounds and failing tools.

* `AgentTypeCorrect` from `TypeInv`, which adds `Position` and `Flight` (what
  the locals are at each place) and `Bounded` (active skills within `MaxActive`).
* `EditsRunAlone` from `Flight`: more than one call is in flight only in a batch, and a
  batch is made of reads.
* `MemoryIsExact` from `SummaryInv`: the log only grows, so what was relevant up to the mark
  stays so, and the order of the lines is that of their events (`Ordered`), so that an end of
  the text lacks nothing but the oldest events (`LongerIsExact`, `TailsAre`).
* `SkillsHaveEvents` from `ActiveAreLogged`: also the skills that are active but not yet
  saved have their event.
* `CompletionIsFounded` from `Founded`: an accepted `finish_task` has its evidence in the
  log before its own answer is appended.
* `NothingMissedTwice`: what the prompt ends with (`Offered`, shown or elided) is at most the
  log of its time (`CaughtUp`), the next window begins at its own floor, and what lies between
  is relevant only if it came after the former prompt or has been condensed (`Overlapping`);
  what has been condensed is in the summary or `Forgotten`.
* `CallsGetAnswers` from `CallsInv`: calls of this run have identifiers no earlier run
  used (`IdsPast`), which is why left-over calls cannot answer for them; in the present step
  the settled calls have one answer and the others none (`AnswersInStep`); what was announced
  before has one (`AnnouncedBefore`).

`KnowledgeProofs` proves all three properties of `knowledge` for repositories, catalogs,
instructions and limits of any size.  The functions are recursive and sort, and the
induction theorems of the library cannot be used; the induction here is over sets, from
the fact that a set of numbers has a least element (`LeastNumber`, `NumbersUpTo`).
`LoopRuns` shows that a loop over a state has a run, and so what a recursive function is;
`RankedInOrder` that a finite set can be sorted, by giving everything the place that is
one more than the number of things ahead of it.

* `ImpactsAreExact`: the files at distance k + 1 are the importers of those at distance k
  without those that are nearer (`NextDistance`), and beyond an empty layer there is
  nobody (`NobodyBeyond`); so the loop has the distances as its layers (`InLayers`).
* `SearchesFindDefinitions`: a file has points just when it mentions the query, a
  defining one at least 15 and one that alludes at most 6 (`PointsAre`), so the order of the
  scores is what the property asks for.
* `SkillsReach`: after m scopes every name has its last sound file (`Gathers`), which are the
  files nothing overrides (`ValidAreDiscovered`); after m rounds the text has m whole chunks
  or has used up the room (`Fills`).

They assume what the code guarantees of its data: ranks and priorities are numbers, the
names of files and skills are ordered, limits are positive (`LimitsAssumption`,
`RepositoriesAssumption`, `SkillsAssumption`).

## 5. Plan

Done: tasks, queue and orchestrator; event log; environments; agent, memory and
instructions; mirrors and index; queries and skills; proofs about all of them.
Left, most important first:

1. Composition: an orchestrator whose executions use `Environments` and `RepositoryCache`,
   shown to implement `Orchestrator`.
2. `Environments` with the local provider, where duplicate executions share a directory
   (`orchestrator.py:429`), and with two processes on one host.
3. The publisher once it works: `_github_slug` (`github.py:28`) has doubled backslashes in a raw
   string and matches no URL, so nothing after the push is reached.

## 6. Left to TLC, and left out

Every invariant and action property of the passing runs is proved.  Progress under
fairness is out of the prover's reach and stays with TLC (`QueuedIsFinished`,
`PollersCatchUp`, `WaitersAreServed`, `RunEnds`, `JobsEnd`).  `StartedIsCarried`,
`QueuedIsCarried` and `RestartRecovers` are proved under the conditions in
section 4, which are weaker than the bounds of their runs.  Without one of these conditions
they fail, as section 3 says, with one exception that is open: whether
`StartedIsCarried` needs a single process.  TLC found no counterexample with two
processes of one worker each, one task, and a crash beside a retry or two faults.
That the model's `Within`, ranks and markers stand for what the code computes from texts is
left to the reader.

Not modelled, and why:

* the publisher: it keeps no state, and of its steps only the push is reached;
* MCP: remote servers, and a list of tools read once (two tools whose names become equal
  replace each other, `mcp_tools.py:117`);
* command policy, path checks, the tools' work on files and processes: each call stands
  for itself;
* authorization, configuration, logging, metrics: no state, or none the rest depends on;
  the metadata cache: nothing uses it;
* parsing of symbols and imports, and PageRank: `search` and `impact_analysis` are checked for
  any of their results in the stock; objects are named by the bytes of a file alone, so
  two files of equal bytes and different languages share one;
* wording and lengths of texts, and truncation of tool output and of single events; where
  the summary and the prompt are cut is modelled as a free choice.
