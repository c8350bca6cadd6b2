# A TLA+ model of rust-claw

This directory specifies rust-claw, an agent that runs tool calls for an LLM on
behalf of chat sessions (CLI, Telegram, Discord, ACP): its sessions, its agent
loop, what delegates to it and from it, what it shows to the model and what it
records. Every module is translated from the Rust source under `src/src`; paths
and lines below, and in `PROJECT.json`, are relative to the repository.

## 1. Inventory of the system

| Part | Source | State it keeps | Operations | What makes it correct |
|---|---|---|---|---|
| Session manager | `session_manager.rs`, `session/*` | map of sessions, foreground permits and their tokens, registry of sessions, LLM and sub-agent runtime shared by all sessions | get_or_create, reset, cancel, try_acquire_foreground, change of LLM, add_tool | one agent loop per session, one turn at a time, a cancel is not lost, a reset forgets |
| Front ends | `app/*`, `ui.rs`, `telegram/*`, `discord.rs`, `acp/*`, `shell_escape.rs` | chat/session mapping, response streams, child processes | receive, render, confirm, stop, shell command | output goes to its sender; what was started can be stopped |
| Agent loop | `core.rs`, `core/step_helpers.rs` | turn counters (energy, recovery attempts, empty answers, strikes), the context, task state | step: ask the LLM, dispatch tools, guard, recover, finish | a turn always ends, with one exit reason; every tool call gets one result |
| Tool invocation | `tools/invocation.rs`, `tools/protocol.rs` | budget of a call, cancel and timeout | try_consume, execute, invoke_tool | budget never negative; a cancelled call stops |
| Context and history | `context/*`, `context_assembler.rs`, `evidence.rs` | turns, token counts, evidence with its version | append, compact, compress, strip, sanitise, assemble | calls stay paired with results, the window is respected, what is recent is whole, evidence is not older than it says |
| Skills | `skills/*` | registry of parsed skills, active skill with its lineage and question | activate, refuse, ask, resume, restrict tools, deactivate | no cycles; a reply goes to the skill that asked |
| Call chain | `call_chain.rs`, `tools/subagent.rs` | lineage of skills, a counter shared by a root's sessions, inherited limits | validate_nested_budget, register_call_chain_use, effective_limits | depth and use limits hold along the whole chain |
| Sub-agent runtime | `subagent_runtime.rs` | map of jobs, `running_jobs` counter, per-parent notification inbox, one handle per job | spawn, run_sync, cancel, get/consume, list, wait_for_terminal, take_notifications, cleanup every five minutes | slots are neither leaked nor returned twice; a result is decided once; parents learn results; nothing is removed before its time |
| Notification extension | `subagent_notification.rs` | a pending notice per session | take notices before a turn, put them in the prompt | no notice lost or shown twice |
| Code mode | `code_mode/*` | per session: the active cell, the next cell number, `stored_values`, a host handle with its last publication; per cell: phase, revision, events, terminal result | exec, wait, abort, the host loop, the driver's event stream, nested tool calls, timers, flushes | one live cell per session; every event and the result reach a caller; a replaced host cannot write to its successor; exec is always answered |
| Scheduler | `scheduler.rs`, `tools/scheduler.rs` | `schedule.json` and the in-memory list with `last_run` | reload, insert, remove, tick every 30 s, run | a task runs once per occurrence; no task lost or resurrected |
| LLM clients | `llm_client/*` | buffer and calls of a stream, cached instruction | request, connect with retries, read, emit | what was sent is what is heard, however it is cut |
| Trace | `trace/*` | record files, SQLite store, summaries | publish, persist, count, query | spans are closed; counts and trees agree with the records |
| Task state and event log | `task_state.rs`, `event_log.rs` | plan file, append-only JSONL | update, append, read | replay agrees with what was written |
| Tools, browser, LSP, retrieval, memory, sandbox and security, telemetry, logging, config, utilities | one file or directory each | handles to external programs, databases, patterns | wrappers around them | mostly I/O or pure text analysis |
| `context-profiler`, `wasm_demo`, `skills/scripts` | own directories | none shared with the agent | offline tools and a demo | outside the program |

### How the parts interact

* A front end hands a message to the **session manager**, which returns the
  session's agent loop behind an async mutex. Chats, ACP runs, CLI lines and shell
  commands take the session's foreground permit first; the scheduler and `/agent`
  do not. A cancel reaches a turn through the permit's token and the loop's flag.
* The **agent loop** asks the **LLM client**, which turns bytes into events on a
  channel, and issues one tool call at a time through `tools/invocation.rs`. An
  invocation races the tool's future against the session's cancel notification
  and the tool's timeout (`tokio::select!`): when either wins the future is
  *dropped at the await it is suspended in*. What the model is shown is assembled
  by the **context** from the turns and the evidence that the loop has kept.
* A **skill** is active from the input that names it until the turn that finishes;
  its `CallChainContext` goes with every tool call, and the **subagent tool** hands
  it to the session that it builds.
* The **sub-agent runtime** is one object for all sessions. Its jobs are tokio
  tasks; each runs a complete agent loop of its own. Calls of different parents,
  job tasks and the cleanup timer interleave at every lock acquisition. What ended
  reaches the parent through the **notification extension** of its next turn.
* **Code mode** runs a JavaScript cell on a blocking thread; events travel over
  an unbounded channel to a host task which records them in the session state
  and publishes summaries; `exec` and `wait` calls read the publications.
* The **scheduler** starts turns of its own, through the session manager.
* Loops and jobs publish to one **trace** bus; jobs go on to publish in the run
  that spawned them after it has ended.

### The hard behaviours

Steps of several tasks between two lock acquisitions; tasks aborted and calls
dropped at an await; state cloned under one lock and used under another;
notifications that only wake waiters already registered; timeouts racing
answers; counters and caps checked before they are taken; a file truncated
before it is written; bytes cut anywhere; sizes subtracted from each other.
`PROJECT.json` lists each one ("hazards") at the line where it bites, with the
properties that would notice it.

## 2. The modules and how they correspond to the code

| Module | What it is |
|---|---|
| `Sessions` | `session_manager.rs`, `session/`, and what the front ends, `shell_escape.rs` and `app/commands.rs` ask of a session |
| `AgentTurn` | `core.rs`, `core/step_helpers.rs`, `tools/invocation.rs`, and the parts of `context/` that write the conversation |
| `Context` | `context/prompt.rs`, `history.rs`, `sanitize.rs`, `context_assembler.rs`, `evidence.rs`: what the model is shown |
| `LlmStream` | `llm_client/`: a request and the stream of its reply |
| `Delegation` | `skills/`, `call_chain.rs`, `tools/subagent.rs`, `subagent_notification.rs`: a tree of sessions |
| `SubagentRuntime` | `subagent_runtime.rs`: the life of a job |
| `JobLifecycle` | what that runtime promises its callers: the abstract specification of a job |
| `CodeMode` | `code_mode/` (service, host, driver, cell, entry) and `tools/invocation.rs` as far as it ends a wait |
| `Scheduler` | `scheduler.rs`, `tools/scheduler.rs` and the restart in `main.rs` |
| `Trace` | `trace/`, and what loops and jobs publish |
| `MCSessions`, ... `MCTrace` | for each of them, the model values, definitions and symmetry that TLC needs |
| `*Proofs` | theorems, section 5 |

Each part that a module reduces to a choice is another module's matter: a turn
is one step of `Sessions` and all of `AgentTurn`; the prompt is one step of
`AgentTurn` and all of `Context`; the request is `LlmStream`; a job's life is
`SubagentRuntime`, what runs in it `Delegation`.

A definition marked "Mutant" in a module is a mistake its neighbour could
contain. No specification uses it; replacing the neighbour by it must make TLC
report the property listed with it in `PROJECT.json`, which is how we know that
the property says something about that code.

### Sessions

One session, and a set of tasks each of which performs one operation: a message to
a bot, an ACP run, a CLI line, a scheduled turn, `/agent`, a shell command, a
command, one of four cancellations, a change of the model. A task takes one step
per lock (`pc`), so any two operations interleave between any two locks.

* `permit` and `tokens` are `foreground_tasks` and the cancelled tokens in it;
  `entry` is the session's place in the map; `loop[t]` the loop that `t` built,
  with its mutex, cancel flag, output, memory and model; `line`, `file` and `plan`
  are the registry's line, the transcript and the task plan.
* `Lookup`, `GetLlm`, `Build`, `Register`, `Insert` are `get_or_create_session`,
  which looks up and inserts under two locks; `CancelToken`, `FindLoop`, `Flag`,
  `Probe`, `Abort` are `cancel_session`; `Remove`, `ClearPlan` are
  `reset_session` and the command around it; `SelectModel`, `ReplaceRuntime`,
  `FindForModel`, `UpdateLlm` are `update_session_llm`; `Reroute` and `Relock` are
  the two locks of a scheduled turn; `Kill`, `Killed`, `ShellExits`, `ChildEnds`
  are `run_shell_escape`; `StreamEnds`, `Disconnect`, `DropGuard` the life of an
  ACP response.
* What a turn, a loop, a model or an output belongs to is named by the task that
  brought it about: memory is the set of turns remembered.
* `raced`, `erased`, `aimed`, `gone` are history. `raced` records the three races
  that the code does not exclude: a loop built twice, a reset of a loop in use, a
  model change that overlaps another or the building of a loop. Each property
  below names the races it needs the absence of, and no more.

Left out: other sessions, the order in which snapshots of the registry reach the
disk (repository.rs:103), rendering.

### AgentTurn

One agent loop (`main`, `auto` for autopilot, `sub` for the loop of a sub-agent),
those who cancel it, and the end of its process. One step per `.await` at which
something else can happen.

| `pc` | Where `AgentLoop::step` stands |
|---|---|
| `idle` | not in `step`; `Start`, `Decline`, `StartStopped` are its head |
| `guard`, `audit` | `check_loop_guards`; `audit` is the request for a report that it makes when the energy is spent, which ends in `Refresh` or `Deplete` |
| `prepare` | compaction before the request |
| `ask`, `receive`, `backoff` | `collect_stream_response`: the request, its stream, the pause before a retry |
| `reply` | what the answer is: `Empty`, `Yield`, `Answer`, `Garbled`, `Round` |
| `call`, `enter`, `run` | `execute_tool_round`: the next call is chosen, let in, run by `invoke_tool` |

* `turn` and `owed` are the context's current turn and its calls without a
  response; `dialogue` is `dialogue_history`; `transcript` is what a loader would
  find in the file. A kept turn is the set of inputs it stands for (a summary
  stands for several) and how many of its calls are unanswered.
* A cancel is two steps, because the code takes two: `Cancel` stores the flag,
  `Notify` is `notify_waiters`, which wakes only those who wait at that moment. A
  wakeup that comes before the wait is lost, and the flag alone is left.
* `last`, `run`, `strike` are the execution guard of autopilot; `todos` is
  `TODOS.md` as the audit counts it, `baseline` the count of the last audit.
* `from`, `asks`, `late`, `turns`, `restarts` are history: where the audit began,
  how often the model was asked, how many waits began with the flag set.

Abstracted: the text of prompts, answers, results and summaries (a summary is
taken to stand for its turns even where `history.rs` cuts its text); skills,
extensions and notices, which `Delegation` has; the task-state store, and with it
the exit for a finished plan at core.rs:1041, which no state of the store reaches.
What nested calls of code mode do to the execution guard is a choice in `RunOf` and
`Strikes`. An append to the transcript that fails, and the half line a kill may
leave, are left out; `TODOS.md` changes through the agent's own calls only.

### Context

A message is its kind and its size in tokens, and whether it is whole, cut or
stripped. `dialogue`, `current` and `evidence` are `dialogue_history`,
`current_turn` and `active_evidence`; the prompt is not state but a function of it:
`Prompt` is `build_llm_payload`, made of `AssembledPrompt` (`assemble_prompt`),
`Chosen` and `Shown` (`build_history_with_token_budget`), `Flattened` (the zones),
each by the arithmetic of the code, saturating subtractions included. A loop of the
code over a sequence is a recursive function of the steps taken, which can be
reasoned about. One module has the proofs about `Context` and `LlmStream`, so
their names differ: `ContextSpec`, `ContextTypeOK`.

* `StartTurn`, `Audit` compact; `Reconcile` records a round's result and compresses and
  truncates the turn (`Compressed`, `Truncated`); `Call`, `Deny`, `Finish`, `Stop`,
  `StopAtOnce` are the other ways in which the loop writes the turn.
* Evidence is the interesting state: a tool looks at the workspace in one step
  (`Look`) and its version is noted in another (`Register`); `WriteFile`,
  `PatchFile` and somebody else's `Edit` change it in between; a version is a
  time in seconds and a size, which an edit need not change (`Changed`).

Left out: text, the reports of `context/report.rs`, the retrieval of memories.

### LlmStream

A reply is a sequence of lines, each of two halves and a separator, and `wire` is
what is still to come of it. `Read(n)` receives any number of units at once, so the
chunks are cut anywhere, in the middle of a character too. `buffer`, `tools` and
`places` are the locals of the task that `stream` spawns (`active_tools`,
`index_map`), `events` its channel. `Fragment`, `Place`, `AddFragment` are
`process_delta_json`; `Block` is `emit_sse_data_block`; `Scan` runs over the
complete lines of a chunk, `InOrder` is the order in which finished calls are sent;
`Accepted`, `Refused`, `Transient` the connection with its retries; `ReadFails`,
`ReplyEnds` the ways a stream ends, whole or early; `Consume` is the loop at the
other end of the channel. `Resolve` is `resolve_cached_content`, `Expire` the time
to live of `caches` at the provider, and `Switch` is `update_session_llm`.

The provider is external: the replies it may send are in `MCLlmStream`, in the
four ways in which providers of the OpenAI protocol number the fragments of their
calls, and the way Gemini writes whole calls. `RepliesRegular` says what all of them
have in common, as far as `Place` and `AddFragment` rely on it, and `MCLlmStream`
checks that they do.
A fragment with an id is sorted by it. A fragment without one must have the index of
the first fragment of its call, and `index_map` must still lead from there to the call:
no other call with an id was begun with that index since. If the call has no id at all,
nothing of it is in `index_map`: its index is then its place, and must be the number of
calls begun before it. Outside the hypothesis is a provider that mixes the fragments
of two calls under one index and gives them no ids after the first ones, or that uses
an index for a call with an id and then for one without: the code would join those
calls. So is one that counts from one, which the protocol does not.

A name is a sequence of letters (words, in the instance), which may come in pieces:
`Spelling` gives, for each call, what has come of its name after each piece. A piece
that occurs anywhere in what came before is taken for a repetition and dropped
(`Repeats`, the substring test of `openai_compat.rs:80`), so a name sent again, or a
part of it, does no harm. But a provider that cuts a name so that a new piece occurs in
what came before it is heard wrongly: `get_task` and then `s` would be heard as
`get_task`, for the `s` is in it already. `RepliesRegular` excludes such cuts
(`Spells`), and `ReplyHeard` says nothing of them. The arguments of a call are its own pieces, in
order, so whose they are is part of what is heard; so is the id, the provider's or the
one that the client makes.

What the model has as the code has it, though no property complains: each chunk
is decoded for itself, so a character that two chunks share is garbled (`intact`);
an expired cache is asked for until the instruction changes; a Gemini call
without `args` is no call; a Gemini block without its blank line at the end of a
reply is dropped; an OpenAI reply that ends early but cleanly yields its calls with
what arguments they have (`null` if they do not parse). Left out: the capacity of
the channel, requests of other sessions, `generate_with_retry`, schemas.

### Delegation

A tree of sessions: 0 is the user's, `1..N` are delegated, in the foreground (the
parent waits) or as jobs (both go on). `phase` says where each stands; `active` is
its `SkillRuntime::invocation` with the `CallChainContext`; `totals[root]` is the
counter that a root's contexts share; `queue`, `notice` and `told` are the inbox,
the extension's `pending_notice` and what stood in a prompt.

* `UserTurn` and `DelegatedTurn` are the head of `step` with
  `before_turn_start` of both extensions, `Prompt` their `before_prompt_build`,
  `Guard` the energy, `Finish`, `AskUser` and `Stop` the three ways a turn ends for
  the skills: hooks called, a question asked, or no hook at all.
* `Check` and `Register` are the two halves of the subagent tool: the budget is read
  in one and raised in the other. `ChildSteps` is `effective_limits`.
* `Dropped` are the sessions that end with another: a waited-for call is a future
  inside its parent's.

Timeouts are handed down as steps are, and left out; the life of a job between
start and end is in `SubagentRuntime`. `Base` is `filter_subagent_tools`, which lets a
skill's session have the subagent tool if the tools it filters hold it. As the program
is wired they do not: the tool is pushed into a session's own list
(session/factory.rs:428) and not into the runtime's `base_tools` (app/bootstrap.rs), so
that today only the user's session delegates. The model has the behaviours that the
filter, the nested budget and the depth limit are written for, those of the program
among them: trees of any depth, of which the program builds the first level.

### SubagentRuntime

Granularity: one step per lock acquisition, because every `.await` on a lock is
a place where other tasks run, where `JoinHandle::abort` takes effect and where
a tool call may be dropped.

* `state`, `label`, `cancelled`, `consumed`, `stored`, `age` are the fields of
  `SubagentJobHandle`; `jobs` and `running` those of the runtime; `told` and
  `taken` together are the notification inbox (what was enqueued, how much of it
  was drained).
* `pc[j]` is the task of job `j`: `Start`, `SetLabel`, `Execute`, `Enqueue`,
  `WriteFinal`, `Finalize`, `Notify`, `Release` follow `run_job` and
  `finish_job`; `Panic` unwinds `run_job` and continues at `finish_job` without
  the slot guard; `Die` is the abort, possible at the await points only.
* `call[a]`, `op`, `target`, `expired` are a parent's tool call or the cleanup
  timer: `Begin`/`Sweep` are the two critical sections of
  `cleanup_expired_jobs`, `Admit`/`Insert`/`Launch`/`Store` are
  `spawn_job_with_limits`, `LookupCancel`/`Abort`/`Mark`/`Report`/`Wake` are
  `cancel_job`, `LookupConsume`/`Consume` are `get_job_snapshot`, the `Wait*`
  actions are `wait_for_terminal`, and `Drop` is the tool call dropped by
  `invoke_tool`'s `select!`.
* The session a job runs (an agent loop) is one step, `Execute`, with the
  outcomes the code distinguishes.

`JobLifecycle` forgets calls, tasks and locks. It has one status and one slot
per job. The refinement is stated in `SubagentRuntime` as `ImplementsLifecycle`,
with `StatusOf` and `SlotOf` as the mapping.

### CodeMode

* `active`, `nextCell`, `stored` are the `SessionState`; `phase`, `shown`, `pub`
  are the `ActiveCellHandle` and the publication of its `CellHostHandle`.
* The worker (the blocking thread with the JavaScript engine) sends events into
  `chan`; `EmitText`, `EmitMark`, `StartTool`, `EndTool`, `Complete`, `Flood` are
  what a script can do.
* `host[c]` is where `perform_cell_host_loop` stands: `Poll` (cancellation,
  deadline), `Receive` and `Idle` (`CellDriver::next_update`), `Record`,
  `Expire`, `Fail`, `Publish`. The host takes the session lock in `Record`,
  `Expire`, `Fail`, and publishes in a later step: that gap is the subject of
  several properties.
* `pc`, `mine`, `moved`, `prefer` are the one tool call in flight for the
  session: `Exec`, `ExecReply`, `Wait`, `WaitWake`, `WaitTimeout`,
  `WaitInterrupt`, `Read`, `Abort`, `Stop`.
* `heard` is a history variable: what the caller was last told of each cell.
* Text is numbered and otherwise abstracted; a summary is how far the text goes
  and which end, if any, it reports.

### Scheduler

* `tasks` is the map behind the lock, `file` is what a parser would find in
  `schedule.json`: `Open` empties it and `Write` fills it, as `fs::write` does.
* A call is `Call`, `Read`, `Install`, `Edit`, `Open`, `Write`; the loop's turn is
  `Wake`, `Read`, `Install`, `Mark`, `Drop`, `Open`, `Write`, `Start`. The file is
  read without the lock, the map is replaced with it, and a save holds the read
  lock while it writes, which `Lockable` states.
* `Kill` and `Restart` are the end of the process and `Scheduler::new`.
* A cron expression is the set of times at which it fires; `IsDue` is the test
  of `run_loop` with its window and its memory of the last run's minute.
  `NewTasks` are the tasks that can be asked for: `Recurring` with an expression,
  `Reminder` with a delay. A task carries the number of the call that made it
  (`serial`), which the program does not keep.
* `started`, `made`, `calls`, `faults`, `kills` are history.

### Trace

Actor 0 is the user's session, whose turns begin the runs; the others are
sub-agents, which publish in the run that spawned them, at the same time and after
it has ended. `queue[a]` is what an actor's step publishes, in order; a record is
published in two steps because the code takes two locks: `Persist`
(`persist_record`: the line in the file, then the database) and `Count`
(`update_summary`: the cached summary, its file, its row). `Begin`, `Iterate`,
`Request`, `StreamFailed`, `Settle`, `Leave`, ... are `step` seen from the trace:
which spans each of its exits ends. `Spawn`, `RunJob`, `FinishJob`, `CancelJob` are
what the sub-agent runtime publishes. `GetRecords`, `GetRun`, `Roots`, `Shown`,
`TurnCount`, `IterationCount` are the queries, over what was stored.

A round has one tool call. Left out: times, attributes, the live feed, events that
only remark on an iteration. As in the code, a run whose last exit was a question,
a stall, a cancelled stream or an error of the model stays "running", and the
"subagent_spawned" span of a cancelled job is never ended; and a transient error of
the last attempt is recorded as a retry that does not come (`StreamFailed`). A trace
file that cannot be opened panics (`bus.rs:175`) and is not modelled: a write that
fails is.

## 3. The runs

| Run | Instance | Question |
|---|---|---|
| `sessions` | 3 operations of any kinds | one turn at a time and a listed session (`SessionsSound`), answers go to the sender, a cancel reaches what was running, a reset forgets, a model change takes effect |
| `sessions_guard` | 3 operations, ACP runs and guards | *violation*: the guard of one client's response stops another client's run |
| `agent_turn` | 3 modes, 2 inputs, 2 calls in an answer, 1 restart, fairness | is every call answered and every kept turn on disk (`HistorySound`), does a step stay in its budget, does it stop promptly when cancelled, is no turn forgotten (`TurnsKept`), does it end |
| `context` | 3 turns, results of two sizes, evidence of two kinds, 1 edit | is every prompt paired (`PromptSound`), within the window, contiguous and whole where it is recent; is the turn kept small; is evidence never replaced by an older look |
| `llm_stream` | 2 requests, 3 clients, replies of up to 7 lines cut anywhere, fairness | is a reply heard as written, does a stream end once (`StreamSound`), does a request mean what the session means (`RequestSound`), is it answered |
| `delegation` | 2 delegated sessions, 4 kinds of skills, 2 turns | lineages that are sound and carried whole from caller to callee, and limits (`DelegationBounded`), counted calls, no parent waits for a call that is gone, a reply resumes its skill |
| `subagent_safety` | 1 job, 2 parents, every operation, drops, panics, clock | is what parents are told what became of the job (`JobsReported`), the counter exact, an end final (`JobsEndOnce`); does the runtime implement `JobLifecycle` |
| `subagent_live` | 1 job, 2 parents, fairness | `Progress`: do slots come back, do jobs settle, do waiters return |
| `codemode_cell` | 1 cell, 2 texts, 2 marks, every environment move but the flood, fairness | order of output (`OutputSound`), honest summaries, one result, and `Answers`: replies never go back, exec and wait are answered, hosts end |
| `codemode_cells` | 2 cells, 1 mark, flood | what an aborted cell's host and worker may do to its successor |
| `scheduler_runs` | 1 id, 3 kinds of task, 1 call, 1 fault, 1 kill, 12 ticks | is what is due started in time (`DueStarted`), and not too often (`RunsSound`) |
| `trace` | 1 job, 1 turn, a retried request, 1 failed write | do summaries count each record once, does a settled run stay so, do queries answer what was stored (`QueriesTrue`), is no span left open |

A property that is a conjunction is one question asked of one piece of state; its
conjuncts are defined and explained one by one in the module.

### Why the bounds are enough

*Sessions.* A race needs two operations, and a third to notice it: a turn, a
reset and the turn that finds what was left; a turn, its cancellation and the turn
it must not hit. Every operation is performed at most once, which is what lets it
name what it brings about. The run leaves `cli` turns out: to the session they are
`agent` turns that hold the permit, as `shell` does.

*Agent loop.* Two calls are a call and the one that is skipped, refused or
starved because of it. A budget of two is the smallest that gives an iteration and
then runs out (the guard takes one before it asks), a renewal of two the same
after it; the number of renewals is limited by the items of `TODOS.md`. Two
attempts are one retry, two equal outcomes a strike. Two inputs are a turn and the
one that finds it in the conversation, which is what compaction needs. The run
leaves out the kinds `read` and `edit`: to the loop a `read` is an `ask` that
fails, and the plan-first rule treats `edit` as it treats `exec`. The
theorems cover every kind and every value.

*Context.* The constants of the code (a window of a hundred thousand, three turns
kept whole, ten within reach) are scaled so that three turns pass through every
zone: one kept whole, two within reach, one old, and a window that one large result
fills by half. Two sizes of results are one below every limit and one above.

*LLM stream.* The longest reply has two calls with interleaved fragments in
several pieces, a call without arguments, text and a comment; all chunkings of it
are enumerated. The replies use each of the ways in which `RepliesRegular` allows
fragments to be numbered. The name of one call comes in two pieces and occurs in the
name of another, and a part of a name is sent again. Three attempts (five in the code) are a first, a middle and a last
one; two requests are what a cache, a switch of clients and a history need.

*Delegation.* Two delegated sessions are a chain of two or two siblings; a depth of
two and one counted call are limits that are met in that tree; an energy of five is
halved twice and then is one. Two turns are a notice and the turn that shows it, a
question and its reply. Lineages, counted calls and who waits for whom are proved
for any tree.

*Sub-agents.* Jobs share only the counter, the map and the lock of the map.
Everything else about a job is in its own handle, so one job under two
parents reaches every interleaving of the per-job protocol. What involves several
jobs, the counter and the overshoot of the limit, is proved for any number of
jobs and parents. The clock saturates at the longest time to live, in which one
tick separates the two limits.

*Code mode.* A session has one caller at a time and at most one active cell, so
two cells are a cell and the successor of an aborted one; the proofs cover any
number. Two texts are needed to see order and loss, two marks to see a
publication overtaken by another.

*Scheduler.* A tick is fifteen seconds: a minute of four, a sleep of two and a
delay of one are the smallest numbers in which the loop can wake twice in a
minute, miss a minute boundary by one tick and still keep to its window; the
horizon is three minutes. Tasks with different ids share only the file and the map as
a whole, which one call and the loop already contend for; one id is where removal
by id can hit another task.

*Trace.* A run and its job already publish at once, and the job outlives the run;
one failed write, of any of the five writes, is enough to take any record from any
store.

Bounds are in the guards and named: `Tasks`, `MaxTurns`, `MaxTodos`, `MaxRestarts`,
`MaxMessages`, `MaxEdits`, `Requests`, `N`, `Turns`, `Jobs`, `MaxCells`,
`MaxEvents`, `MaxMarks`, `Horizon`, `MaxCalls`, `MaxFaults`, `MaxKills`, `Iters`,
`Attempts`, `Failures`. Deadlock checking is off where a model comes to rest when the
bound on its inputs is used up. It is on for `Sessions` and `Trace`, whose rest is a
step of its own or whose end is reached in a known way, and for the agent
loop, where it says little, since a user can cancel at any time; that the loop does
not get stuck is `TurnEnds`.

### Fairness

* `SubagentRuntime`: weak fairness on the steps of tasks and calls, which the
  tokio executor polls while they can run; the timeout that ends `Execute` is a
  timer of the code. Nothing obliges a parent to make a call, a session to
  succeed, an abort to be asked for, or a panic to happen.
* `CodeMode`: weak fairness on each host task, on the pending call, and on the
  passing of the cell's deadline. A script need not go on and a nested tool need
  not return, which is why `HostEnds` has to rely on the deadline. The flood (a
  script that emits text faster than the driver's timeout) is left out of the run
  with fairness: with it the deadline is never looked at, see below.
* `AgentTurn`: weak fairness on `Loop`, all that `step` does until it returns. A
  request ends because the HTTP client has a timeout of 600 s
  (llm_client/protocol.rs:63), a tool because `invoke_tool` has one. Nobody need
  cancel, nothing need succeed, and which way a request or a tool ends is free.
* `LlmStream`: weak fairness on the answer of the provider and on the rest of its
  reply, which the same timeout turns into an error if they do not come, and on the
  reader of the channel. Retries are bounded by their count, not by fairness.
* `Sessions`: `FairSpec` runs every task that can go on, and is strongly fair to
  those that wait for the loop's mutex, because tokio's mutex is a queue. Two
  configurations outside the table use it, with two operations each:
  `SessionsLive.cfg`, where TLC finds that a permit taken for a turn is given back
  (`PermitReturned`), and `SessionsShell.cfg`, see section 4.
* `Scheduler`: no fairness. That what is due is started in time is an invariant,
  `DueStarted`: the clock may not pass the moment by which the executor has run
  the loop (`Slack`).
* `Context`, `Delegation`, `Trace`: safety only. That a delegated call comes back is
  the pair of `TurnEnds` and `Progress`; that a waiting parent has something to
  wait for is the invariant `CalleeLives`.

## 4. What the runs found

One run is a violation: `sessions_guard`. `CancelGuard` (acp/output.rs:76) belongs
to a response stream and cancels the session whenever that stream is dropped. The
stream of a run that was refused, because another client's run is under way, ends
at once; its guard then stops that other run. acp/output.rs:82 logs it as "ACP
client disconnected, requested cancellation".

The same specifications refute the statements below, each quoted from a document,
a comment or a test. Each is defined at the end of its module. Where a
configuration is named it checks just that statement, with the constants that show
it soonest, and TLC stops with a counterexample in seconds; the others are checked by naming
them in the configuration given.

| Statement, and who makes it | Defined as | Configuration | Refuted by |
|---|---|---|---|
| docs/ASYNC_SUBAGENT_IMPLEMENTATION_PLAN.md:566, "`max_concurrent_jobs = 3`", a spawn beyond it fails | `LimitRespected` | `SubagentLimit.cfg` | the limit is read (subagent_runtime.rs:708) before the lock of the map is awaited and taken (732) after it |
| the same, 468, after a cancel the job is written `Cancelled` | `CancelSettles` | `SubagentCancel.cfg` | `run_job`'s unconditional `Running` (961) overwrites it and the abort (882) stops whoever would write an end |
| the same, 528, a terminal state is irreversible | `TerminalIrreversible` | constants of `SubagentCancel.cfg` | the same write at 961 |
| docs/SUBAGENT_TOOL_CONSOLIDATION.md:86, the notification has the terminal status | `NotificationsAgree` | constants of `SubagentCancel.cfg` | `finish_job` enqueues (1126) before it knows whether it wins the state |
| docs/SUBAGENT_TOOL_CONSOLIDATION.md:84, a job can be waited for through the notice of the next turn | `NoticeReachesPrompt` | `DelegationNotice.cfg` | a turn stopped before its first prompt leaves `pending_notice`, the next overwrites it (subagent_notification.rs:63) |
| call_chain.rs:6, `MAX_CALL_CHAIN_CALLS_PER_ROOT_REQUEST` | `CallsWithinBudget` | `DelegationCalls.cfg` | two sessions of a root read the counter (tools/subagent.rs:155) before either raises it; for this a delegated session must have the tool, which the program does not give it today |
| docs/rusty-claw-design.md:93, "Every turn is serialized to a `.jsonl` transcript file" | `TurnsSerialized` | `AgentTurnLost.cfg` | an error of the model leaves `step` by `?` (core.rs:913) without `end_turn`, and so does a stall; the next input replaces the turn |
| docs/CODE_MODE_DESIGN.md:1555, "terminal states are sticky until the final drain is collected" | `EndCollected` | `CodeModeSticky.cfg` | `read_cell_summary` (service.rs:660) returns an older publication and clears the cell that has ended meanwhile |
| the same, 1573, exec on an uncollected end is rejected | `UncollectedRejects` | constants of `CodeModeSticky.cfg` | `execute` (service.rs:259) only looks whether the cell is terminal |
| code_mode/description.rs:92, text is published by a flush, a wait or completion | `TextPublished` | `CodeModeText.cfg` | the idle branch of `next_update` (driver.rs:142) drops what it has collected |
| code_mode/description.rs:52, at the deadline the cell is cancelled | `DeadlineCancels` | `CodeModeCells.cfg` with `MaxCells = 1` and `FairSpec` | every event restarts the driver's sleep (driver.rs:141) |
| scheduler.rs:152, a task is due "within the last minute and not run yet" | `NotRunYet` | `SchedulerTwice.cfg` | a window of sixty seconds against a memory of the clock minute (167): a task of second 45 starts twice |
| shell_escape.rs:727, no "background child process survived cancellation" | `CancelFreesShell` | `SessionsShell.cfg` | token and timeout are heeded until the process ends, the pipes (260) are awaited without them: `sleep 600 &` keeps the permit |
| main.rs:160, registering the tool is safe "because no sessions have been created yet" | `EveryLoopHasTool` | `SessionsTool.cfg` | the scheduler runs (main.rs:157) before its tool is added (162), and may have built a session |
| docs/CONTEXT_MANAGEMENT_DESIGN.md:242, diagnostics are invalidated when sources change | `WrittenIsStale` | `ContextWritten.cfg` | `is_fresh` (evidence.rs:74) compares versions of files and directories only |
| docs/CONTEXT_MANAGEMENT_IMPLEMENTATION_PLAN.md:367, "Tombstones should be short"; docs/rusty-claw-design.md:77, history has 85 % of the window | `RoomIsUsed` | `ContextRoom.cfg` | the tombstone keeps the cost of what it replaces (context_assembler.rs:269), and the history is charged for it |
| docs/LARGE_REQUEST_STRATEGY.md:35, a cached instruction is referred to in all later requests | `InstructionReaches` | `LlmInstruction.cfg` | on Vertex the instruction is removed (gemini.rs:197) and the body built without the cache's id (228) |
| update_session_llm, a session goes on with another client | `SwitchKeepsHistory` | `LlmSwitch.cfg` | calls that came without ids get new ones, and their answers say "unknown" |
| trace/query.rs:716, a run is found by its task | `TaskFindsRun` | `TraceTask.cfg` | the summary takes the task of whatever record comes last (bus.rs:205), a job's among them |

In `Scheduler`, `RunsBounded` allows one more run per overlapping call because
the code needs it: a call that read the file before the loop removed a reminder
puts the reminder back. For the same reason an edit can be lost. An interrupted
save empties the schedule at the next start.

`Sessions` shows what its properties except: two first messages build two loops
for a session and the first of them goes on unseen (session_manager.rs:247); a reset
does not wait for the turn that its own cancel has just asked to stop, and that
turn appends to the transcript that the reset has removed.

What `AgentTurn` shows of the loop besides its finding, in places where a reader
of the documents may expect something else:

* `Compact` archives the turns it compacts a second time (history.rs:115), so after
  a restart the transcript gives some of them twice.
* A step that is cancelled while the answer is already complete still reports
  `Finished`: the flag is next looked at by a guard that it does not reach.
* `check_loop_guards` spends before the first request: a budget of one asks the
  model nothing.
* A strike replaces the result of the call, so a question to the user that causes
  one is not asked, and the step goes on.
* A canceller that has stored its flag and is slow to notify can wake the next
  step, whose own flag was reset.

## 5. What is proved

All theorems are proved by TLAPS from the named assumption on the constants that
each module declares (`SessionsAssumption`, `AgentAssumption`,
`SchedulerAssumption`, ...), for any number of operations, jobs, parents, cells,
tasks and requests. Two theorems have a hypothesis of their own: `DueStartedCorrect`
the one the code's numbers satisfy, `ReplyHeardCorrect` what the providers keep to,
which TLC evaluates on the replies of the instance. Where a run checks a conjunction, the theorem named
after it combines the theorems of its conjuncts.

**Sessions** (`SessionsProofs`). The inductive invariant `IInv` has a part for each
property and one they rest on: `References`, that what a task refers to exists and
that the loop a task may build is not there yet. `Locks`, who works on a loop holds
its mutex and, if it is a bot's turn, its output, gives `AnswersSender`. `Single`,
while the session has had one loop every user of a loop uses that one, gives
`OneTurn` together with `Locks`, and is what `Aims` needs: a turn that a cancel is
aimed at is reached by the flag because both have the same loop. `Listing`,
`Forgets` and `Models` strengthen `Listed`, `ResetForgets` and `ModelTakesEffect` to
every place between two locks. An action is first reduced to what it does to each
task and each loop (`NextSteps`); then each part has one step per kind of step.

**Delegation** (`DelegationProofs`). `IInv` adds to the types and to
`EveryCallCounted` what they rest on. `Lineages`: the chain that a session inherits is
as sound as that of an active skill, so that whichever of them an activation or a
call extends, the result is sound (`ChainSoundCorrect`). `Present`: a call between
check and registration still holds the context of its session, so that the root that
is counted is the root that is inherited; with `RoomKept` it finds a session to
become. `Waits`: every open foreground call has a parent that waits, and for it
alone. The proof for the end of a session needs `Dropped` as a least fixed point: what
is dropped is closed under waiting, so that no survivor's parent is gone, and each
dropped call has its parent among the dropped, so that no waiting survivor loses its
call. `Powered`: a turn has a point left when the guard charges one.
`DelegationBoundedCorrect` adds `Halved` for the numbers: no session has more energy
than it was given, and what it gives to a request, or gave to the session that the
request became, is half of its own budget at most. So it holds at each edge of the
tree, and needs no induction over the tree. It is no bound on the sum: nothing is taken
from a caller for the steps it gives away, and it may call as long as it has rounds of its own.
`LineageCarriedCorrect` adds `Carried`: an open foreground call inherited what
is still its caller's context, since a session that waits neither starts nor ends a
skill, and an activation extends what was inherited by one name.

**Sub-agents.** `TypeCorrect` carries, besides the types, that a call which works
on a handle has one. `LifeInvariant` is the inductive invariant: for
each stage of a job's life, who holds it. It is needed because the counter is
changed by tasks, by aborts and by panics, and only the stage says which of them
is still to come. `CounterCorrect` adds to it that the counter is the cardinality
of the live tasks, one lemma per way a slot is taken or given back.
`OvershootCorrect` counts the spawns between check and increment.
`TerminalCorrect` and `RemovalCorrect` are action properties.
`RuntimeImplementsLifecycle` shows, action by action, that a step of the runtime
is a step of `JobLifecycle` or changes nothing it can see; the limit of the
abstract `Occupy` is where `OvershootBounded` and `CounterExact` are used.
`JobsEndOnceCorrect` combines `TerminalCorrect` and `RemovalCorrect`.
`JobsReportedCorrect` needs `ToldInv`: what the state of a job may be at each stage
(`StateStaged`), that only background jobs are in the map (`MappedBackground`), that
a `Cancelled` state, or a call that is to write one, has set the flag
(`CancelFlagged`), that a call which consumes has seen an end (`ConsumesFinal`), and
a count: every notification that was enqueued or is still to be is one of those the
job is entitled to (`NoticesPaid`), and of an end that is no cancellation there is one
at most, none before `finish_job` announces it (`OneOutcome`). The theorem does not say
that a notice, or a wakeup, comes: an end that was announced may lose the state to a
cancel (`NotificationsAgree` is refuted), and a cancel whose call is dropped before its
notice announces nothing. That waiters return all the same is `Progress`, which TLC
checks. All of it is in `SubagentRuntimeProofs`.

**Code mode.** `CodeInvariant` is inductive and has seven parts: `TypeOK`; cells
not yet started are blank (`CellsStart`); nothing follows the result in a channel
(`EndIsLast`); a host that holds a result holds the one its worker sent
(`ResultsAreReal`); a host that is gone leaves no worker running
(`StrayWorkersStop`); what the active cell copied is what the session stores
(`CopyUpToDate`); every summary on its way is honest (`SummariesHonest`). Each is
needed for the next action of the chain worker, channel, host, session,
publication, reply. `RunawayCorrect`, `SummariesCorrect`, `ResultCorrect`,
`LiveCellCorrect` and `StoredCorrect` follow from it, `CellsKeptCorrect` from the
last two. `OutputSoundCorrect` rests on `OutputInv`: the numbers of the texts
recorded, put aside by the driver and still in the channel, read in that order,
rise, and the last is not beyond what the script has emitted. `RepliesCorrect` is
`RepliesAdvance`, the safety part of `Answers`; it needs `RepliesInv`, that a host
publishes before it records again, so that neither the summary nor the publication
that a call reads is behind what the caller was told.

**Trace** (`TraceProofs`). `Steady` says what an actor's `ActiveTrace`, seed and
iteration are wherever it stands. `CountsAgree` is nearly inductive; it needs that
the ids of records are fresh and that a summary on disk is in the cache
(`CountInv`). `SettledInv` explains `SettledStays`: all records about a run are
published by the user's loop, at most one of them is pending, and a run whose end
was counted is not the loop's any more. `RecordsSound`: every record belongs to the
run of its turn, and every span that begins names as its parent the span that it was
opened in, across sub-agents. Hence a child is one level below its parent, so that
the recursion of `get_tree` shows each readable span exactly once, whatever was lost
(`TreeWholeCorrect`). `CompleteCorrect`: of what was published the beginning was
published before, and it can be read if no write failed; with it the queries count
the turns and iterations by their beginnings (`QueriesTrueCorrect`).
`SettledIsClosedCorrect` needs to know of each open span what will still end it.
`ClosedInv` says so of every span of the user's loop: a published record ends it,
or the loop is where that span is open (`OpenNow`), or the loop has given its run
up, of which no outcome will then be published. It also says that an outcome is
published before the summary counts it, and that the span of a job that is done has
its end published; so where nothing was lost the settled run is closed on disk.

**LLM stream** (`ModelCallProofs`). `StreamInv` has at its heart `AccOK`, what holds
of the locals of the streaming task and of the channel between any two lines: only
the last event is a `Done` or an `Error`, after it nothing is read, the index map
points into the list of calls, and an OpenAI call is sent only when the stream
closes. `Scan`, which takes a chunk apart, keeps it for a chunk of any length, by
induction on the lines seen; so it holds however the reply is cut. `Closed` is the
same once the task has returned. `RequestInv`: a cache's id is only kept with the
instruction it was made of, and a history answers the ids that it has.

`ReplyHeardCorrect` relates the whole of a reply to the whole of what is heard, each
call with the whole of its own name, its own arguments and its own id, from
`RepliesRegular`, which says how the fragments are numbered and the names cut. Its invariant, `HeardInv`, says that a stream that is being read has
come to some unit `u` of some reply (`Position`): what is still on the wire are the
units after `u`, and what the task holds is what `u` units must leave (`Stage`), that
is n lines and h halves of the next. Of n lines, `Recites` says that the events sent
are the lines that send one at once, one for each and in order; `Sorted` says that
`active_tools` has an entry for each call begun, at the place of its turn, with all the
pieces of its arguments that have come and its name as far as it is spelt (`EntryOf`), and that `index_map` leads from each
index to the call with an id that was begun with it last. `NameMore` takes a name one
piece further, by the substring test. Order is always said by
`Enumerates`, that a function lists a set of numbers upwards; `EnumOrder` makes of it
the sequence that `InOrder` computes, and `OrderMatch` lets two such lists correspond.
One lemma for each kind of line takes `Sorted` and `Recites` one line further: the
place of a fragment is found (`PlaceFound`) or is the next (`PlaceNew`), which is where
the hypothesis is needed. `UnitStage` does the same for a unit, `ScanStage` for a chunk
of any length, and at the end of the reply `BlocksHeard` and `FragmentsHeard` read
`ReplyHeard` off it.

**Context** (`ModelCallProofs`). The invariant, `ContextInv`, is short: every turn
that is remembered is `Complete`, paired and not ended by a call (`DialogueInv`);
evidence is one for a kind and not newer than the workspace or than a look that has
yet to be registered (`EvidenceInv`), of which `LatestLook` is a consequence; and
`TurnBounded`. The work is in the functions. Each recursive one is first shown to be
the sequence of its steps (`Followed`), then has an invariant of its own.
`CompressedBounded`: after k steps the rest is within the limit or the first k results
are stripped, save the last round's. `RoundBounded`: truncation does not undo it.
`TakeTakes`: as long as nothing was left out, the blocks taken are the newest turns as
`BlockAt` gives them, with the protection that the turn before asked for, and they are
within the budget; this is `NewestWholeCorrect`. `AllotFits`: what is written is at
most what is counted as used, and with what is left at most the budget, although
evicted evidence is counted in full and written as a sentence. `FitsWindowCorrect` adds
the two budgets, which the code computes with saturating subtractions in different
orders. `PromptSoundCorrect`: stripping, cutting and compaction leave each turn
complete (`ShownOf`, `CompactedOf`), and complete sequences may be put one after the
other (`JoinedPaired`, `FlattenComplete`).

**Scheduler** (`SchedulerProofs`). `SchedInv`: where the loop and the calls stand;
no version of the schedule, in memory, in the file or in the hands of whoever has
read it, has a task other than as it was made (`VersionInv`); a task that is being
added is in none of them yet (`CallInv`). The bounds on starts hold because of
`CountInv`, an account for each task. Its assets are the slots in which it ran (the
minutes, or one for a reminder), the failed saves and the calls. Its debts are the
starts made, a start about to be made in a slot that was used (`Again`), a version
that has forgotten a run and may cause another (`Lost`), and the calls that have
not yet installed what they read (`Armed`), each of which may bring such a version
back. No step makes the debts exceed the assets: a save that fails pays for what
the file forgets, a call for what it writes back, and a kill costs nothing since
what is started was saved before. `RunsSoundCorrect` then bounds the slots by
the times at which the task fires, or by the starts in other minutes.
`DueStartedCorrect` has a hypothesis, `Period + 2 * Slack <= Minute`: the loop
wakes thirty seconds after its turn and looks back sixty, so it may be fifteen
late. The instance has equality. It speaks of reminders and of tasks whose expression
fires at second 0: with other seconds it would be false, since the mark of a run blocks
a later time in the same minute. `DueInv`: the loop is never later than that
(`TimeInv`), the version that it looks at next has the task, with no mark but of
a run that was made (`KeepInv`), and each time is yet to be looked at or was
handled (`DoneInv`); the mark that blocks a time is of a run in the same minute,
which is its own if it fires with second 0.

**Agent loop.** From `AgentAssumption`, for any limits and any kinds of calls.
`IInv` is inductive: `TypeOK`; `Positions`, which turn, attempt and call there is
at each place of `step`; and `Pairing`, that the calls still to be run and the
responses collected add up to what the turn owes, and that outside a round there
are neither (which gives `FreshStream`). Pairing is what
`HistoryPaired` lacks: while a round runs the conversation is unpaired, and only
the count says that the end of the round will close it on every path (`Skip`,
`Refuse`, `Halt`, `Exhaust`, `Return`, `Interrupt`). `CancelIsPrompt` adds
`Lateness`, which bounds the waits by the attempts already made and by the place,
and `EnergyPaidFor` adds `Spent`, which says how many requests the energy that is
left stands for. `NothingForgotten` rests on `MemoryKept`, for a restart rebuilds
the conversation from the file. `HistoryCorrect` and `TurnsKeptCorrect` combine them
into what `agent_turn` checks.

**Only model-checked.** Everything under fairness: `Progress`, `Answers` (but for
`RepliesAdvance`), `TurnEnds`, `Answered`, `PermitReturned`. The prover has no rule for
fairness and `ENABLED`. Every safety property that a passing run checks is a theorem.
What a recursive function computes for every sequence is proved without the library's
induction theorems, whose operator parameter the provers cannot instantiate: the least
counterexample in a set of numbers takes their place (`UpTo`, `SetInduction`).

## 6. What is not modelled, and the plan

`PROJECT.json` lists every part with its status and reason. Not modelled at all:

* the tools themselves (files, bash, web, browser, LSP): each is one call around a
  process, a file or a library and keeps nothing between calls; what the agent loop
  makes of a call, its timeout and its cancel is in `AgentTurn`;
* the task-state store and the event log: documents that one loop reads and writes;
* retrieval and memory, sandbox and security, telemetry, configuration, logging:
  wrappers and text analysis without a protocol;
* what front ends render, the prompts' texts, the parser of skills;
* `context-profiler`, the WASM demo and the skills' scripts, which are not part of
  the running agent.

Within the modelled parts, besides what section 2 says of each:

* the JavaScript engine, and the timer pump of code_mode/runtime/wrapper.js:74, where
  a callback that awaits another timer blocks the pump that would fire it;
* the order in which independent tasks write snapshots of the session registry
  (repository.rs:103): the file is read at the start only, and feeds a list;
* time zones and changes of the clock in the scheduler;
* more than one session in `Sessions`, and so `/agent` between two: sessions share
  the map's lock, the model and the sub-agent runtime, nothing else.

What the plan has left, in this order: the timer pump as a module of its own, which
needs an account of the engine's job queue; the snapshots of the registry, with a
restart; a second session in `Sessions`.
