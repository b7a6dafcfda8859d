# Verification of Syncore

TLA+ models of the orchestrator of Syncore, the TLC runs that check them on small
instances, and theorems about them that TLAPS checks for every value of the
constants. Paths below are relative to the repository; `app/` is
`src/services/orchestrator/app/` and `memory/` is `src/services/memory/`.

Syncore is a FastAPI service. Tasks are created in a store (SQLite by default,
Postgres optionally); an *autonomy engine* takes a task through plan, execute and
review by asking *agent runs* of model providers; a *run queue* executes requests
in the background. Nearly all state is in the store, each store call is a
transaction of its own, and nothing spans two of them: a background loop and any
number of HTTP threads read, decide, and write later. That is where the hard
behaviours are, and what the models are about.

## 1. Inventory

Status: **M** modelled, **P** partly, **-** not modelled.

| Component | Code | State | Operations | |
|---|---|---|---|---|
| Autonomy task engine | `app/services/autonomy_service.py`, `autonomy_task_gate.py`, `autonomy_stage_*.py`, `autonomy_failure_handler.py`, `autonomy_quality_gate.py`, `autonomy_finalizer.py` | `tasks.status`, `project_events` | `process_task`, `process_pending_tasks_once`, `set_approval` | P |
| Failure policy, stage executor | `autonomy_failure_policy.py`, `autonomy_stage_executor.py` | none | choose a strategy; dispatch a stage to a run or a workspace loop | - |
| Subtask fan-out and hand-off | `autonomy_subtasks.py`, `autonomy_candidates.py`, `autonomy_recommendation_service.py` | child tasks, events of parent and siblings | spawn children, recommend, child and recommendation gates | P |
| Runtime and model selection | `autonomy_runtime_selector.py`, `task_model_policy_service.py`, `src/services/router/policy.py` | `model.switch` events | choose provider, model; switch budget; policy updates, switches | P |
| Background loops | `app/lifecycle.py`, `app/main.py` | two asyncio tasks | poll the engine, poll the queue | P |
| Run queue | `run_queue_service.py` | `run_queue` rows | enqueue, `scan_once` (claim, execute, complete) | M |
| Run execution | `run_execution_service.py` | `agent_runs`, `context_references` (idempotency), events | `execute`, `stream_execute` | P |
| Agent-run lifecycle | `agent_run_service.py` | `agent_runs` | cancel, resume, reconcile stale runs, manual create and update | P |
| Memory stores | `memory/sqlite_store.py`, `memory/store.py` | all tables | one transaction per call | P |
| Tasks and reports | `task_service.py`, `task_execution_report_service.py` | `tasks` | create, update, list, detail; derived reports | P |
| Workspace execution | `workspace_execution_*.py`, `workspace_action_dispatcher.py`, `workspace_verification_service.py`, `execution_policy.py`, ... | a bounded action loop, the workspace's files | plan, act, verify, accept, learn | M |
| Workspace catalogue and analysis | `workspace_service.py`, `project_scanner.py`, `policy_packs.py`, ... | `workspaces` | scan, score, learn | P |
| Context assembly and optimizer | `app/context/*.py` | `context_bundles`, `context_references` | assemble, compress to a token budget | P |
| Providers | `app/runs/providers.py`, `provider_transport.py` | none | HTTP calls with bounded retries, streams, failover | M |
| Batons, events, notifications, routing | `baton_service.py`, `event_service.py`, `routing_service.py` | their rows | create, list, acknowledge | P |
| Metrics, benchmarks, observability | `metrics_service.py`, `observability.py`, ... | counters | count, report | - |
| Security middleware | `app/security.py` | fixed-window counters under a lock | admit a request | - |
| Local auth and settings, Codex login | `local_auth_service.py`, `experimental_auth/*` | key files, login sessions | read, write, log in | - |
| Analyst digest, contracts | `src/services/analyst/digest.py`, `src/packages/contracts` | none | summarise | - |
| API, CLI, web, migrations, deployment | `app/api/routes/*`, `src/apps/*`, ... | none of their own | call the services | P / - |

How they interact: `lifecycle.py` and the routes call `AutonomyService`, which
reads and appends project events, writes the task's status, and calls run
execution (or the workspace loop, which calls it in turn) once per stage.
`RunQueueService` calls run execution once per claimed job. Run execution checks
the limits over `agent_runs`, creates a row, calls a provider, and records the
end of the row; the operator's endpoints write the same rows. Components share
no memory but the store.

What is hard, and what correctness means:

- *Engine.* A pass decides from the events it has read. Another pass (loop and
  `/autonomy/scan-once`, `/autonomy/tasks/{id}/run`) or an operator may write in
  between; a process may die anywhere. Stages must stay in order, execute must
  wait for its approval, cycles must only advance, budgets must bind, a completed
  task must have passed its gates, and every task must come to an end.
- *Fan-out.* A plan may spawn children; the parent waits for them and the
  implementation child for its analysis sibling, each by reading the others' rows at
  every poll. No one may go ahead of what it waits for, wait for ever, or be lost.
- *Queue.* Claims race, a scanner dies holding a job, recording a result fails.
  A job must not be executed more often than it has attempts, must end, and must
  not be executed by two scanners at once.
- *Agent runs.* Limits are checked long before the row is created; the
  idempotency key is looked up at the start and kept at the end; operators write
  rows that threads are executing. Slots must not leak and a replayed response
  must be that of a finished run.
- *Workspace loop.* A model's answers edit files that other loops edit too, each is
  verified with results of earlier steps, and what was changed is noted action by
  action, while its commands are shells that edit files and note nothing. What the actions of a
  completed run altered must meet its contract, a failure from before an edit must not
  fail it, and the metadata of the workspace, which scans and loops
  write back whole, must stay consistent with itself.
- *Context.* Prompts are cut to a budget while events and batons arrive. What is
  critical must survive whole, and a reference must give back the text it replaced.
- *Stores.* An operation on SQLite is a clock read and several statements. It must
  look as if it took effect at once, as the Postgres one does, also when it fails.
- *Providers and routing.* Retries, timers and failover may prompt twice; switches
  are counted from events that are read before the choice and written after the run.
  An answer must come from one attempt, and a task must not wander between providers.

`PROJECT.json` lists every hazard at its line with the properties that cover it.

## 2. Modules

| Module | What it is |
|---|---|
| `Autonomy` | one task and the passes over it |
| `Fanout` | a parent task, the children it spawns, and the scan over them |
| `RunQueue` | the queue on either store |
| `JobContract` | what the queue promises of a job; `RunQueue` implements it |
| `AgentRuns` | the rows of agent runs, their executions and operators |
| `WorkspaceLoop` | the action loops of tasks in one workspace, its metadata, scans |
| `ContextAssembly` | gathering and cutting down the context of a prompt |
| `Tables`, `StoreRequests` | tables and SQL statements; what the services ask of a store |
| `Records` | the Postgres store: an operation takes effect at once |
| `SqliteRecords` | the SQLite store, statement by statement; implements `Records` |
| `Providers` | what each provider can do and which are ready |
| `ProviderCall` | one prompt: candidates, timer, thread, transport and its retries |
| `ModelRouting` | the provider and model of each stage, policies, switches |
| `MCAutonomy`, `MCFanout`, `MCRunQueue`, `MCAgentRuns`, `MCWorkspaceLoop`, `MCServices` | small instances for TLC |
| `Extrema` | `Max` and `Min` of finite sets of numbers, proved |
| `AutonomyProofs`, `AutonomyCycleProofs`, `FanoutProofs`, `RunQueueProofs`, `AgentRunsProofs`, `WorkspaceProofs` | theorems about the module each is named for |
| `ServicesProofs` | theorems about `SqliteRecords`, `ProviderCall`, `ModelRouting` and `ContextAssembly` |

### Autonomy

`status` is the task's column, `log` its events in the order of `created_at`,
`ripe` the scheduled retries whose `next_retry_epoch` has passed. A *worker* is a
thread inside `process_task`: `pc[w]` is the place it has reached and `ctx[w]`
what it holds in local variables there (stage, cycle, the events it read, the
clock it read, whether approval is required). `Recent` is what
`list_project_events` returns: the last `Window` events (the stores clamp every
limit to 200).

One pass, in the code's order:

| Action | Code |
|---|---|
| `Pick` | the first half of `process_task`: status test, events, mode adjustment, clock, step count |
| `Overspend` | the step budget is spent: block |
| `Admit` | `status = in_progress`, unconditionally; `_bootstrap_if_needed` |
| `Gate` | second read of the events; finalize, approval, retry, plan and in-flight gates in that order |
| `RequestApproval`, `RefuseTask`, `DeferForPlan` | what the gates do when they stop a pass |
| `StartStage`, `StageReturns`, `StageRaises` | `AutonomyStageProcessor.process`: started event, the run, completed event |
| `RecordFailure`, `ScheduleRetry`, `Replan`, `GiveUp` | `handle_stage_failure` |
| `FailQuality`, `PassReview`, `PassStage` | `AutonomyStageOutcomes` |
| `Finalize` | `finalize_task` |
| `Decide` | `set_approval`, by an operator, at any time |
| `Die` | the process restarts, or an exception of a type `process_task` does not catch |

The questions `AutonomyTaskGate` puts to the events are operators of the same
names (`current_cycle`, `next_stage`, `approval_gate_state`, `stage_inflight`,
`failed_attempts`, ...). The clock is abstracted to whether a scheduled retry was
due when the pass read it (`ctx[w].now`).

Abstractions. The run of a stage returns output that passes its gate or does not,
or raises one of `Causes`. A failure's text is one of `Reasons`; it stands for
the text and the plan signature that low-information detection compares.
`Block` writes the status and an event in one step, and `RecordBoth` two events:
no pass reads anything from between them that changes its decision, and a crash
between them leaves what `Die` one step earlier or later leaves. A failure that
blocks a task for being low in information leaves two events, which count as one. Execute plans
always hold actions (the builder falls back to default ones). The quality gate
charges 40 for a review without its keyword, so a review that passes the gate
holds the keyword, and the branch of `handle_review_outcome` that finds it
missing is not reachable. Preferences are one event, written when the task is
created. A failure while a stage's result is recorded (after
`autonomy.stage.completed`) is one of the deaths. The task has no children and no
siblings (`Fanout` has those). Events that nothing reads back to decide on
(feedback, snapshots, routing, digests) are left out.

### Fanout

`rows` are the tasks in the order of `created_at`, the parent first. A row has the
task's status and what its events say: the cycle, the stages `done` in it, the stage
in flight, whether a plan was kept (`planned`), whether the analysis child recommended
something (`advised`), and whether the child's preferences have been written
(`told`). `lists` are the `autonomy.subtasks.spawned` events. A worker is a thread in
`process_pending_tasks_once`: `queue[w]` holds the tasks of its scan still to come.

| Action | Code |
|---|---|
| `Scan`, `Pick` | `list_tasks`, then `process_task` for each unfinished task, newest first |
| `ReadChild`, `JudgeChildren` | `child_gate_status`, one child after the other, and what `process_task` does with its answer |
| `Admit`, `Gate` | `in_progress`; finalize, recommendation gate, plan gate, in-flight gate |
| `StartStage`, `FailStage`, `PassStage` | the stage, as it ends |
| `FollowUp` | `handle_stage_success`: keep the plan, then spawn; keep the advice |
| `SpawnOnce`, `CreateChild`, `TellChild`, `RecordSpawned` | `spawn_once`, one store call each |
| `Finalize` | `finalize_task` |
| `Die` | the process restarts, or an exception ends the scan |

A stage passes, opens the next cycle or blocks its task; what leads to which is in
`Autonomy`, and so are retries, the step budget, approvals and the read window. The
parent has `auto_spawn` on; children never do. The recommendation gate reads siblings
and their events in one step. An analysis stage that passes always yields advice
(the run's own text is the summary when no better one is found in it), and an analysis child completed without
any still has the baton written when it was bootstrapped, so the gate's last answer,
*blocked for want of a baton*, is not reachable. A request to
`/tasks/{id}/run` is a scan that processes one task.

### RunQueue and JobContract

`row[j]` is the job's status and `attempt_count`, `created` the order of
`created_at`, and per scanner: `pc`, the `job` in hand, the status it `wanted` to
record, and the row `read` by SQLite's `complete_run_job`. `deployment` is the
store (`atomic` or not) and the scanners that serve it. Postgres: `Claim` is one
`UPDATE ... FOR UPDATE SKIP LOCKED`, `Complete` one transaction with the row locked. SQLite: `Look` and `Take` are the SELECT and the
guarded UPDATE of the claim (whose row count is not looked at), `ReadRow` and
`WriteRow` those of the completion. `Reject` and `Execute` are
`_execute_claimed_job`. `CompleteRaises` is a store call that fails: after a
success the `except` clause asks for a retry, otherwise the exception leaves
`scan_once` and the job is *lost*. `Crash` is a dead process. A store call that
raises is taken to have written nothing. The limit of one scan is left out (a
scan that ends is followed by another), and so is `available_at`, which a retry
sets to now. `runs[j]`, a history variable, counts executions.

`JobContract` is a job seen from outside: absent, waiting, running, completed or
failed, with the attempts charged to it. `Contract` in `RunQueue` maps `queued`
and `retry` to waiting; nothing else is hidden.

### AgentRuns

`runs` are the rows in the order of `created_at`; `output`, `replay` and
`answered` what is stored of their responses; `mine[c]`, `tally[c]`, `req[c]` what
a caller holds. `Lookup`, `CheckTask`, `CountTask` (one task of the workspace at
a time), `Create`, `Call`, `Complete`, `StoreOutput`, `Persist` and `Fail` are the
store calls of `execute` in their order; a stream ends after `StoreOutput`, since
`stream_execute` keeps no response. `StoreRaises` is a store call that fails, in
the `try` block or in its `except` clause, and `Die` a dead process or a client of
a stream that left (`GeneratorExit` passes the `except Exception`). The operator's
`cancel_run`, `resume_run` and `reconcile_stale_runs` read and decide, and
`OperatorWrites` writes later, as the service does. `Age` is the stale timeout.
All tasks are in one workspace. Which provider answers, the failover and the
prompt are abstracted into `Call`. A request whose response was kept returns
before it writes anything and is no action. The endpoints that create and update a
row by hand, to any status, are not modelled.

### WorkspaceLoop

`asked[l]` is the request of a loop with the lists of actions its model may answer,
`files` the text of each file of the workspace (right, wrong, right with a secret in it,
or absent), `deps` whether the dependencies are installed, and `meta` the metadata of the
workspace's row: contract, learning and readiness. `loop[l]` holds the place reached, the
step, the actions still to do, the paths noted as `changed` in their order, the results of
commands and of the probes of a verification, why it ended and the metadata it has read. A
command judges the files in `Needs`, as it finds or as it leaves them, and may leave any text in
those in `Edits`, whoever runs it and however it ends (`Outcomes`): a formatter, an installer. A
setup command may install the artefacts as well, and a slow one may run past its timeout and raise.
History: `start`, the files as the loop found them; `spilled`, those that its commands altered;
`stale`, the commands that did not run since a command altered what they need; `shared`, whether
other loops altered any. Only the first `Inspected` notes (50 in the code) are read for secrets
and behaviours.

| Action | Code |
|---|---|
| `Preflight` | `preflight`, with one repair by the setup command |
| `Plan`, `Ask` | the model's plan (after which an approval raises and a dry run ends) and its answer |
| `Act` | `dispatch_actions`, one action: `Block`, `Write`, `Patch`, `Delete`, `Move`, `Stumble`, `Look`, `Finish`, `Run` |
| `Test`, `Probe`, `Judge` | the required commands still missing, one by one, then the probes and the verification of a step |
| `Test`, `Probe`, `Verify` | the same at the end, once more with all tests if it is for them that it fails |
| `Recall`, `Record` | `record_success`, `record_failure`: read the row, write it back whole |
| `ScanReads`, `ScanWrites` | `scan_workspace`, asked for by an operator |
| `Retry` | the engine tries the stage again, with the files as they are |

The policy (`action_allowed`, `command_allowed`) is made of the profile, the policy pack,
the runbook and the contract as the code merges them, and every gate of
`verify_workspace_execution` is an operator. Diffs, prompts and reports are left out. What
a scan recognises is a set of facets, chosen freely from `Contracts`.

### ContextAssembly

A text is what it says, its form (verbatim, summary, reference) and its length; cutting is
taken to hit the width asked for exactly. `recorded_events`, `batons` and `bundles` are the
rows, `references` and `layers` what stands for the logs taken out of a prompt. An assembler
reads the baton (`ReadBaton`), then the events and the last bundle (`ReadEvents`), shapes the
sections and places them in the budget (`Optimize`), in dual mode once more without layers
(`Compare`), and keeps the bundle (`SaveBundle`). `RecordEvent` and `PassBaton` go on meanwhile,
and `Restart` ends the process, which forgets whether layering paid off. The writes of one
pass to the reference tables are one step: each names its row by the digest of the text.

### Tables, StoreRequests, Records, SqliteRecords

`Tables` has the tables with their references and the few statements of SQL,
`StoreRequests` what tasks, batons, events, findings, runs, workspaces, snapshots and
notifications ask of the store, a request being a sequence of calls. The id of a row is the
time it was created at. In `Records` a Postgres call begins (`Begin`) and later takes effect and
answers in one step (`Run`), or raises and leaves nothing (`Raise`). `SqliteRecords` takes the
same calls statement by statement: `ReadClock`, `Execute` (which takes the lock of the file
and changes a draft), `ReadBack`, `Commit`; `Query` for a SELECT; `Refuse` for a statement that is not
acceptable or finds the file locked; `Fail` for a database error anywhere. `ActsAsPostgres` is
`Records` with the place reached, the draft, the row read back and the lock hidden: the two stores
write and answer the same, and what is in between is never seen. Jobs, context rows and the
windowed log have modules of their own.

### Providers and ProviderCall

`Providers` is the table of capabilities and how each provider is called. In `ProviderCall`
the caller takes the candidates (`Prompt`, `TryNext`), waits under a timer (`Expire`; the pool of one
thread is left only when the thread has ended), and returns, gives up on the candidate or raises
(`Return`, `GiveUp`). The thread connects and answers (`Answer`), or opens a stream, reads
chunks and comes to its end (`Open`, `Chunk`, `EndOfStream`). `CallError` tries a connection again when it could not be
made or the server failed, at most `MaxRetries` times, and never once a stream was opened.

### ModelRouting

`log` holds the task's events that routing reads: preferences, runs, failures, switches. A
stage reads the preferences (`ReadTask`), then counts the switches (`CountSwitches`), then reads the latest
run and the failures and chooses (`ChooseProvider`); its run ends (`StageRunCompletes`, `StageRunFails`) and
the switch is recorded (`record_model_switch_if_needed`). A client changes the policy or switches
the model, reading first and writing later (`RequestUpdate`, `update_model_policy`, `RequestSwitch`,
`switch_model`, `RecordSwitch`), and the process may die (`Crash`). Scores are the code's, in thousandths.

### MCServices

`Services` puts the last four groups beside one another: `component` says which of them
a behaviour is about, and the others stay as they start. They share no state in these models, so
nothing is lost by taking them one at a time.

## 3. Runs

| Run | Question | Bounds |
|---|---|---|
| `AutonomySingle` | do gates, budgets and backoff hold, and does the task settle? | one worker, every cause, two texts, 2 cycles, 1 retry, 5 steps, one decision |
| `AutonomyRace` | what survives two passes at once and a death? | two workers, 2 cycles, 3 steps, one decision, one death, passes begin below 12 events |
| `AutonomyWindow` | does approval hold however long the log? **no** | window of 12 in place of 200 |
| `AutonomyReject` | is a rejected task never completed? **no** | one worker, two decisions |
| `Fanout` | do parent and siblings wait for one another, and never for ever? | two children (analysis, implementation), one worker, 2 cycles, one death |
| `FanoutCrash` | does a parent wait for every child it created? **no** | the same |
| `RunQueue` | executions, lost jobs, progress, contract | Postgres with two scanners or SQLite with one; three jobs (one malformed), 2 attempts, a crash, a fault |
| `AgentRuns` | limits, slots, outputs, replays | two callers, two tasks; limits of 1 per task and 4 per workspace with two operator acts, or of 2 and 1 with one; two rows before the last requests, a crash, a fault |
| `AgentRunsReplay` | is a key executed once? **no** | two callers, limits of 1 and 1, no failures |
| `WorkspaceLoop` | does what the actions of a completed run leave meet its contract, is a failure current, does the metadata stay consistent, does every run end? | one loop with any of eleven requests on two trees and one retry, or two loops of one step beside a scan |
| `WorkspaceApproval` | does an approved run go through? **no** | one loop, the request that was approved |
| `Services` | contexts, store, providers, routing: see the properties | below |

Why the bounds are enough. Two cycles, a step budget that is neither the first
nor the last limit to bind, one retry and the default low-information threshold
of 2 make each budget of the engine bind in some behaviour, and two texts let a
failure repeat or differ. A race takes two passes; a third only repeats what the
second may do to the first, and the theorems hold for any number. One death, one
fault or one crash shows what a single failure leaves behind; the theorems allow
any number. `MaxEvents` stops a pass from *beginning* on a long log, so no pass is
cut short. A job of 2 attempts is retried and then fails; three jobs let a retry
hold its place before another job. A limit of 1 with two callers reaches the
overshoot the properties allow: changing a limit's test by one breaks them.
Two children are the smallest family in which both gates work: the analysis and the
implementation child; the review and integration templates are treated as the parent
treats any child. `Fanout` has one worker, as the background loop is: a second pass
can run the parent's execute, or spawn again, while the first creates the children
(see the hazards), so `ParentDelegates` and `NoOrphans` are promises of the loop alone.
`ScanLimit` is the 50 of the code and does not bind. `NoOrphans` and `FamilySettles`
speak of behaviours without deaths, the other properties of `Fanout` of those with
one, too.

In `WorkspaceLoop` two files are enough for a move, for a change of one file where another
is protected and for `max_changed`; four commands give a test, a longer one whose text contains it
(which the code takes for the same), one on the other file, which edits the first, and the setup,
which edits the other. Two notes are read for secrets, so that the third is not. Each of the eleven
requests turns on rules of its own, and between them every gate of the verification both holds
and fails. Three steps let a later answer undo an earlier one and mend it again; the two loops
that share the workspace take one each.

In `Services` the 80 events of a context are 2, so that events leave the window, the 4 kept in
full are 1, and a single comparison may end layering for the second bundle; sizes are
those of the code, with budgets of 300 and 1200 tokens that bind at different sections. Two
assemblers run at once in dual mode, where their reads and writes interleave. In the store two
callers make one request each, out of 28 that use every call, one call of the database may fail, and lists are cut at 2 rows: the
overlap of two transactions is what can go wrong, and the theorem holds for any number. A prompt
tries two fallbacks with 2 retries and 2 chunks. A task runs 3 stages against a budget of one or
two switches, with one request of a client and one crash; 4 events are searched for failures, so that a failure is
forgotten again.

`MaxRuns` bounds the rows a request finds, not those it adds. Deadlock is not
checked, because every model may stop: the task settles, the jobs end, the loops
end, no request comes.

The runs that check liveness use no symmetry, and neither does `Services`, where
one assembler may work alone; in `AutonomyRace`, `AgentRuns` and
`AgentRunsReplay` workers, callers and tasks are interchangeable model values.

### Fairness

Only `AutonomySingle`, `Fanout`, `RunQueue` and `WorkspaceLoop` assume any. Each worker's,
scanner's or loop's steps are weakly fair: the background loops of `lifecycle.py` poll for
ever, an exception in one tick is caught there, and a pass runs in a thread whose
calls all end (a provider call is an HTTP request with a timeout and a bounded
number of retries in `provider_transport.py`; a command has `timeout_seconds`). The clock is fair
(`RetryComesDue`). Operators, deaths and faults are not: the properties must
hold if no one ever approves, and if everything fails once.

`Settles` is checked without deaths. With one it is false, and the code shows why:
a stage whose process died between its started event and its end stays in flight
for ever, because `stage_inflight` has no timeout. No document promises otherwise,
so it is listed as a hazard and not as a finding.

### Findings

1. **A long wait loses the approval preference** (`AutonomyWindow`). A task whose
   unattended mode is downgraded appends `autonomy.mode.adjusted` at every poll while
   it waits for approval. Once 200 events have passed, `task.preferences` is out of
   the read window, `requires_approval` is false, and execute starts.
2. **A rejection can be overwritten** (`AutonomyReject`). `process_task` writes
   `in_progress` (`autonomy_service.py:386`) and `finalize_task` writes `completed`
   without looking at the status again.
3. **An idempotency key does not prevent a second execution**
   (`AgentRunsReplay`) for a request that arrives before the first one's response
   was kept.
4. **A crash while spawning leaves orphans** (`FanoutCrash`). The children are recorded
   after the last was created (`autonomy_subtasks.py:103`). A pass that dies before that
   leaves children the parent does not know of: it executes and completes by itself.
5. **An approved task in a workspace is turned down** (`WorkspaceApproval`). The engine
   waits for the approval and then calls the loop with `require_approval` still set
   (`autonomy_stage_executor.py:63`); the coordinator raises for it after planning
   (`workspace_execution_coordinator.py:156`), every time.

Each quotes, in `PROJECT.json`, the document, test or message it disagrees with.

### Observations

What the models show and no document contradicts:

- A review's verdict can be lost. `record_stage_completed` appends `autonomy.stage.completed`
  before the output is judged (`autonomy_stage_outcomes.py:97`); if the process dies in between,
  the next pass finds all stages complete and finalizes. `CompletedPassedEveryGate` is checked
  without deaths.
- A stream that is cut off passes for a complete answer: `EndOfStream` does not tell them apart.
- A preferred or learned model is sent to whatever provider is chosen, also to one that does not
  have it. An update accepts a latency of `medium`, which the scorer does not know and ignores,
  and an empty provider, which clears the preference.
- Policy updates write all preferences, so of two that overlap one can be lost.
- `create_task` checks the workspace and then inserts; a workspace deleted in between, or later,
  leaves tasks that name it. A finding may be stored without its notification.
- `SwitchesWithinBudget` counts on one worker for a task and on a log within the read window: the
  limits of 100 and 200 events in the reads of routing are not in the model.
- What a shell command alters (`workspace_operations_service.py:185`) is noted by nobody: a run may
  complete although a command altered a forbidden file, or more files than `max_changed_files`. So
  `CompletedTreeAccepted` speaks of what actions altered (`Altered`), whatever commands edit in between.
- A failure of one required command stands although a later one of the list mended what it failed on:
  the list goes on, and nothing runs the first again unless an answer follows. `FailureIsCurrent`
  exempts just those commands (`stale`), not the failures that an edit of the run's own made obsolete.
- After 50 noted paths the rest are not read for secrets; the property says so.

## 4. Proofs

All hold for every value of the constants that the modules' `ASSUME`s admit
(settings as `config.py` and the constructors leave them: positive cycle, step
and attempt limits, a low-information threshold of at least 2, natural bounds;
events and batons with the fields the stores give them). Where a theorem asks for
more, it says so as a hypothesis, and the text below says what goes wrong without it.

### The engine

`AutonomyProofs!TypeCorrect` — `Spec => []TypeOK`. `TypeOK` holds every cycle
number to `1..MaxCycles`, so the theorem says that no pass opens a cycle past the
limit. That is not inductive: a pass about to replan must be known to be below the
limit. `TypeInv` adds exactly that (`replanning` implies `~last_cycle`) and that
every worker's context is typed against the growing log. The lemmas
`RecordGrows`, `ContextGrows` and `CurrentCycleTyped` carry the log; each action has
its lemma.

`AutonomyProofs!StagesAlwaysInOrder` — `Spec => []StagesInOrder`. `OrderInv`
adds that a worker cleared by the gate has, in the log, the completions its stage
needs (`GatePrepares`). They stay there because the log only grows (`Adds`,
`PreparedStays`), whatever the other workers do, which is why no lock is needed for
this property.

`AutonomyProofs!ApprovalAlwaysBeforeExecute` — `Spec => []ApprovalBeforeExecute`.
`ApprovalInv` adds that the preferences stay first in the log, that a pass that read
a log within the window knows that approval is required (`PickKnows`), and that one
cleared for execute saw an approval (`GateSawApproval`). The property has its
condition on the window because without it the code does not keep it (finding 1).

`AutonomyCycleProofs` has what the engine promises by counting events. A pass counts in the
events it has read and writes later, so most of this holds only while what it read is still
all there is. The hypotheses are `Alone` (one worker, as the background loop is while nobody
calls the scan endpoints), `Fits` (the log is within the read window) and `Calm` (`Fits`, and no
pass was cut short).

| Theorem | Under | Without it |
|---|---|---|
| `CyclesAlwaysAdvance`, `RetriesAlwaysWait` | `Alone`, `[]Fits` | two passes may open the same cycle, or one may start a stage that the other has just put off |
| `AttemptsAlwaysWithinCap`, `FailuresAlwaysWithinRetries` | `Alone`, `[]Calm` | a stage whose pass died was started and never recorded as ended, so it is not counted; racing passes fail the same stage |
| `CompletedAlwaysPassed` | `Alone`, `[]Calm` | a death between `autonomy.stage.completed` and the judgement of the output loses the verdict |
| `StepsAlwaysWithinCap` | `Fits`, finitely many workers | events beyond the window are not counted |

The last one is for any number of racing and dying passes: `BudgetInv` charges each worker past the
step count one step, and the number of workers bounds the overshoot. The first ones follow from
`CycleInv`, `AttemptInv`, `RetryInv`, `RipeInv` and `PassedInv`: each says that the cycle, the attempts,
the retries or the verdicts that a worker holds are those of the log at this moment. `StepAdds`, the list of
the kinds of event each action may append, is what carries every one of these counts over a step.

### The fan-out

`FanoutProofs` has `ParentAlwaysWaits`, `NeverOrphans`, `ParentAlwaysDelegates` and
`AnalysisAlwaysFirst`, for any templates, limits and deaths, under `Alone`. `FamilyInv` says what
the parent holds of its children while it asks them one by one (`ParentInv`: the statuses found are
still those of the rows, since a child that has ended stays so and nobody else runs a pass), that children are recorded or in the hands of
the worker that spawns them (`SpawnInv`), and that recorded children differ in type, from the
templates' doing so, which is what makes *the first analysis that advised* the only one.
A second scan can run the parent's execute, or spawn again, while the first creates the children.

### The queue

`RunQueueProofs` has `ExecutionsBounded` (`Exclusive /\ Spec => []ExecutionsWithinAttempts`),
`QueueTypeCorrect`, `OnlyLostJobsAreLeft` and `QueueKeepsContract` (`Exclusive /\ Spec => KeepsContract`),
where `Exclusive` is *every installation is Postgres, or has at most one scanner*. `QueueInv` says
that no two scanners work on one job (`Apart`), that a scanner at work has its row running
(`ScannerInv`), and how far executions may run ahead of the attempts charged (`JobInv`). With two
scanners on SQLite the contract does not hold: both may select the same job, and the second
executes it too. `ContractStep` maps each step to a step of `JobContract` or a stutter. That only lost
jobs stay running needs one more fact, `Held`: the scanner of a running job is still at work on it.

### The runs

`AgentRunsProofs` has `RunsTypeCorrect`, `CompletedRunsHaveOutput`, `NoSlotLeaks` and
`OnlyFinishedRunsAreReplayed`, all from `RunsInv`: the four properties together with
`CallerInv`, which ties the row a caller created to its request, and says that a
caller past completion has a row that is no longer active unless an operator resumed a run of its
task. Operators write any row at any time, so the row's status itself cannot be
part of it.

`TaskLimitOvershoot` and `KeyExecutionsBounded` count. `SlackInv` counts, besides the
active rows, the callers that passed the check and have not created their row (`Past`): together
they stay below the limit, plus the callers, plus the resumes. `KeyInv` counts with the answers kept for a key
the callers still pursuing it; once an answer is kept no caller begins to.

`WorkspaceLimitOvershoot` is harder, because a caller counts a workspace one task at a time while rows come
and go. What a caller will find is at least what it has counted and what is still active among the
tasks it has not seen: its foreseen count, which falls when a run ends under its eyes. No single bound
on the callers past the check is inductive. `WorkspaceInv` takes all of them at once: for every `m` of at
least the limit less one, the active runs together with the callers whose foreseen count is within `m`
are at most the callers, the resumes and `m`. A run that ends turns the statement for `m + 1` into the one for
`m`, and at `m` = limit - 1 it is the property.

### The workspace loop

`WorkspaceProofs` has `CompletedRunsAreAccepted`, `ReadinessIsOfItsRow`, `LearningIsAccounted`,
`LoopsKeepTheirTypes` and `FailuresAreCurrent`.
`LoopsInv` says that what the actions of a loop altered is among what it noted, unless another loop
edited the files (`EditStep`): what commands alter joins `spilled` in the same step (`CommandStep`);
and that a loop which verified and goes on to complete is accepted
(`VerifiedAccepted`: the gates on what was noted imply the properties of what was altered).
`MetaInv` says of the row and of every copy in a writer's hands that its readiness is that of its
contract and learning, which is why overlapping writers lose counts but never mix.
That a run has failed for a command which cannot pass *now* needs to know how far each list of commands
has come: every required command up to the one last `tested` has a success on record, or is one of the probes,
which each verification runs again, or `Fails`: it may not run, cannot pass on the files as they are, or is
stale (`Current`, `Shown`). A command that alters files leaves this so, since those whose files it altered
become stale (`CommandShows`); an edit begins the list again, and the verdict is drawn from a finished list.

### The services

`ServicesProofs!SqliteActsAsPostgres` — `SqliteSpec => ActsAsPostgres`. `StoreInv` says that a
call between its statement and its commit holds the lock, and that the draft is what its statement makes of the
committed tables: they cannot change before it commits (`OneWriter`). `SameWrites`, `SameReads`
and `SameAnswers` show the operations of the two modules equal, `StoreStep` maps `Commit` and
`Query` to `Run`, `ReadClock` to `Begin`, `Refuse` and `Fail` to `Raise`, the rest to a stutter.

`AlwaysOneAnswer` — a caller gets the answer of one attempt at one provider. `CallInv` says that what
the thread has received are the first parts of its attempt, in order (`PartsInv`), and counts the whole
answers against the timers that expired (`AnswersInv`).

`SwitchesAlwaysWithinBudget` — the moves of a task keep to its budget and one per crash. `SwitchInv`
counts with the switches on record the one owed between a run and its record (`Owed`), and says that a
stage allowed to move has `Room` for it. It needs that the budget a stage reads is the task's
(`SameBudget`): every event of preferences repeats it, since updates merge into what they read and no
client may set it.

`ChoicesAlwaysWithinLimits` — a provider chosen by score meets the limits if one does. The
failures a task can have in view are at most `FailureWindow`, so a provider within its limits scores above
-5,000,000 (`ScoreRange`), which is the most that one outside them gets; and a highest score exists
(`BestMeetsLimits`). The assumption `FailureWindow <= 100` is needed: the constant is 30 in the code. Both theorems
about routing take a setting with `local_echo` configured, as the registry always has it.

`CriticalAlwaysKept`, `ReferencesAlwaysGiveBack` and `BudgetAlwaysKept` are one invariant, `ContextInv`, for any number of
assemblers, events, batons and restarts, and any natural budget. It says of a pass over the sections that the
critical ones seen so far are held word for word (`Holds`) and that their characters are within what the
tokens counted pay for, plus what titles have over (`Counted`); of the store, that a reference
stands for the text of an event (`StandsFor`), that two events have no text in common, and so that writing
it again changes nothing (`StoreGivesBack`); and of a bundle, that it was made by such a pass.
`optimized` and `total` are recursive functions over positions. The library's theorem that such a function
exists takes an operator, so a lemma of its own shows it for each, by `Counting`: a set of numbers that holds 0 and the
successor of each of its members holds them all, since a least one missing has a predecessor.

`Extrema` proves that `Min` and `Max` of the community module's `FiniteSetsExt` are
members and bounds of a non-empty set of positions.

### Only model-checked

Liveness (`Settles`, `FamilySettles`, `EveryJobEnds`, `LoopEnds`) is out of the prover's reach, and so is
`ENABLED`. Every safety property that a passing run checks is the subject of a theorem; those of the engine and the
fan-out under the hypotheses above, which the runs share: `AutonomySingle` and `Fanout` have one worker.
`AutonomyRace` checks with two what holds for any number.


## 5. What is not modelled

Not at all:

- *Failure policy and stage executor.* The policy's strategy words the prompt and picks a role; the
  executor dispatches. `Autonomy` lets a stage return or raise, whichever way it is executed.
- *Metrics, benchmarks, observability, analyst digest.* Numbers and texts for people, from rows
  that are read once.
- *Security middleware.* A fixed-window counter under one lock and tests of headers, in front of the
  routes; no modelled state depends on it.
- *Local auth, settings, Codex login.* Files of keys and tokens, parsing, and a login flow that is off by
  default. The proofs assume of settings what `config.py` enforces.
- *Contracts, CLI, TUI and web, migrations, scripts, deployment.* Data classes, clients of the
  API that keep no state of the system, schema and packaging.

In part:

- *Engine:* SDLC checklists, feedback and snapshots are events and rows that no gate reads.
- *Fan-out:* two racing scans over a family, and a scan limit that binds, which would take a family
  too large for TLC; what ranks and words a recommendation.
- *Runs:* the endpoints that create and update a row by hand may set any status, so nothing
  holds of a row after them. Prompts are in `ContextAssembly`, failover in `ProviderCall`;
  `AgentRuns` has one step for both.
- *Stores:* the queries of metrics, and creating the schema.
- *Tasks:* the execution report and the board of children, texts made from rows.
- *Catalogue:* what a scan recognises in a directory is an input.
- *Context:* the plain context, the lookup of memory and prices, which only read.
- *Routing:* views of a policy, the list of switches and the advice of `router/policy.py`, which only read.
- *Background loops:* start-up and shutdown; their polling is the fairness above.
