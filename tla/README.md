# A verification project for AI-Bridge

AI-Bridge is a daemon that takes execution plans from AI front ends over Unix
sockets, decides which of them may run without their owner, runs the approved
ones, and lets two branches of the front end open sub-chats. This directory
holds TLA+ models of its parts, TLC runs that check them on small instances, and
TLAPS proofs of what matters most for all instances. Paths are those of the
repository; `main.rs`, `event_loop.rs` and `root_branch.rs` are in `src/`, the
crates in `crates/`.

## 1. The system

| Component | State it keeps | Operations | Hard behaviour |
|---|---|---|---|
| Gatekeeper policy (`ai-bridge-protocol`, `gatekeeper-core/{criteria,policy}.rs`) | none | `extract_from_command`, `classification`, `evaluate_criteria`, `decide_policy` | the same line is read by policy, safety guard and executor, each on its own |
| Task table (`event_loop.rs`, `timers.rs`) | `PendingPlans`: a `TaskState` per task id | `ingest`, `check_timeouts`, `handle_owner_decision`, `record_execution`, `query` | ids are reused while an earlier plan waits, is held, or runs |
| Daemon event loop (`main.rs`) | mutexes round the table, the branch registry, the safety guard; spawned executions | one task per channel, a 200 ms background loop, `execute_plan` tasks | replies that fail after the table has changed; results recorded later than they were started; restarts |
| Executor (`gatekeeper-daemon/{executor,executor_allowlist}.rs`) | none; it reads the allowlist file for every command | `execute_approved_task` | the file changes between two commands; the guard it asks is not the daemon's |
| Safety guard (`gatekeeper-core/safety_guard.rs`) | `armed`, an audit log | `arm`, `disarm`, `evaluate_for_command`, `request_override` | two guards exist |
| Channels (`ai-bridge-channels`) | three sockets, a token each; one token file | `bind`, `write_token_file`, `accept_stream`, `handle_client_stream` | one connection at a time, no read timeout, a buffered reader that reads ahead, tokens that outlive their run, a stop that waits for a thread in `accept` |
| Sub-chats (`ai-bridge-subchat`, `BranchRegistry`) | a counter per branch | `open_sub_chat` | lost replies, counters that never go down |
| Root branch delivery (`root_branch.rs`) | the two branches' results | `record_and_decide`, `resolve_delivery` | a second result after the timeout; a panic between storing and wiping |
| Self-healing (`ai-bridge-selfheal`) | none | `detect_failure`, `role_swap_on_failure` | none |
| Active-task registry (`gatekeeper-daemon/gatekeeper.rs`, `await_decision`) | tasks that wait for the owner, each with a one-shot sender | `register`, `resolve`, `serve_ui_session` | the owner's answer races the timeout; ids are registered again |
| Dashboard (`ai-bridge-ui`) | the list of pending tasks; roles, the text of the allowlist editor, the files of both | approve and reject, `set_role`, `promote_maestro`, `save_default`, `save_allowlist_config` | decisions sent from a list that is out of date; files written in place, looked for in several places |
| Admin panel (`ai-bridge-ui/src/admin_panel.rs`, `gatekeeper-core/{admin_config,audit}.rs`) | rows on the screen, five files, their backups, the audit log | edit, add, remove, reload, the `save_*` functions, the confirmation dialog | backup, write and audit entry are three steps, each may fail half-way; rows change behind the open dialog |
| Hand-eye portal (`ai-bridge-hand-eye`), desktop I/O, packaging | the allowlist file | calls to the desktop, files | none |

How they interact. A tool connects to the `public_maestro` channel, presents the
channel's token, sends one message and reads one reply. The channel's loop hands
the message to `handle_maestro_message` under the mutex of the table. A plan is
decided by the policy and put into the table: delegable plans wait for the
delegation window, critical ones for the owner's `TaskResolved` message. When a
plan may run, the daemon spawns a task that runs its commands through the
executor and then takes the mutex again to record the outcome. The two private
channels lead to the branches of the registry in the same way. The dashboard
connects to `public_maestro` and keeps its connection. Its admin panel writes
files under `~/.config/ai-bridge`; no program of the repository reads them back but
the panel (the executor reads `config/executor_allowlist.toml` below its
working directory), so the panel is a system of its own: screen, disk and log. The
same holds of the roles and the allowlist that the dashboard edits: it writes them
below `crates/`, where the daemon does not look.

What makes each part correct:

- policy: a plan is delegable only if every command says so and no pattern
  speaks against it, and what it delegates the executor's guard does not block;
- table: no plan runs more often than it was submitted; a critical plan runs only
  in answer to the approval of that very plan; a delegable one only after its
  window, and then it does; the status, the result, the plan and the decision
  of a record belong together;
- executor: the outcome tells whether every command succeeded; no locked command
  runs; every execution returns;
- channel: every connection is served once or closed; only a process of this user
  with the token of this run is heard; replies, actions and requests stay in
  step; one client does not hold the others up; a stop ends;
- sub-chats: indices do not repeat, the books balance, the limit holds;
- registry and dashboard: the waiting agent gets exactly one answer, from the
  owner if one was given in time, about the command the owner saw;
- delivery: each result is delivered once, with a result of the same run, and none is
  lost without a reason;
- roles: one Maestro, one role per application, and the next start shows what was
  saved; the allowlist that was saved is the one the dashboard offers roles by;
- admin panel: what is on the disk is valid however a save breaks off, nothing is
  lost that was saved in full, the log tells of every change, a change that lowers
  security was confirmed, and the screen does not deceive about what is saved.

PROJECT.json lists under `hazards` the places where these can go wrong, with the
properties that watch them.

## 2. Modules

| Module | Models | Used by |
|---|---|---|
| `PlanPolicy` | classification of plans, outcomes of executions (no state) | `PendingPlans`, `Executor` |
| `GatekeeperContract` | what the Gatekeeper promises, without table, statuses or clocks | refined by `PendingPlans` |
| `PendingPlans` | the task table, its handlers, the background loop, executions in flight, restarts | |
| `Executor` | executions command by command, beside the allowlist file and the locks | |
| `ExecutionContract` | an execution as the table sees it: one step, with an outcome its plan allows | refined by `Executor` |
| `Channel` | one socket channel, its clients, tokens, restarts | |
| `ServiceContract` | what a channel promises its clients: one queue, served in order | refined by `Channel` |
| `SubChat` | the branch registry behind its channels | `RootBranch` |
| `RootBranch` | the root's table of results behind the branches: timeout, panic, restart | extends `SubChat` |
| `Dashboard` | roles and allowlist on the screen and on the disk, with writes that fail | |
| `RolesContract` | what the owner is promised about roles, without entries, lists and files | refined by `Dashboard` |
| `ActiveTasks` | the registry of tasks that wait for the owner, the waiting agents, UI sessions, the dashboard's list | |
| `ValveContract` | what an agent is promised that submits a task to the owner | refined by `ActiveTasks` |
| `AdminConfig` | the sections of the configuration, their validation, the check for lowering changes (no state) | `AdminPanel` |
| `AdminPanel` | the admin panel: rows, dialog, files, backups, audit log, and failures of every write | |
| `MC*` | instances for TLC | |
| `PendingPlans_proofs`, `PendingPlansContract_proofs`, `Executor_proofs`, `Channel_proofs`, `RootBranch_proofs`, `ActiveTasks_proofs`, `Dashboard_proofs`, `AdminPanel_proofs` | theorems | |

### PlanPolicy

A command is a record: the symbol in its `[[AB:...]]` tag (`NoTag` if there is
none that is recognised), the criteria whose patterns match the rest of the
line, and whether `shlex` splits it into tokens. These are what the code can
tell apart; the patterns are data. `execute_plan(plan)` is the set of outcomes
an execution can return: one result per command, any for a command that reaches
the allowlist, `FALSE` for one that does not.

### PendingPlans

`tasks[t]` is the `TaskState` of an id, `Absent` when the table has none.
`inflight[t][p]` counts the executions of plan `p` spawned under `t` that have
not recorded their outcome. `submits` and `starts` are history: the properties
read them, no handler does. A handler runs under the mutex of the table from
its first read to its last write, the write of its reply included, so it is one
action; whether the reply got through is its parameter `acked`. Executions are
two steps, the spawn inside a handler and `RecordExecution` at any later time.

| Action | Code |
|---|---|
| `SubmitDelegable`, `SubmitCritical` | `handle_maestro_message` with an execution plan in any of its three encodings, `ingest` |
| `OwnerApproves`, `OwnerRejects` | `handle_maestro_message` with a `TaskResolved`, `handle_owner_decision` |
| `CheckTimeouts` | a round of the background loop, `check_timeouts` |
| `RecordExecution` | the end of a spawned `execute_plan`, `record_execution` |
| `Tick` | time; a record keeps its age since `created_at`, which stops counting at the window's length |
| `Restart` | a stop of the daemon, clean or not, and its next start: the table and the result tasks are gone |

Queries and messages that change nothing are stutters.

### Executor

`results[j]` are the results of execution `j`'s commands so far, `running` the
executions whose current command has a process. `Block`, `FailToLoad`, `Refuse`
and `SpawnCommand` are the four ways through `execute_approved_task` up to the
spawn, `Exit` the end of the process (or the failure to start it), `Return` the
end of `execute_plan`. `BeginEdit` and `EndEdit` are someone's edit of
`config/executor_allowlist.toml` in place, which is not code of the repository:
between the two the file does not load. `SetLock` is the `safety_arm` and
`safety_disarm` messages; that no execution reads the lock they set is the code's doing, and a
mutant that reads it breaks `ExecutionSpec`.

`ExecutionContract` has neither commands nor files: an execution starts and ends
processes, one at a time, if its plan has a command the guard lets through, and returns
once, with an outcome `execute_plan` allows. That return is the step
`RecordExecution` of `PendingPlans` makes of an execution.

### Channel

`stage` and `serving` say where the channel's loop is, `conn[c]` how much of its
request client `c` has sent and whether it is still there, `swallowed` how many
pieces of the request the handshake's `BufReader` took along. A request has
three pieces, the handshake line and two parts of the JSON text, because two
parts are what it takes to receive the text whole, in part or not at all. A
token is the number of the run that generated it. `Tool` clients do as
`channel_test_client` and `connect` in `lib.rs` do; the dashboard (`Ui`) sends
event lines and no token (`ai-bridge-ui/src/main.rs:35-70`).

How a tool gets the token of a private channel the code leaves open (only
`public_maestro` has a token file); the model lets any tool read the token of its
channel, which is right for `public_maestro` and generous to the others.

| Action | Code |
|---|---|
| `ReadTokenFile`, `Connect`, `Send`, `HalfClose`, `Vanish` | the clients |
| `write_token_file`, `accept_stream` | the start of a channel; `accept` and the check of the peer's uid |
| `HandshakeAccepted`, `HandshakeRefused`, `HandleRequest`, `RefuseRequest` | `handle_client_stream`, one action per way out of it |
| `Stop` | a signal, `main.rs:237-262`: the loop's task is aborted, socket and token file are removed |
| `Restart` | the end of the process, clean or killed, and its next start |

After `Stop` nobody connects any more, and the thread in `accept` or behind it, which
an abort does not reach, serves at most one more connection and ends (`Onward`).
The dropped runtime waits for it; `stage = "Ended"` is the thread's end.

`ServiceContract` forgets handshake, pieces and stages. Its `queue` is the client in
service followed by the backlog; `connected` are the clients that think they are
connected, so that the mapping alone says that nobody waits for a daemon that has
forgotten him. `Act` is `HandleRequest`, `Refuse` every other way out of
`handle_client_stream`, `Crash` a `Restart`.

### SubChat

`asks[b]` are the requests that wait at branch `b`'s channel, `open_sub_chat`
and `refuse_sub_chat` the two ends of `handle_branch_message`, `Deliver` the
reply or its loss.

### RootBranch

`branch_results[b]` is `branch_a_result` or `branch_b_result`, named by the place of
the reply in `SubChat`'s `replies[b]`; `late` is `elapsed >= timeout`. History:
`taken`, the replies handed over; `deliveries`, what went to the Maestro; `gone`, the
results that never will. `record_and_decide` has three outcomes. `FullDelivery` is
the second result, before or after the timeout; `PartialDelivery` the first after
it. `PanicInTime` is the first result before the timeout: `resolve_delivery` expects
a second one and panics, after `mark_finished` has stored the first; the state
survives (a caller that catches the panic) or not. `TimeoutPasses` is time.
`RootRestart` is `SubChat`'s `Restart` with the root's memory.

No code calls `record_and_decide`. The model takes the caller that `README.md:65`
names: the root executable, which hands over the branches' replies, each once.

### Dashboard

`role_assignments` and `allowlist_input` are the screen's, `rolesFile` and
`allowlistFile` the files below `crates/`, `shipped` whether the repository's files
are in the working directory. `Init` is a first start with or without them.

| Action | Code |
|---|---|
| `set_role_for_app` | a click on a role: `promote_maestro` or `set_role`, then `save_default` |
| `EditAllowlist`, `ReloadAllowlist` | the text field and its "Reload" button |
| `save_allowlist_config` | "Save" |
| `Restart` | `DashboardApp::new` |

A write may fail before it begins or leave a part of what it should have written: a
list's beginning, or a text that is no list (`TornRoles`, `TornText`). A dashboard
killed in a write leaves the same. `shipped` does not change, so a start is one in the
same working directory. The code's `retain` and `find` go by all or the first of an
application's entries; the model's `Without` and `promote_maestro` by the one there is, as
`OneMaestro` says. That the shipped `roles.toml` has one Maestro and one entry per
application is assumed (`RolesAssumption`): the repository's has, no code checks it.

`RolesContract` knows one role per application on the screen (`role_options_for_app`,
which shows the first entry) and one after the next start (the same, of what
`load_default` would find). A click changes the role of one application, and the
former Maestro's; what is saved with it is all of the screen, nothing, or a part.

### ActiveTasks

`pending[i]` is the registry's entry under id `i`, a set of at most one task;
`sent[t]` what the task's one-shot channel holds, `answer[t]` what its
`await_decision` has returned. `link`, `wire`, `shown` and `outbox` are the
dashboard's: its side of the connection, lines not yet read, its list, decisions
not yet written. `uplink` holds decisions written and not yet read by the daemon.
`judged[t]` is history: the tasks the owner had before his eyes when he gave the
decisions that reached `t`.

| Action | Code |
|---|---|
| `register`, `resolve` | the functions of `ActiveTasks` of those names |
| `Receive`, `AutoApprove` | the ends of `await_decision`: an answer or a dropped sender; silence |
| `Accept`, `handle_inbound`, `EndSession` | the three parts of `serve_ui_session` |
| `Connect`, `SendDecision`, `NoticeBroken` | the dashboard's stream thread (`ai-bridge-ui/src/main.rs:36-70`) |
| `ReadPending`, `Decide` | a `task_pending` event, a click on VALVE OPEN or CLOSE (`app.rs`) |
| `Restart`, `Exit` | a restart of the daemon, of the dashboard |

A session borrows the registry mutably until it ends, so `register` waits for it.
No program of the repository serves such sessions yet: the daemon of `main.rs`
has the task table instead. The surroundings of the registry are therefore those
of `gatekeeper-daemon/tests/ipc_e2e_test.rs`, which serves session after session.

`ValveContract` is what is left for the agent: one word on its task, which stands
(`word` is `sent`), an answer that follows the word, silence for tasks that are not
critical. Registry, sessions, lists and queues are stutters.

### AdminConfig and AdminPanel

A row keeps what validation and the check for lowering changes look at: whether a
path is the wildcard, a set of patterns compiles, permissions are octal, a
window is positive. `rows`, `dirty` and `dialog` are the panel's; `disk`, `backups`
and `log` are what it leaves behind. The panel runs on the drawing thread, so the
handler of a click is one action; between its three writes it can only fail.

| Action | Code |
|---|---|
| `EditRow`, `AddRow`, `RemoveRow` | the widgets and buttons of the `render_*` functions |
| `Reload` | "Reload from disk": `load_<section>` by way of `find_file` |
| `AskToConfirm`, `Save` | the save buttons, whether or not `is_security_lowering_change` opens the dialog |
| `Confirm`, `Cancel` | the dialog's buttons |
| `Restart` | `AdminPanel::new` of the dashboard's next start |
| `Tick` | the clock `backup_config` names its files after |

A save ends in one of five ways: validation refuses it; `BackupFails`; `WriteFails`
(the file was not opened, or holds a part of the new contents that reads as some of
its rows or not at all); `Written`, with an entry in the log; or `Written` with an
append that failed, which `record_audit` ignores. A panel killed in the middle of a
save leaves what such a failure leaves, and `Restart` follows. `open_line` says
how the log ends: an append that broke off leaves a line without its newline, and
the next entry is written on to it.

The model takes the log as one month's file in ASCII. A backup made in the second
of an earlier one overwrites it, as `fs::copy` does. History:
`changes` and `good`, what was saved in full, and `hasty`, files whose failed save
was repeated within the second of its backup.

## 3. Runs

| Run | Question | Bounds | Result |
|---|---|---|---|
| `pending_table` | is the table right in every order of submissions, approvals, timeouts, results, lost replies and restarts, does it keep the contract, and does a delegable plan run and get its result? | 2 ids, 3 plans; 3 submissions of the id whose clients may vanish, 2 of the other; window 2 | holds, 108 000 states |
| `pending_lost_ack` | does every accepted plan settle? | 1 id, a critical plan | violated |
| `pending_held` | does a held plan stay held until its owner decides? | 1 id, a plan of each kind | violated |
| `executor_commands` | are executions what the table takes them for while file and lock change? | 2 executions of 3 commands, 2 programs | holds, no deadlock |
| `channel_serving` | does the channel keep `ServiceContract`, are only the right ones heard, and does a stop end? | a tool, one of another user, the dashboard, 3 connections in all, 2 runs, a stop in each | holds, 266 000 states |
| `channel_read_ahead` | is a complete request always acted on? | 1 tool, 2 connections | violated |
| `branch_results` | do indices rise and the books balance, and are results delivered in order, once, or accounted for? | 5 asks in all, 2 runs | holds, 266 000 states |
| `active_tasks` | does every waiting agent get one right answer, whatever breaks, as `ValveContract` says? | 3 tasks, 2 of them under one id and 2 critical, a restart of either side | holds, 45 000 states |
| `active_tasks_seen` | does the owner decide on the command he saw? | 2 critical tasks under one id, a restart of the daemon | violated |
| `admin_panel` | are files, backups, log and screen right whatever is edited and whichever write fails? | 2 rows per section, 2 edits, 2 saves that succeed, 2 failures, 2 seconds | holds, 385 000 states, no deadlock |
| `admin_panel_asked` | does a save lower only what the dialog asked about? | as `admin_panel` | violated |
| `dashboard_roles` | are there one Maestro and the roles and the list that were saved, whichever write fails, and is `RolesContract` kept? | 3 applications, 2 lists the owner may type, one write that fails | holds, 193 000 states, no deadlock |

Why the bounds are enough. The table treats ids independently except in
`CheckTimeouts`, which two ids exercise. One has clients that vanish before their reply
and one has not: a resubmission whose reply is lost drops the plan it would have run, so
the liveness properties speak of the other. Three submissions of an id are what it
takes for a plan to be in flight, a second to be held under the same id and a third
to be submitted over it; the fourth plan kind (`McAllPlans`) adds no new transition.
The window of two ticks distinguishes young, almost due and due. The safety
properties of every module are proved for all values besides. In `Channel`, three
connections put one client into service, one into the backlog and a third behind or
after them; the second run of the daemon makes stale tokens. In `ActiveTasks`, two
tasks under one id are what it takes to mix decisions up and a third beside them
what it takes to hit the wrong one; a restart of each side leaves lists and queues
of before to meet tasks of after. Five asks let four go to one branch, one more than
its limit, and one to the other, whose result the root pairs with one of theirs. In
`Dashboard`, three applications are a Maestro, the one that takes over and a third
whose entry moves; of the lists the owner may type, which are all treated alike, two
are kept: one to save and another to replace it (`TypedLists`); one failed write is followed by any number that succeed, and by
restarts that load what it left. In `AdminPanel`, two edits are one before a dialog
opens and one behind it; two failures are a write that breaks off and its repetition
that breaks off too, or an append that breaks off twice; two changes are an entry
that breaks off and the one it takes along, or two instalments of a change that
lowers security (with two, the bound of two entries per failure binds only where nothing
failed; beyond that it rests on the theorem); two seconds are a backup that survives
the next one and a backup that does not. The exceptions in the properties are tight:
TLC finds a violation without `hasty`, with a factor smaller than 2 in
`AuditAccountsForChanges`, and without the condition on torn files in `Unasked`.

Runs that set `CHECK_DEADLOCK FALSE` are of systems that may stop: clients owe
nothing, and history is bounded (`MaxSubmits`, `MaxConnects`, `MaxRuns`,
`MaxAsks`). `executor_commands`, `admin_panel` and `dashboard_roles` check deadlock.
All the bounds of `AdminPanel` (`MaxRows`, `MaxEdits`, `MaxChanges`, `MaxFaults`,
`MaxSecond`) leave `Reload` and `Restart` possible, so its check for deadlock
says little.

### What the violated runs show

- `pending_lost_ack`: `handle_owner_decision` sets an approved task to `Pending`,
  which "will be picked up by check_timeouts or executed immediately"
  (`event_loop.rs:212`). If the owner's client is gone when the reply is written,
  the plan is dropped, and `check_timeouts` does not look at critical tasks. The
  task stays `Pending`.
- `pending_held`: a delegable plan submitted under the id of a held task keeps the
  held plan but sets its status to `Pending`; a late result sets it to
  `Executed`. Against `event_loop.rs:90`, the plan is then no longer held, does
  not run, and can no longer be approved. (It never runs without the owner:
  `CriticalRunsOnlyOnApproval` holds.)
- `channel_read_ahead`: `read_handshake_token` (`lib.rs:346-361`) buffers what has
  arrived behind the handshake line and throws it away. A client that writes
  token and request at once may lose the request, or part of it.
- `admin_panel_asked`: "Removing a socket is flagged as a security-lowering change requiring
  confirmation" (`ADMIN_UI.md:89`, and `:123-127`). The check counts sockets
  (`admin_config.rs:242`), so a socket that is removed while another is added is saved without the
  dialog. Where the dialog does open, it asks about the rows of that moment and saves those of the
  moment it closes: with two sockets to start with, `LoweringWasAskedAbout` fails by
  a second removal behind the dialog as well. What does hold is `DelegatingIsConfirmed`.
- `active_tasks_seen`: a task is shown "so the operator can review the exact
  command before opening (approve) or closing (reject) the valve"
  (`gatekeeper.rs:21-22`). Decisions name only the task id, the dashboard ignores a
  `task_pending` line whose id it lists already (`app.rs:813`), and list and queued
  decisions outlive the connection. Once an id is registered anew, the decision on
  the command that is shown reaches the one that is not. Ids that are not
  used again are safe: `UniqueIdIsJudgedAsSeen` is proved.

### Seen while modelling, and not the subject of a run

Daemon and channels:

- `README.md:14`, `MAPPING.md:10` and `ADMIN_UI.md:85` say that the peer's PID is compared with a
  registered one; the code compares the uid (`lib.rs:255-288`), as `Channel` does.
- The dashboard connects to `public_maestro` and never sends a handshake
  (`ai-bridge-ui/src/main.rs:35-70`), so the daemon hears nothing of its decisions,
  and it holds the channel until its first line is refused.
- After SIGTERM the process ends only when its accept threads do. A channel whose
  thread is in `accept` has no socket any more, so nobody can wake it and only a
  kill ends the daemon. A plan accepted in that phase is acknowledged and then
  lost with the process.
- Both branches are created with the one task id of the program and count for
  themselves, so a task can open six sub-chats where `branch.rs:22` speaks of three.
- The executor reads the allowlist for every command, so an edit takes effect at once.

Root and self-healing:

- `README.md:67-70` says that the root waits for the second result; the first result
  before the timeout panics instead. A second result after a panic that was survived
  is delivered in full, however late. `dropped` of a partial delivery is never `Some`.
- `role_swap_on_failure` leaves a leader that is offline in the lead when it is
  `BranchA` or `BranchB`.

Dashboard:

- `CARGO_MANIFEST_DIR/..` is `crates/`, so roles and allowlist are saved below
  `crates/config`. The daemon reads `config/allowlist.toml` of its working directory,
  although `PROGRESS.md:361` and `:382` call the two unified.
- Whatever is TOML is saved as an allowlist; if it is none, another file decides.
- A roles file that cannot be read counts as empty, and the next click overwrites it.
- A role that was not saved vanishes with the next start, or comes to the disk
  with the next click. A Maestro whose application leaves the allowlist keeps the role and has
  no row to take it away.
- The safety mode on the screen changes only on an event the daemon never sends.

Admin panel:

- `ADMIN_UI.md:123-127` lists the changes which "require explicit confirmation", a
  wildcard in the allowlist among them. The allowlist's save button calls
  `save_allowlist` without asking (`admin_panel.rs:725`), which does not validate
  either. (The run `admin_panel_asked` looks at the sockets and symbols.)
- The check for lowering compares with the file of the moment. A save that breaks off
  leaves a beginning of the policy or of the sockets in it; what is missing there the
  next save adds unasked, with any classification. `DelegatingIsConfirmed` says that
  there is no other way to delegate a critical symbol while nobody is asked.
- A changed classification does not mark the policy as changed (`admin_panel.rs:777-808`), and
  is saved only with a change that does. A failed save repeated within its second
  overwrites the only backup of the last good contents (`hasty`).
- What the panel saves reaches no daemon, and it records `security_lowering: false`
  for every change (`admin_panel.rs:469`).

### Fairness

`PendingPlans`: weak fairness of `Tick` (time passes), `CheckTimeouts` (the
background loop has no exit) and each `RecordExecution` (the processes an execution
starts end; one that does not end is outside this program, which has no timeout for
it). Clients and the owner owe nothing. `Executor`: weak fairness of each
execution's next step, for the same reason; none of `EndEdit`, so the edit may stay
unfinished. `Channel`: weak fairness of the loop's steps and of a connected tool's
sending; the dashboard sends only when its owner clicks and owes nothing, which is
why `OnlySilenceBlocks` excepts the one wait it can cause; `Stop` owes nothing, and
a stopped daemon is not owed a restart. `ActiveTasks`: weak fairness of the daemon's
session, the agents' waits, the dashboard's stream thread, and of the owner's
decision on each task he is shown; without the last a critical task waits for ever,
as it should. `RootBranch` (with `SubChat`), `Dashboard` and `AdminPanel` have
safety properties only and assume none.

Each property of a passing run has a mutant in PROJECT.json: a plausible bug in a
mapped definition under which TLC finds it violated.

## 4. Proofs

All theorems are checked by TLAPS for every value of the constants.

- `PendingPlans_proofs`, of `PlanPolicy`: `DelegableIsNeverBlocked` (policy and safety guard agree,
  although each parses the line for itself) and `CriticalSymbolNeverSucceeds`
  (a plan with a critical or untagged command cannot succeed even when the owner
  approved it, since the executor asks a fresh, armed guard). `SuccessNeedsEveryCommand`
  says exactly which plans can succeed, although `exit_code` is overwritten by every
  command, and `JoinedPlansAreBothDecided` that a plan is decided line by line.
- `PendingPlans_proofs`, of the table: `Invariance`, that `IInv` is invariant, and from it
  `TypeCorrectness`, `AtMostOneRunPerSubmission`, `ResultsAgree`,
  `NoResultIsLost`. None of the safety invariants is inductive alone:
  - "at most one run per submission" needs to know how many runs a record may still
    start. `Owed(t)` is 1 while the task is held or is a waiting delegable one,
    and `RunCredit` says that started and owed runs together do not exceed the
    submissions. Approval and timeout turn an owed run into a started one.
  - that `CheckTimeouts` never runs a critical plan needs `DecisionMatchesPlan`: the
    decision in a record is that of the plan in the same record, also after
    ingest has kept an old entry and changed only its status.
  - `HeldIsCritical` says that a held record has a critical plan and no result
    yet, which `ResultMatchesStatus` needs when the owner's decision moves it.
- `PendingPlansContract_proofs`: `CriticalNeedsOwner` and `ImplementsContract`. The
  refinement maps a held record to a hold on its plan, a record whose age has
  reached the window to a ripe id, and executions in flight to themselves; each
  action is matched with an action of the contract or a stutter.
  `ImplementsContract` assumes `Timeout > 0`: with a window of 0, which
  `AI_BRIDGE_GATEKEEPER_TIMEOUT_SECS` allows, a plan starts in the step that
  creates its record, before the id is ripe.
- `Executor_proofs`: `ImplementsContract`, which justifies the one-step
  executions of `PendingPlans`, on `OutcomesArePossible` and on the lemma-sized invariant that
  what runs got past the lock (`RunningReachSpawn`); and
  `ExecutionsAreShort`, the safety half of `EveryExecutionReturns`: a variant, twice the
  commands to come and one for the return, less one while a process runs, falls with
  every step of an execution and rises with none.
- `Channel_proofs`: `Invariance` and from it `NoConnectionIsLost`,
  `OnlyAuthenticatedAreHeard`, `ActionsMatchRequests`. The last is not inductive:
  when a client completes its request or the handler acts, there must be room for
  one more. `RoomForRequest` says that a connection whose request is not complete
  has made none, `RoomForAction` that one whose request is complete has not been
  acted on. `ServesOwnUser` carries the check of the uid, made once in `accept_stream`,
  to the step that reads the request. `ImplementsContract` rests on them: a client
  that connects goes to the end of the contract's queue, `accept_stream` does not change
  it (the backlog's head becomes the one in service), and every way out of the
  handler takes its head away, whose request is whole if it was acted on.
- `RootBranch_proofs`: `Invariance` and from it `IndicesNeverRepeat`, `CallsAccounted`
  (both of `SubChat`), `NoResultTwice` and `NoResultForgotten`. `RepliesAreCounted`
  bounds the index of every reply of this run by the counter, which makes the next
  index new. `OneIsStored` and `OfThisRun` say that the root never keeps two results,
  and that what it keeps or waits for is of this run of the daemon; without
  them a full delivery could join two runs. `StoredIsNewest` says that what is stored is
  newer than what was delivered, which the order in `DeliveredOnce` needs.
  `ImplementsSubChat` takes the theorems on the branches over to the system with the root.
- `ActiveTasks_proofs`: `Invariance` and from it `NoAgentIsForgotten`,
  `OwnerOrWindow`, `UniqueIdsAreSafe`. The strengthening consists of
  `QueuesNameTheirTasks` (a decision keeps the id of its task from the list to the
  registry), which the last theorem needs when a decision is taken from the
  connection, and `ApprovalIsJudged` (an approval in a channel is the owner's),
  which `OwnerOrWindow` needs when the agent receives it. `ImplementsContract` needs the
  type of the registry, and that among the agents that wait exactly those without a
  word are listed (`WaitingIsListed`, `ListedIsUndecided`): `register` and
  `resolve` then give a word to at most one agent, and none whose word was given.
- `Dashboard_proofs`: `Invariance` and from it `SingleMaestro`, `RolesSurviveRestart`
  and `RowsAreOfSavedAllowlist` (of the dashboard; the daemon reads another file). `FileHasOne` says that a roles file which can be read has
  one Maestro even while screen and file differ, for a restart loads it.
  `ImplementsContract` reads lists as functions: that taking an entry out, putting
  it at the end and demoting the former Maestro change the role of whom they should
  (`WithoutGives`, `AppendGives`), needs that an application has one entry, for the
  row shows the first; and a list that breaks off gives a part of its roles.
- `AdminPanel_proofs`: `Invariance` and from it `TypeCorrectness`, `FilesAreValid`
  and `BackupsSuffice`. `LastGoodIsKept` is not
  inductive: that the backup of a save which then fails keeps the last good contents
  needs `WholeIsGood`, a file that is whole has the contents it was last given in
  full. With it the lemma `BackupKeeps` says that a backup never gives them up, and
  `Beginning` that a torn file holds a prefix of valid rows, which is valid.
  `LogAccountsForChanges` needs to know what the end of the log will still cost:
  `Tells` says that entries and changes go together in order, and `AuditInv` that the
  changes not told of, with the one (`Pending`) an unfinished last line will take along, are at
  most two per failure. `CleanIsSaved` is inductive with `TypeOK`; the work is in the saves
  and reloads, where screen and disk meet (`SaveKeepsClean`). `DelegatingNeedsConfirmation`
  speaks of series of saves of which each is compared with the one before only. It rests
  on a lemma on `is_security_lowering_change`, `LoweringTakesOneStep`: a change that
  lowers security does so in one of two steps if the first keeps the policy's
  symbols in their places. That the panel keeps them is `RowsContinueFile`: the
  symbols of the file in effect, whole, torn or shipped, begin the list on the
  screen. `LastIsGood` says that a whole file is what the last change made it.

Assumptions on constants are the named `ASSUME`s of the modules: plans are
sequences of commands, the window is a natural number, and so on. TLC evaluates
them in the runs.

All invariants of the passing runs are proved, and `CriticalRunsOnlyOnApproval` and
the five properties that a contract is kept (`GatekeeperSpec`, `ExecutionSpec`,
`ServiceSpec`, `ValveSpec`, `RolesSpec`) besides. Only model-checked: liveness (`WaitingDelegableSettles`,
`AutoApprovedSettles`, `EveryExecutionReturns`, `OnlySilenceBlocks`,
`StopEndsAfterService`, `EveryTaskIsAnswered`), since liveness under fairness and ENABLED are out
of the prover's reach. No module declares a RECURSIVE operator, and no proof needs
an induction over data.

## 5. Plan

1. `PlanPolicy`, `GatekeeperContract`, `PendingPlans` with proofs; `Executor` with
   proofs; `Channel`; `SubChat`. Done.
2. `ActiveTasks` with proofs: the registry, waiting agents with the delegation
   timeout, UI sessions and the dashboard's list of pending tasks, in one module,
   since the hazards lie between them. Done.
3. `AdminConfig` and `AdminPanel` with proofs: rows, validation, dialog, backup,
   write and audit entry, with failures between the steps. Done.
4. `RootBranch` on top of `SubChat`, and `Dashboard`, with proofs. Done.
5. `Channel` with a stopping phase. Done.
6. Proofs: safety of `Channel`, of `SubChat` (books and indices), and of the admin
   panel's log and screen. Done.
7. Contracts of `Executor`, `Channel`, `ActiveTasks` and `Dashboard`, each proved to be
   implemented; deliveries in order; lowering in instalments. Done.
8. Left: `Channel` with `PendingPlans` behind it. The two meet in one handler
   call, whose lost reply is `acked` in `PendingPlans` and a vanished client in
   `Channel`; what the composition would add is a client that repeats a request whose
   reply it lost.

## 6. Not modelled

The regular expressions of the criteria and the TOML formats (data); audit logs
of the safety guard; the dashboard's drawing, its forms for prompts, manual plans and
direct messages (each queues one event, which goes the way of a decision) and its
display of the safety mode; packaging. `src/safety_guard.rs` is an unused copy of the
crate's guard.

Self-healing is four functions of a message, a duration and a role, without state and
without a caller. `await_branch_completion` of `root_branch.rs` keeps no state and has no caller
either. Desktop I/O reads what other programs keep on disk. Of the hand-eye
crate the allowlist file is in `Dashboard`; the portal calls have no state and no
caller, and the feature `real-portal` does not compile (`Self` in a free function,
`portal.rs:340`).

Of the admin panel, the monthly change of the audit file and characters of more
than one byte in it are left out.
