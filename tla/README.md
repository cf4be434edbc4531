# A TLA+ model of CLI Agent Orchestrator

This directory is a verification project for the orchestrator core of
`src/src/cli_agent_orchestrator`: a FastAPI server that runs command-line coding
agents in tmux panes, detects from their output what they are doing, types
messages between them, and drives declared workflows over them with a durable
journal. TLA+ modules model the parts whose correctness depends on the order of
things, TLC checks them on small instances, and TLAPS proves the invariants that
matter most for every value of the constants.

Paths below are relative to `src/src/cli_agent_orchestrator` unless they say
otherwise. `PROJECT.json` lists every component, run, mutation, theorem, finding
and hazard, and maps every modelling definition to the lines it stands for.

## 1. Inventory

One process holds almost everything: an asyncio loop (HTTP handlers, the drives
of workflows, daemons, timers), worker threads behind `asyncio.to_thread`, FIFO
reader threads, one watchdog thread, and sqlite. State that outlives the process
is the sqlite database and what runs in tmux.

| Part | State it keeps | Operations | Talks to | What makes it correct |
|---|---|---|---|---|
| Workflow engine, YAML tier (`services/workflow_service.py`) | `run_registry`, `_active_drives`, a `RunRecord` per run | start, drive (steps, retries, reprompt, halt, cancel), status, cancel, resume | journal (awaited writes), agent step, step output store, HTTP | one drive per run; a cancel wins; done steps are not re-run; the journal says what happened; every drive ends |
| Workflow journal (`services/workflow_journal.py`) | run and step rows | insert, update, read | engine, script runner | best effort: every write may be lost without breaking the live run |
| Script runner (`services/script_runner.py`) | a `ScriptRunRecord` with a live process, generation | start, resume, cancel, timeout, sweep | journal, run-step route, terminals | calls of an older generation are refused; a sweep spares what is not its own |
| Step output store (`services/step_output_store.py`) | bounded map of step outputs | put, get, evict | MCP tool, engine | an output that arrived is read before it is evicted |
| Agent step (`services/agent_step.py`) | a terminal per step | create, wait, send, wait, extract, tear down | terminals, status, store | the wait ends with the turn of its own prompt; only failures leave a terminal; every step settles |
| Status monitor (`services/status_monitor.py`) | per terminal: rolling buffer, screen, latch, generations, debounce timer | process chunk, quiescence detection, poll, input sent | event bus, providers, senders | busy is not taken for ready; the end of a turn is seen |
| Inbox delivery (`services/inbox_service.py`, inbox tables of `clients/database.py`) | message rows | post, deliver on event, poll, reconcile | status monitor, terminal service | in order, once, never forgotten |
| Terminal and session services (`services/terminal_service.py`, `services/session_service.py`) | window, row, reader, provider; the environment forwarded to a session | create with rollback, deferred initialisation, restore, delete, send_input | backends, FIFO readers, monitor | all parts of a terminal are there or none; no window without a row; a session inherits nothing of an earlier one |
| FIFO readers and watchdog (`services/fifo_reader.py`) | reader threads, probe state | start, stop, stall probe, re-arm | tmux, event bus | a stalled pipe is re-armed, a live one is left alone |
| Event bus (`services/event_bus.py`) | a bounded queue per subscriber | publish, dispatch, overflow | everybody | a slow subscriber loses events, the rest do not |
| Herdr bridge (`services/herdr_inbox_service.py`) | socket, pane maps, workspace map | register, connect, closing events, reconcile, startup cleanup | herdr, inbox, terminal rows | a live terminal keeps its row; a mapped pane is heard |
| Flows (`services/flow_service.py`, `flow_daemon` of `api/main.py`) | `next_run` per flow | due, execute, recycle session | terminals, db | a due flow runs once per period |
| Cleanup (`services/cleanup_service.py`) | none of its own | retention of terminals, messages, memories | terminals, memory | nothing alive is removed |
| UI events (`services/ui_event_service.py`, `services/event_log_service.py`, `services/sse_bus.py`, `web/.../eventsClient.ts`) | two rings with numbers, a queue per stream; in a page the last number and the numbers seen | append, fan out, stream, history, backfill | hooks, bus, dashboards | a connected page shows what the log retains |
| Log writer | none | append what the bus hands it | bus | nothing depends on it |
| Memory wiki (`services/memory_service.py`, `services/wiki_healer.py`, `services/wiki_lint.py`) | an article, an index line and a row per key | store, background compile, compact, forget, expiry, lint and heal | an LLM, the file system, other processes | no entry is lost or comes back; the three parts agree; compact finds what was not compiled |
| Graph layer | none | export of the wiki | files | text in, text out |
| Tooling (`services/tooling/`, `api/tooling_router.py`) | a ring of operations with their tasks, a lock per provider, two slots, one cache | execute, cancel, list, verify; probe and publish pages; scan | provider CLIs, threads, the event loop | one command at a time changes a CLI; a verdict is true; the cache does not outlive a change; every operation ends |
| Providers (`providers/*.py`) | flags of a startup | initialize, detect, extract | panes | keys reach the dialog or shell they are for; ready means the CLI takes input |
| tmux and herdr clients (`clients/tmux.py`, `backends/`) | none; a pane number within a call | texts, Enters, keys, reads, kills, creations | terminal service, panes | what is sent reaches the window it names; a caller hears what happened |
| HTTP, MCP, CLI, web, Electron | none that the core depends on | translate calls | API | outside the model, except the handlers folded into actions |

How they interact, in one path: an agent prints, tmux pipes the output to a FIFO,
a reader publishes chunks, the status monitor detects and publishes a status
event, the inbox consumer reads a pending row and has the terminal service type
it, which tells the monitor that input was sent and clears its buffer. A workflow
step does the same through `run_agent_step` and writes its outcome to the journal.

The hard behaviours: detections run on threads without the lock and are applied
later; timers are cancelled and armed through queued callbacks; four callers run
`deliver_pending` without any mutual exclusion; drives are cancelled, polled and
resumed at every await; a terminal is made and removed part by part by callers that
share nothing but its parts; pane ids are reused and renumbered while a queue still
speaks of the old ones; an article is rewritten by an LLM while others append, heal
and delete it; an operation is cancelled at any await while its command, its verification
and the collectors of the pages go on in processes and threads; a CLI draws its dialogs when it likes while a handler with three
clocks answers them, and leaves the frames of past turns on the screens that are read; the server dies between two writes and rebuilds a run from half
a journal. `PROJECT.json` lists each as a hazard at its line.

## 2. Modules

| Module | Models | Abstract or composed with |
|---|---|---|
| `WorkflowRun` | the YAML engine, its journal and the workflow HTTP routes | implements `RunLifecycle` |
| `RunLifecycle` | what the engine promises of a run's durable row | |
| `ScriptRun` | the script tier: start, resume, drive, cancel, run-step calls, generations | |
| `AgentStep` | one step on an agent, its retries and its reprompt, the step output store | takes of a terminal what `StatusMonitor` promises |
| `ProviderStartup` | `initialize()` of nine providers against the dialogs of their CLIs | what a creation in `AgentStep` and `TerminalLifecycle` waits for |
| `StatusMonitor` | detection, latch, timers and polls of one terminal, and its senders | |
| `InboxDelivery` | the inbox rows, four deliverers, agents and their status | implements `Mailbox` |
| `Mailbox` | what an inbox promises | |
| `FifoWatchdog` | FIFO readers, the liveness watchdog, the output half of the event bus | |
| `TerminalLifecycle` | creation, rollback, deferred initialisation, deletion, restart, retention, sessions, flows | |
| `PaneInput` | every call into a pane of both backends, command by command | what `TerminalLifecycle`, `InboxDelivery` and `AgentStep` take as one step |
| `EventFeed` | both event logs, their streams and the pages that follow them | |
| `TerminalSide` | the terminals and the panes of one server | extends `TerminalLifecycle`, with an instance of `PaneInput` |
| `FeedSide` | `EventFeed` under names that clash with no other component's | instance of `EventFeed` |
| `HerdrInbox` | the herdr socket, its maps, reconciliation, deletions it causes | |
| `MemoryStore` | the memory wiki: store, compile, compact, removal, healing | |
| `ScreenText`, `BulletScreens`, `SectionScreens` | the detectors and extractors of the providers, over classified lines | |
| `TurnReading` | a CLI at work, its stream and its pane, and what those functions and `get_output` make of them | uses the three; what `StatusMonitor` and `AgentStep` take as a choice |
| `ToolingAdapters` | the adapters of the tooling service: capabilities, lists, plans, verdicts | |
| `ToolingOps` | operations with their locks, slots, commands and cancels; the cache and its collectors | extends `ToolingAdapters` |
| `EngineSide` | the engine and the tooling operations in one process | extends `WorkflowRun`, with an instance of `ToolingOps` |
| `EngineSideProofs`, `TerminalSideProofs`, `ScriptRunProofs`, `AgentStepProofs`, `StatusMonitorProofs`, `InboxDeliveryProofs`, `MemoryStoreProofs` | theorems about the module they are named after | extend it, or the module that composes it (`MCAgentStep`, `MCInboxModes`, `MCStatusModes`) |
| `EventPathProofs` | theorems about `FifoWatchdog`, `EventFeed` and `HerdrInbox`: from a pane to the bus, from the logs to a page, from herdr to the rows | extends `FifoWatchdog`, `FeedSide` and `HerdrInbox` |
| `MC...` | instances for TLC | extend one module; `MCStatusModes`, `MCInboxModes`, `MCAgentStep`, `MCEngineModes` and `MCTerminalModes` put several instances side by side under a variable `mode` |

All modules follow one convention: an action is a stretch of code that nobody can
interrupt. On the event loop that is the block from one await to the next, in a
thread the section under a lock or one call outside it, in a process one write.

### WorkflowRun

The engine lives on one loop, so a drive is a sequence of atomic blocks between
awaits. `run[r].pc` names the await a drive is suspended at; an action is the
completion of that await and the block after it, up to the next await. The blocks
(`Boundary`, `SkipRemaining`, `Attempt`, `Collect`, `AfterFailure`, `Settle`,
`EngineError`) are functions of the record, in the order of the code; an action
applies one of them. `DriveJournal` and `DriveEnd` are the journal writes,
`DriveInsert` the insertion of the rows, `DriveAgent` the outcome of an agent
step (output, failure, interruption by the cancel event), `DriveStray` an
exception that nobody maps. `Start`, `StatusRead`, `Cancel`, `CancelJournaled` and
`Resume` are the HTTP handlers, each atomic because none awaits between its guard
and its effect. `Crash` keeps the journal only. One run_id is modelled: runs share
nothing but dictionaries keyed by it. Step outputs and prompts are abstracted to
what they decide (does the output parse, does the template resolve).

### ScriptRun

One run_id of `services/script_runner.py`. `run[d]` is the d-th start or resume:
its `ScriptRunRecord`, the process it spawned with the generation in that process's
environment (`env`), and the await it is suspended at (`pc`: "insert" and "reopen"
are the journal calls before the spawn, "bump" the awaited journaling of a resume's
generation, "run" the wait for the exit, "term" and "tgen" the timeout arm, "final"
`_finalize`). `registry` and `active` are `run_registry` and `_active_drives`, and
`row` the state and generation of the journal row. `Cancel` and the three actions
after it are `cancel_script_run` between its awaits (`CancelJournaled`: the route,
when nothing is registered), `Serve` to `StepFails` the run-step route with the
recorder of `make_step_terminal_recorder`, `Exit` and `Send` the script. `Crash`
keeps the row, the script processes and the terminals, and nothing else.

A call into the journal takes effect together with the continuation of its awaiter,
except for `_finalize`, which reads the state of the record when it writes. Two
short windows are therefore not covered: between the insertion of a start's row and
its mark in `_active_drives`, and between the read of the row by a resume and its
claim. Not modelled: the lint gate, the pipes and their drain, the snapshot file, and
the step rows, which nothing reads back.

### AgentStep

`step[k].pc` is the await at which `run_agent_step` is suspended: the creation of a
terminal, the wait for it to be ready, the send, the completion polls, the
extraction, the teardown. `worked` and `idle` are the locals of the completion
wait, `att` and `reprompted` those of the engine's `_run_step` around it. `Failed`
is what the caller does with a raise: the engine retries with a new terminal and
ends in FAILED, the route answers an error. The engine asks the store for a
structured output after the teardown (`Collected`), reprompts once, and settles
UNVALIDATED otherwise. The store is the bounded, ordered map of
`step_output_store.py`; the workers of other runs write to it too. `status` is what
`get_status` would return, with what `StatusMonitor` establishes: a terminal shows
its old look until the turn is detected, and a ready look then only when the turn is
over. `left` keeps the terminals that failures leave behind.

### ProviderStartup

`initialize()` is the same sequence in all providers: `wait_for_shell`, type the
command, a startup handler that answers dialogs, a wait for a ready status, and for
some a last gate. The handlers are data (`order`, `once`, `last`, `refused`, `exit`,
`gap`, `cap`: which dialogs in which order, which of them once, what ends the loop and
how it is bounded), and the actions interpret them: `HandlerSees`, `Key`,
`HandlerRaises`, `HandlerEnds`, `HandlerSleeps`; `WaitReady`, `WaitAnswers` (copilot's
single loop), `WaitTimesOut`; `SettleSees` and its timeout (claude), `GateSeen`, `Quit`
and the relaunch (antigravity), `FallBack` (kiro's legacy interface). Time is counted
in polls, one capture and one sleep each, and the CLI acts between polls: it shows the
dialogs of a script drawn from `Scripts`, leaves answered text in the scrollback, paints
its chrome, prompts. `slow` records that it has been silent for longer than `First` or
`Pause` polls; `strays` what was typed at something it was not meant for.

Fixed bounds that equal a default are folded into it (copilot's 60 s into `Cap`; the
120 s of opencode, hermes and kimi and the 180 s of antigravity into `Long`). The
environment knows what the comments of the providers know: the order of the dialogs,
that only claude, codex and kimi leave answered text in a capture, that codex prints on
until its trust text has left the buffer, that antigravity's account gate shows within
its watch and its survey is drawn with the footer, that `/exit` is obeyed sooner or
later, and that nobody else types at the pane.

### StatusMonitor

One terminal. A chunk is abstracted to the status a provider's detector would
return once it is the last thing on screen. `TakeChunk`, `Edge`, `DetectEdge` and
`Arm` are the sections of the chunk worker between lock releases; `CancelTimer`,
`RunArm` and `Quiescent` are callbacks of the loop; `ReadScreen` and
`EndDetection` are a detection thread; `Poll` and `Probe` are `get_status`;
`CheckStatus`, `NotifyInputSent`, `ClearRollingBuffer` and `SendKeys` are the
caller of `send_input`. `ApplyDetection` is `_apply_detection`: generation check,
no-signal check, latch, arm, ready generation. The agent (`BeginTurn`, `Work`,
`EndTurn`, `Redraw`) is the environment.

### InboxDelivery

Each caller of `deliver_pending` is a job that goes through its statements one by
one: read the oldest pending row, check the gate on the last detected status, mark
DELIVERED, type, and put the row right when typing raises. The POST endpoint
delivers on the loop and blocks the consumer and the pollers' listing meanwhile
(`LoopFree`); the other three run in threads. Agents, detection (`Report`), ageing
of rows, faults, deletion and crash are actions of the environment.
`Mailbox` says what this amounts to when deliveries do not overlap: the messages
of a receiver settle one at a time, oldest first.

### FifoWatchdog

A screen is one of a few contents; output is the screen it draws. Per terminal: the pane,
the pipe of tmux (off, on, stalled), what the FIFO holds, what the reader has batched and
not published, the reader thread, and the dictionaries of the manager, kept as the
functions with partial domain that they are. `Read`, `Flush` and `ReaderExits` are the
reader with its coalescing window; `Sleep`, `Wake`, `NextTerminal`, `Probe`, `Judge`,
`Rearm`, `NoteRearm` and `Replay` are the watchdog between its locks, with the stall and
the cold-start detector in `Judge` and the three counters at which it gives a terminal
up; `CreateReader` and `StopReader` register and remove. `Consume` is the consumer of the
bus, which drops what does not fit. The screen changes, the stalls, the failing calls
and the size of the pane (`Resize`, which changes what a capture shows and sends no byte), and,
in a rough environment, a stall within a burst, a redraw in the middle of its own
check, a re-arm that stays silent and an overloaded loop are the environment.

### TerminalLifecycle

A terminal is a tmux window, a row, a reader and a provider, and is named by the call
that creates it. `CreateSession`, `ExecuteFlow` and `JoinSession` begin a creation, which
holds the event loop (`loop`) through `WriteRow` and `StartReader` until it awaits
`initialize()`; `Initialized` and `InitRaises` end that, `Rollback` removes what was made;
a deferred worker goes on with `SendInput`, `NotifyCaller`, `WorkerDeleted`. A deletion is
a thread that goes through `ListTerminals`, `ReadMetadata`, `StopReader`, `KillWindow`,
`DeleteRow`, `KillSession`, `ClearSessionEnv`. `Crash` keeps windows and rows;
`RestoreMonitor` and the retention sweep (`SweepReader`, `SweepRows`) run after it.
Windows closed by hand are the environment. `left` is the ghost of terminals of which a
fault may leave a part, `told` what became of the notices to callers, which may fail
(`Notice`).

### PaneInput

Two or more calls of terminal_service on the windows of one session, in either backend;
each tmux or herdr command of a call is a step, and any of them may fail. tmux's
`send_keys` is `LoadBuffer`, `PasteBuffer`, `PressEnter` (once per `paste_enter_count`) and
`DeleteBuffer`; its other operations name the window and are one command. herdr's look up a
tab by its label (`ResolveTab`), then its pane number (`ResolvePane`), and use the number
afterwards (`SendText`, `SendEnter`, `HerdrKey`, `HerdrRead`, `HerdrKill`); a creation types
its exports at the number the answer gave or the last one of a list (`MakeTab`,
`ScanPanes`). `Begin`, `Raised`, `Probe`, `NotGone` and `Killed` are what send_input, the
inbox and delete_terminal make of a failure. The multiplexer is the environment: windows in
order, a pane number is a place in that order, a window has an input line. `unsure` are the
calls whose number has come to mean another pane, or was a guess. `NamesAreFresh` assumes that
no two windows are given one name: `generate_window_name` draws four hex digits for each and
looks nothing up.

### EventFeed

`Published` and `Consume` are the bus half (ui_event_consumer with its throttle), `AppendEvent`
the hook or forwarder that appends under the log's lock, `FanOut` the scheduling on the loop
for the streams noted before, `Deliver` the bounded put, `Stream` the generator of a route,
`Answer` the history route, `Restart` a new server that numbers from 1. The page is
`Connect`, `Opened` with its request for what is after the last number seen, `Backfilled`,
`BackfillFails`, `Receive` and `Broken`; for the MCP apps view `Load` comes first, from the
log of the MCP server's own process. `lost` names what a page is never to see, and why.

### TurnReading

A line of a terminal is the kind a provider's patterns take it for (a bullet, an echo, a
spinner, a footer, ...) and the turn it belongs to; a regular expression is then a set of kinds,
and `get_status`, `get_status_from_screen` and `extract_last_message_from_script` are functions
of a sequence of lines, one per provider: those that find their answers by bullets in
`BulletScreens` (claude, codex, kimi in both interfaces, copilot), by sections and frames in
`SectionScreens` (kiro and cursor in both, antigravity, hermes, opencode). The CLI is the
environment: `Submit`, `Say`, `Call`, `Ask`, `Approved`, `Wait`, `Resume`, `Finish` append to
the pane's history and to the rolling buffer what the provider's comments and the fixtures
under `test/providers` show, with the frame drawn below; `Redraw` repeats the frame in the
stream. `GetOutput` widens its window as `terminal_service.get_output` does. Which strings a
pattern matches is not modelled: kinds are told apart where the code tells them apart.

### HerdrInbox

The handlers of `HerdrInboxService` and `_reconcile` do not await between their first
read and their last write, so each is an action. `Create`, `Register` and `Delete` are the
terminal service, `Connect` (which reconciles), `Subscribe`, `Listen`, `HandleEvent`, `Disconnected` and
`ForceReconnect` the socket loop, `LoopRaises` and the losing outcome of `Delete` the ends of it,
when an exception is none of the three it catches, `HandlePaneClosed` and `HandleWorkspaceClosed` what an event does to the
maps, the rows and herdr. herdr is the environment: it reuses pane ids, may renumber them
when a tab closes, and sends every `pane_closed` there ever was to a new subscription. A
query that fails is a mishap, each of the four separately (`Answers`). The module extends
nothing of the project and its names are its own (`Tabs` are the terminals, `HerdrNext` is the
next-state relation), so that its theorem can stand beside those of the event path.

### MemoryStore

An article is the set of the entries it has and who wrote it last, how. `Lock`, `Append`,
`WriteLine` and `WriteRow` are `store`; `Fallback`, `Compiled`, `WriteBack` and `Stamp` the
compile, whose result is written only over the article it began with; `ListUncompiled` and
`ReadArticle` are `compact`; `Request`, `DetectOrphans`, `Take`, `CheckFile`, `Unlink`,
`RemoveLine`, `DeleteRow`, `Rewrite`, `Renew` the removals, which are `forget`, the expiry
and three healers, each with the parts it has, in the order of its code. A healer commits
its row deletions together (`pend`), and sqlite admits one writer (`Writable`). `Recall`
renews a row; `Age` lets a line outlive its retention; `Die` kills one process between
two of its writes. `owed`, `gone` and `torn` are ghosts.

### ToolingOps

An operation is the record of `operations.py` and its task: `pc` says where the task awaits
(its provider's lock, a slot, the pipes and exit code of its command, the drain and the
reaping when the runner gives up, the verification), `child` what became of the process and
`check` what the verification thread has read. `Submit` is the route with its validation,
`Cancel` marks the task, and `Deliver` raises the error where the task is found:
`Ends` is the `finally` of `_run`, which settles the record, gives back lock and slot and
empties the cache. `Kill` and `Reap` are the two halves of giving up, and the await between
the timeout and the kill is where a cancel passes the kill by (`cut` remembers that). A
collector is a thread that looks at one adapter after the other (`LookAt`), keeps the list
of those that cache one (`KeepList`) and publishes its page (`Publish`); `Scan` empties the
cache and makes two pages in a row.

`host` is what the CLIs have. What an adapter can do, plan, list and verify is in
`ToolingAdapters`, one operator per adapter and method, so that an operation of every kind
runs on every adapter. The help text that tells which subcommands a CLI has is taken to be
readable and complete; a list may be unreadable (`blind`), a command may succeed without
doing anything (`noop`) or close its output and stay (`mute`). `suspect` marks what was read
before an operation ended, or not read properly, and is kept afterwards. `cached_which` and
the expiry of entries (300 s) are left out: an entry lives until something clears it.

## 3. Runs

| Run | Properties | What it shows |
|---|---|---|
| `workflow_engine` | `NoDoubleDrive`, `CancelledNeverCompletes`, `JournalAgrees`, `NoRerunOfJournaledStep`, `LifecycleSpec`, `DriveEnds`; `VerdictIsTrue`, `OpSettles` | no interleaving of start, cancel, status, resume, crashes and lost writes double-drives a run, loses a cancel or re-runs a journaled step; the engine implements the abstract lifecycle; drives end. In modes of its own the tooling service: a verdict is true and every operation ends (that the cache tells what is, is proved) |
| `workflow_stranded` | violation of `NoStrandedRecord` | finding 1 |
| `script_run` | `FencedOut`, `SweepSparesOthers`, `DriveEnds` | processes left over by a crash, a timeout or a cancel are refused; a sweep takes only terminals of its own drive; whatever the script does, its drive ends |
| `script_cancel_fence` | violation of `CancelFences` | finding 2 |
| `agent_step` | `AnswersItsPrompt`, `OnlyFailuresLeave`, `VerdictOfEngine`, `EveryStepSettles`; `TypedWhereMeant`, `StartIsTrue` | a step returns the answer to its own prompt, leaves a terminal only when something failed, gets the verdict of its worker's last return and always ends, for an engine step, a handoff and a reused terminal; and, per provider, the startup of its CLI: keys go where they are meant, a CLI that keeps time comes up, ready means it takes input |
| `step_latched` | violation of `AnswersItsPrompt` with `COMPLETED` as a first ready look | finding 3 |
| `status_modes` | `TurnEndsBeforeReady`, `BusyIsSeenBusy`, `NoUnpromptedRevert`, `TimerSees` | on raw bytes and on the composited screen ready means that the turn is over; with detections that lag and unguarded senders the latch still holds and the end of every turn is seen |
| `inbox` | `DeliveredWasTyped`, `AloneIsMailbox`, `AloneAdopts`, `AloneArrives` | four deliverers overlapping at every statement never mark a message and forget it, but for one whose delivery a crash or a failed write cut off; without overlap they implement the mailbox under crashes, faults and deletions, a message for an idle terminal is adopted, and a supervisor that waits for its worker gets the callback, unless a message of somebody else is ahead of it |
| `fifo_watch` | `NoGhost`, `ScreenIsSeen`, `HealthyPipeLeftAlone` | removal races no writer into leaving an entry; a stalled or never started pipe is healed and the screen seen; a pipe that works is not re-armed, but for the pane whose size changed |
| `terminals` | `NoOrphanWindow`, `WholeOrGone`, `CallerIsTold`; `Addressed`, `AnswerIsTrue`; `CaughtUp`; `StatusIsTrue`, `OutputIsTheAnswer` | whatever fails, a terminal is whole or gone, and the caller of a worker that dies after the call returned is sent word of it, unless the worker was deleted on request or the notice itself failed; in a mode of its own, what is sent reaches the window it names and its sender hears the truth; in another, a connected page shows what the log retains, but for losses with a named cause; in a third, per CLI, the pane and the stream are read for what the agent does, and the output of a turn is its whole answer |
| `herdr_socket` | `LiveKept`, `PaneIsHeard` | replayed, reused and renumbered pane ids delete no live terminal's row; every mapped pane is subscribed to in the end, unless an exception has ended the socket loop |
| `memory` | `EntriesAreKept`, `TripleAgrees` | no entry is lost to a compile or comes back after its removal, compact finds what the background missed, file, line and row agree |

Each property of a passing run has a mutation of the model in the manner of a
plausible bug (`PROJECT.json`, mutants) under which TLC finds it violated.
`CHECK_DEADLOCK FALSE` everywhere: a run that is settled, a terminal with its inputs
used up, a wiki with its calls made, really stop.

The type invariants of `WorkflowRun`, `ScriptRun`, `TerminalLifecycle`, `AgentStep`,
`FifoWatchdog`, `InboxDelivery` and `ToolingOps` are theorems and so not run again; those of
the other modules held in the runs they were developed with and cost no slot in the ones kept.

### Bounds

- `workflow_engine`: three steps, so that a failed, a kept and a later step exist at
  once; one retry, one tolerated failure, one schema, two templated prompts; two record
  identities, enough for a drive and an impostor (a record that is neither registered nor
  driven is garbage and is reused); two lost writes and two crashes, so that a crash can
  follow a lost write and a recovery. The theorems remove these bounds.
- The tooling modes: one operation of any kind on any of the seven adapters, so that every
  plan meets every host; two operations with one slot, on one provider and on two, so that
  one waits for the lock, the slot or both while the other is cancelled, verified or lost;
  one operation beside one reader and all four pages. Three theorems remove these bounds.
- `script_run`: two drives (a start and a resume, or two of them across a crash), one
  cancel, one call with one step, one fault of any kind (a crash, or a lost write). Two faults,
  so that a lost write precedes a crash, held too (1.6 million states). A call needs a predecessor and a successor to be refused or swept wrongly, and
  both are there. The invariants of the proofs were also checked with three drives, two
  cancels and three faults.
- `agent_step`: one step beside the returns of two other runs, a store of two entries, so
  that others can evict it; three terminals, which is all that one retry and one reprompt
  can create; two faults. Startup: each bound of the code is a few polls in the proportions
  of the code (the fixed window of codex and copilot below the timeout, the floor `Long`
  above it), and the dialog gap exceeds `Pause` by more than the poll an answer costs.
- `status_modes`: one sender and up to three inputs, enough for a stale detection of the
  first to meet the second; where detections lag, one input (two passed, 0.9 million states); two chunks waiting and, when detections overlap, one in flight
  beside the worker's own and the polls. A chunk is a single look, since only the last one
  matters to a detector.
- `inbox`: one receiver, since receivers share nothing but the callers; two senders, its worker
  and a peer it did not spawn; two messages, enough to be reordered or repeated: both of the
  worker, with a fault, or one of each, in either order, without; a queue of one event, so that it overflows; one fault (two
  passed). The overlapping instance has one message and two faults (two messages and one
  fault passed too, 2.6 million states).
- `fifo_watch`: one terminal, since the watchdog visits them one after the other and shares
  nothing between them but its thread; two screens in two widths, three redraws or resizes on a
  bus of two, one fault, and give-up bounds of two. The rough environments, of which two
  properties say nothing, change a pane once (two changes and one fault passed too, 0.7 million
  states); `NoGhost` is proved for any number.
- `terminals`: three calls, one of them settled before, so that a second session of a name,
  a join and a rollback can meet a deletion; one name, one deleting thread, one fault of any
  kind. Retention has a mode of its own (`aging`), with crashes and without deferred calls; all
  four kinds of call with it passed too (1.2 million states). The calls, and the two of the
  panes, are interchangeable. Panes:
  two calls of any kind on two windows, one of them with two Enters, a third to be made; one
  exit, two tries, one failing command: what closes before a pane, between its commands, or
  types beside it. Feed: two things told, by hooks in a thread and on the loop or by
  the bus, a ring and queues of one, two streams of one page, one restart or failed backfill:
  each bound overflows by one. Three things told, a ring of two and three streams
  passed too, and with them the invariant that section 4 proves.
  Reading: two turns, so that the first leaves its answer, footers and spinners above the
  second; an answer has one or two paragraphs and a turn goes on until four lines stand below
  its echo, which holds a call, the question that follows it and the answer: every CLI ends
  its second turn, those that draw calls also after one, and those that ask ask in it; a pane
  that scrolls the first turn out and a buffer that loses its head; the second window is larger
  than the first, and both are smaller than the history.
- `herdr_socket`: two terminals of one session, so that closing one may renumber the other;
  two panes, two workspaces in succession, one drop beside the reconnects that registering
  forces (two passed), one fault. The safety properties were
  also checked with two sessions and three panes (234 thousand states), and with three
  terminals in two sessions without faults (17 million).
- `memory`: two keys, two stores, one sweep, two removals: two entries of one article, one
  compile beside the other, and a removal beside both. Removals of every kind without faults,
  and in a mode of its own three kinds, one per path of the code, with one fault (every kind
  with one fault passed too, 2.9 million states).

### Assumptions in the properties

`TurnEndsBeforeReady` and `BusyIsSeenBusy` are checked with a detection that ends before
other work goes on and one input per cycle, as the web chat and the sessions API send
them; section 5 says what happens otherwise. `AloneIsMailbox`, `AloneAdopts` and
`AloneArrives` are checked with `Overlap = FALSE`; `AloneArrives` speaks of a callback ahead of
which there are only callbacks of the supervisor's workers (`Awaited`), since `deliver_pending`
looks at the oldest message alone. `LifecycleSpec` supposes that no journal
read fails (`FailingReads = FALSE`), `JournalAgrees` sets aside the step that the
engine-error branch fails without journaling. `script_run` supposes that nobody resumes a
run before the cancel of it has answered (`Overtakes = FALSE`). `FencedOut` says nothing of
a run that has lost a generation (`degraded`). `agent_step` supposes that a terminal's first
ready look is IDLE; finding 3 is the other case; every caller asks for the teardown.
`ScreenIsSeen` and `HealthyPipeLeftAlone` speak of the environment the watchdog is
documented for (`rough = {}`), and the second sets aside the false alarm its docstring accepts,
a resize (`resized`). `CallerIsTold` sets aside a notice that failed (`told`): it is best-effort
and tried once. `PaneIsHeard` ends where the socket loop does (`conn = "dead"`). `WholeOrGone` and `CallerIsTold` need `Overlap = FALSE`:
nobody recycles or deletes a session while others work on it; `NoOrphanWindow` is
proved without it, and so is that a session has its own environment only. `herdr_socket` needs `Recycles = FALSE`: the closing of a
workspace is heard before its session is made anew. `memory` needs `Overlap = FALSE`: a
rewrite of an article does not overlap a removal of it, which takes no topic lock.
`StartIsTrue` speaks of a CLI that keeps time (`~slow`). `VerdictIsTrue`, the theorem of
`CacheReflects` and that of `OneWriter` set aside what a cancel in the drain let loose (`cut`), and
what the cache keeps of a look from before an operation's end (`suspect`); section 5 says what
both amount to. `StatusIsTrue` says nothing of a question that Codex asks below a bullet or
legacy Kiro asks at all, nor of a Copilot stream that has lost the user's line, and
`OutputIsTheAnswer` speaks of turns that the first window holds, and not of the current Cursor
interface; section 5 tells what those do. That a stream shows the end of a turn is not
claimed: stale frames in it hide it, and the pane tells. `OpSettles` supposes that no command closes its output and stays.

### Fairness

- `WorkflowRun`, `ScriptRun`: weak fairness of `Drive`: the loop resumes a drive whose await
  is over, a journal call is a local sqlite call, `run_agent_step` has timeouts, the
  wall-clock bound elapses and `_terminate` ends in a SIGKILL. Handlers, crashes, scripts,
  their calls and cancels are not fair.
- `AgentStep`: weak fairness of the drive of a step: its waits poll a clock and give up.
  Agents, detection and users owe nothing. The startup instance has no liveness property;
  that it ends in time is part of `StartIsTrue`, by counting polls.
- `StatusMonitor`: the worker thread, the queued callbacks, the timer and the detection
  threads are weakly fair. The agent, senders and pollers are not; `TimerSees`
  assumes no poll, but that redraws cease.
- `InboxDelivery`: every statement of a deliverer, the wake-ups of the daemons, the ageing
  of rows, detection and the consumer. Agents, senders, faults are not fair.
- `FifoWatchdog`: the reader thread, the watchdog thread, the consumer, tmux attaching a
  pipe it was told to attach, and the clock.
- `HerdrInbox`: the loop runs its tasks and reads, and a lost connection is retried, for as
  long as no exception ends the loop: nothing starts it again but a restart of the server.
  Terminals, herdr and faults owe nothing.
- `ToolingOps`: the task of an operation (the loop runs it, timeouts expire, a killed process
  is reaped) and its verification thread, whose probes have timeouts. Commands, readers,
  requests and cancels owe nothing.
- `TerminalLifecycle`, `PaneInput`, `EventFeed`, `MemoryStore`: none; their properties are safety.

## 4. Theorems

Checked by TLAPS, for all values of the constants satisfying the modules'
assumptions.

`EngineSideProofs`, of `WorkflowRun`:
- `TypeCorrect`. Each block of the drive maps records to records; the step chosen
  (`First`, a least element) exists because numbers are well-founded.
- `DriveInvariantHolds`: `DriveInvariant` is inductive with `TypeOK`. None of the
  safety properties is inductive alone: that a cancelled drive never completes
  depends on what `Finalize` sees, that predecessors are settled depends on what
  each label says of the steps before `at`, and that nobody double-drives depends
  on the claim made before the first await. The invariant has three parts:
  `SoundRecords` (what a record satisfies at each await), `LiveIsDriven` (only the
  registered record is driven and only while marked live) and `LiveIsOpen` (what is
  driven is not finally settled; needs that no journal read fails, and says so in
  its own antecedent).
- `NeverDoubleDriven`, `CancelWins`, `PrefixSettled` (no agent runs over an unsettled
  predecessor), `NothingPendingAtEnd` follow from it.
- `ImplementsLifecycle` and `SettledIsFinal`: each step of the engine is a step of
  `RunLifecycle` or a stutter, assuming `~FailingReads`.
- `JournalIsTrue`: at the awaits where the code relies on it the journal says of a step what
  the record says. It needs that only the driven record writes (`LiveIsDriven`), that a lost
  write marks the record, and that a resume loads what it then drives.
- `DoneIsNotRerun` (`~FailingReads`), the action property that no agent is sent to a step
  whose COMPLETED is in the journal.

`StatusMonitorProofs`: `ArmInv` (an armed terminal has an unanswered input, and
`ready_gen <= input_gen`) is inductive; `ArmedForUnanswered`, `StickyLatch` and
`CompletedStays` follow. They hold for any number of senders, tasks and looks.
`SpecTurnEnds`, `ModesTurnEnds` (`TurnEndsBeforeReady`) and `ModesBusySeen`
(`BusyIsSeenBusy`) are of the terminals that `OnePerCycle` describes: one caller at a time
awaits the end of the cycle, a detection ends before other work goes on, and a ready
terminal does not show work; queue, inputs, looks and probes are any. `InOrder` is the
invariant. The output that nobody has detected yet is that of one turn (`Ordered`): after a
turn's work nothing ready while the agent is busy, and after what is ready no work. Between
two cycles nothing shows work any more, in the queue, the buffer, the screen or the worker's
hands (`Calm`), so no output of the turn before can settle the generation of the next; and
the arm of an input lasts until its work was seen (`Latching`), which on raw bytes is in the
queue or about to be detected with the generation that is current (`Unmissed`). That a probe
is never confirmed in the middle of a turn needs that the candidate of a capture does not
outlive the input. What the steps do is stated once for any constants (`Shape`), and the
steps of each of the two instances are shown to be of that shape.

`ScriptRunProofs`:
- `RunInvariantHolds`: types, what a record satisfies at each await (`SoundRuns`),
  who drives and what is registered meanwhile (`Claims`), that a cancel on its way
  is of a record it has flagged (`SoundCancels`), and that a journaled COMPLETED
  comes from a record. `TypeCorrect`, `DrivenByOne`, `ClaimIsDriven` and
  `CompletionEarned` follow. `OneDrive` is not inductive alone: that a resume finds
  no drive rests on every exit of a drive releasing the claim and on nobody else
  releasing it, and the claim is not held while a start inserts its row.
- `PatientInvariantHolds` adds, assuming `~Overtakes`, that cancels are of the
  registered record one at a time (`OneCancel`), that nobody drives or cancels over
  a COMPLETED row (`Settled`), and the fence (`FenceInv`): unless a generation was
  lost, what is journaled, or about to be, is above what any process was handed,
  with the registered one excepted. A generation handed out may be ahead of the
  journal (a cancel bumps the record a resume then hands to its script), and equal
  generations exist in two processes' environments only if neither is current; the
  five parts of `Fence` say exactly when. `NewestAdmitted` (a call admitted is of the
  newest generation) and `CompletedStays` follow.
- `SweepsAreOwn` (`~Overtakes`): a terminal goes with its own step or in the sweep of its own
  drive. `Recorded` says that a terminal is recorded in the record its call is bound to, except
  in a drive that is over and never registered again; and every sweep is of the registered
  record, the claims say of a drive and `OneCancel` of a cancel.

`AgentStepProofs`:
- `SpecTypeOK`, with the ownership of terminals (`HoldOK`): a terminal that an attempt holds
  was made for its step and for no other, so what one step does to its terminal is not
  visible to the others.
- `SpecAnswersItsPrompt`, assuming `ReadyLooks = {"IDLE"}`: `LookOK` says which looks a
  terminal can have in each phase of its turn (COMPLETED only of a turn that is done, busy
  only of one that has begun), and `WaitOK` that a completion wait which has seen its
  terminal work waits for a turn that has begun, and finds IDLE only when it is done. Neither
  alone is inductive, and the theorem fails as soon as COMPLETED may be a first look.
- `SpecOnlyFailuresLeave`: every way out of an attempt either tears its terminal down or
  adds it to `left`.
- `SpecVerdict`: a record of the store is the last return of its key, there is at most one
  per key, and every record newer than a step's is of a key in `since`; so if the step's
  record was evicted, an injection from the `Cap` newer ones into `since` exists.
  `EngineVerdict` (`VerdictOfEngine`) is the same of the specification of the run, where the
  engine's steps are beside calls of the route, which ask for no schema.
- `SpecTypedWhereMeant`, of the startup, from the premise `InlineAsLaunched`
  (only claude, codex and kimi leave answered text in a capture). The invariant says that
  the command is typed at a bare shell or at a CLI told to quit (`BareShell`), that a key on
  its way is for the dialog that is up (`TargetIsUp`), that the dialog that is up can be read
  (`UpInDialog`), and that what a handler can still read and is not up was answered and
  flagged, or ended the handler (`Flagged`). It holds however slow the CLI is.
- `SpecStartIsTrue`, from the same premise and `StartsInTime`, the assumption that the timeouts
  of `initialize()` leave room for the time a CLI takes to its first dialog and between two
  (`First`, `Pause`), and that a script is of dialogs its handler knows, the one it ends with
  last and none again that it answers once. `StartIsTrue` says that a CLI in time is never given
  up: at a deadline, that is, and nothing before it says so. The invariant therefore counts: at
  every place of `initialize()` and in every state of the CLI, the polls left are at least those
  the CLI may still take (`OnTime`): its pauses, and for each dialog still to come a silence, an
  answer and the way back to the handler (`Cost`).

`EventPathProofs`, of `FifoWatchdog`: `SpecTypeOK`, and `SpecNoGhost` for every environment: every write of
the reader and of the watchdog is guarded by the registration under the lock that
`stop_reader` takes. `HealthyIsLeftAlone`, assuming `StallChecks > 1` (the code's default is
2, `CAO_PIPE_LIVENESS_STALL_CHECKS`; with 1 a single diverging look re-arms a pipe whose bytes
are still on their way), and of panes that may be resized at any time: a terminal that keeps its
size is left alone. It is checked once in a round (`CheckedOnce`)
and judged by the screen it shows (`JudgedAsShown`); and if nothing was read from its pipe since
its baseline, it either still shows that baseline or has bytes on the way, and a strike against
it means bytes on the way that the reader takes before it is judged again (`Trusted`).

`EventPathProofs`, of `EventFeed`: `SpecFeedTypeOK` and `SpecCaughtUp`, for both feeds, any
number of events, streams and restarts and any sizes. `CaughtUp` speaks of a page at rest and
is far from inductive. `FeedInv` says of every retained event where it is while things move
(`Accounted`): shown, lost, in a queue or a frame of the stream the page follows, in the hands
of a thread that will put it there (`OnItsWay`), or in a history request that will bring it
(`Asked`). That it is one of these is known of every event once a stream is open (`FollowedOK`),
of those numbered up to the last number seen also without a stream (`SeenOK`, since the next
request leaves them out), and of those that a request under way leaves out (`AskOK`). The last
two rest on numbers: an event of this life is below the next number, an answer of an earlier life
is told from one of this (`NumbersOK`). The proof found the model wrong: an answer computed by a
new server for a number of the old one took for lost only what was told before its stream
opened, and one whose stream had broken meanwhile lost more. It takes a ring of two, three
streams and three events to see, and `Answer` now says so.

`EventPathProofs`, of `HerdrInbox`: `SpecLiveKept`, assuming `~Recycles` (with it the theorem is
false, see section 5) and that there are finitely many terminals and sessions; for any panes,
renumbered or not, and any number of drops and mishaps, those that end the socket loop included. The invariant `HerdrInv` says that a
workspace whose closing is still to be read has no tab (`NothingThere`), which `Create` keeps
since a session is not made anew before its closing was heard, and every closing of tabs since it
tells of the workspaces it empties and of no other; and that a thread that is at the row has
closed the tab (`HandsOff`). A reconcile needs no more: whom it finds live by its label it maps
again (`ReconcileSpares`), and a `pane.closed`, of whenever, is ignored for such a terminal.

`InboxDeliveryProofs`:
- `SpecTypeOK`, with `InHand` (a job past its read has a message and a receiver).
- `SpecDeliveredWasTyped`, with overlapping deliverers: a DELIVERED row whose message was not
  typed is in the hands of a deliverer between its mark and its write, or a crash or a failed
  write `cut` it off there.
- `SpecIsMailbox`, assuming `~Overlap`: every step is a step of `Mailbox` or a stutter, and
  `ModesAreMailbox` says so of the specification that `inbox` runs. `AloneInv` is inductive:
  one job at a time has read its message (`Solo`), ids are given in order (`InOrder`), what
  was typed is settled and was for that receiver (`TypedIsSettled`), a job has the oldest
  pending message (`Foremost`), and its row says what its statement implies (`Staged`). That
  the oldest message is typed next rests on `Foremost`, which an id given out of order, a
  second job or a message that is pending again after it was typed would break.

`TerminalSideProofs`, of `TerminalLifecycle`: `SpecTypeOK`, `SpecNoOrphanWindow` and
`SpecEnvIsOwn`, the last two
for `Overlap` TRUE as well. A window without a row belongs to a creation that holds the loop
or rolls back, to a deletion that has not yet killed it, or to `left`; the environment stored
under a name is that of the founder of the session, because both are written in the block in
which the session is made. `SpecWholeOrGone` and `SpecCallerIsTold`, assuming `~Overlap`,
follow from `Sober`: one call holds the loop; what is made has all its parts or somebody who
is not done with it (`RowOfAll`, `RowsInHand`, `ReaderStopped`), for which one must know that
a creation works undisturbed in a session nobody deletes (`Undisturbed`, `OwnSession`), that a
deletion of a session has listed all of it (`Listed`), and that the row of a deferred worker
stays until its notice was sent or has failed (`Known`); the notice may fail at any call.

`TerminalSideProofs`, of `PaneInput`: `SpecPanesTypeOK`, `SpecAddressed` and `SpecAnswerIsTrue`,
for any number of callers of either backend, windows, Enters, tries and failing commands, from
`NamesAreFresh`. A step of one call is an effect on itself and on what all share: the tabs, the
lines, the prompts (`PaneEffect`, `PanesMove`), so each action is proved once for its own call and
`EffectInv` proves it for the rest. `PaneInv` says of each call: the number it holds is that of
its window unless it is `unsure` (`PlaceOK`, which rests on the tabs being without duplicates and
on every close at or before a number making its holder `unsure`); a text that waits for its Enter
is on the line of its window or in a prompt of it, whoever else presses Enter there (`TextOK`);
a text that may be tried again is typed nowhere (`SenderOK`); and the window of a creation that
is still to come is not open, has no row and is what no call asks for (`FreshOK`), without which
"gone" would not stay true.

`EngineSideProofs`, of `ToolingOps`: `ToolingTypes`, `ToolingOneWriter`, `ToolingVerdict` and
`ToolingCache`, for any adapters, operations and readers. The three properties stand on
`LockHeldOnce` (two operations past the lock have different providers), on `Stage` (what the
child and the check are at each await of a task, so that a live child implies an operation in
its runner) and on `LooksAreCurrent` (a look that is not suspect, of a provider nobody holds, is
the truth). The last is not inductive without the first two: that a command does not make an
old look false needs that its provider is held while it lives, and that the look is marked or
thrown away when the hold ends. `ToolingVerdict` (`VerdictIsTrue`)
speaks of the step that ends a verification: the probe and the check of that state, and the
status the step writes.

`MemoryStoreProofs`: `SpecTypeOK`, with the locks (`Locks`: who holds a topic lock is at a
statement under it, of that key). `SpecEntriesAreKept` and `SpecTripleAgrees`, assuming
`~Overlap`: what rewrites an article does not overlap a removal of it, which the code does not
enforce (section 3).
- `SpecEntriesAreKept`: what a store has read under the lock is still the file when it is
  written (`StoreHas`), a compile that passed its check has what it will replace (`JobHas`), a
  removal at work on a key has it to itself and a stripped article is the one that was read
  (`RemOK`); so at each write the new article has what is owed and nothing that is gone
  (`KeyHas`).
- `SpecTripleAgrees`: `Agree(k)` says of every key, at work or not, which of the three may
  disagree and who will put it right: a store before its row (`Behind`), a removal between its
  writes (`At`), a heal that has yet to commit (`Pending`). That the last is never left over
  needs that nobody writes a row while a heal has deletions open, which is sqlite's
  (`Writable`), and `DeletesLate` (none is open before the heal lock).

Only model-checked: the liveness properties (fairness is beyond the prover): `DriveEnds`,
`EveryStepSettles`, `TimerSees`, `OpSettles`, `AloneAdopts`, `AloneArrives`, `ScreenIsSeen`,
`PaneIsHeard`. Of the safety properties:
`StatusIsTrue` and `OutputIsTheAnswer` of `TurnReading`, whose detectors filter and cut the lines
of a screen, for twelve styles and any number of rows: `SelectSeq` is recursive, and what it
returns for every screen is an induction over data. No module declares a RECURSIVE operator and
no other statement needs induction over data.

## 5. Findings

With a run:

1. `workflow_stranded`: an exception of `run_agent_step` outside the two it
   declares leaves the record RUNNING without a drive, against the docstring of
   `_drive`.
2. `script_cancel_fence`: a cancel that arrives while a start inserts its row, or a
   resume reopens it, bumps a generation that the script is then given (or that the
   insertion overwrites), and finds no process to signal. The script is spawned after
   its cancel and its calls are let in.
3. `step_latched`: a provider that is first ready with COMPLETED (its system prompt was
   a turn), or a reused terminal whose last turn showed it, still shows it when the
   completion wait begins. The first poll takes it for the answer, the step extracts what
   was on the screen, and deletes the terminal under the agent.

Observed without a run (each reproduces by changing the constants or stating the
property named here; they are kept out of the runs to keep those few):

- A cancel that lands while the RUNNING mark of a step is being journaled, or
  before a retry, leaves the step RUNNING in a CANCELLED run: `_run_step` returns at
  the top of its attempt loop, and the skip touches PENDING steps only. (No step
  RUNNING when `pc` is `endRun`.)
- The engine-error branch of `_drive` sets the current step FAILED in memory and
  does not journal it. (`JournalAgrees` without its exception for that branch.)
- A start whose journal read failed is admitted under the run_id of a settled row,
  and its updates overwrite it. (`LifecycleSpec` with `FailingReads = TRUE`.)
- After a crash, a status read registers the remnant; a cancel then flags a record
  nobody drives and the run stays RUNNING. (`cancelled` leads to a terminal state,
  with a crash.)
- An input sent while the status still reads ready for the previous one shares its
  arm: the second turn reads ready throughout. (`BusyNeverReadsReady` with
  `Gate = "none"`.)
- A redraw that looks busy between the announcement and the turn consumes the arm.
  (`BusyNeverReadsReady` with `"PROCESSING"` in `Redraws`.)
- Two deliverers read the same PENDING row before either marks it: the message is
  typed twice; and one that marked the oldest is overtaken by one that types the
  next. (The `Mailbox` refinement with `Overlap = TRUE`.) `docs/inbox-delivery.md`
  concedes the first.
- A second message can be typed into one idle cycle, since the status stays ready
  until the turn is detected. (At most one unread message while `turn = "ready"`.)
- A cancel that outlives the drive it cancels, with a resume admitted meanwhile,
  sweeps the terminals of the resumed run, or writes CANCELLED over it or over its
  COMPLETED row. (`SweepSparesOthers`, `CompletedIsFinal` with `Overtakes = TRUE`; the
  first needs a failed spawn or an exit between the steps of the cancel.)
- The timeout arm and a failed spawn set FAILED over the CANCELLED of a cancel.
- After a lost insertion and a crash, generation 1 is used again; after a cancel
  during the reopening and a crash before its generation is journaled, the next
  resume uses that generation again. (`FencedOut` without `~degraded`.)
- A failed step keeps its terminal, a call admitted just before a cancel creates its
  terminal after the sweep, and a retried step stays failed and so out of the sweep:
  these terminals outlive the run. (No terminal alive when the drive is over.)
- Read in the code only: an exception of `_materialize_snapshot` leaves a resumed run
  RUNNING without a drive; a row read before a late COMPLETED lets a resume reopen it;
  the drain of the pipes after a natural exit is outside the wall-clock bound.

Read in, or reproduced on, the later modules:

- Status: a detection of the old ready screen, begun after the input was announced (and so
  of the same generation) and applied after the first PROCESSING of the new turn, records
  the turn as answered while it runs. (`ReadyMeansTurnEnded` with `Lags = TRUE`.)
- Inbox: `deliver_pending` looks only at the oldest PENDING message. If that one may not
  interrupt the supervisor, the awaited callback behind it is never looked at, and the
  deadlock that the docstring of the exemption rules out remains.
- FIFO: a client that attaches and resizes the pane of a working pipe gets it re-armed, which
  `fifo_reader.py:620-632` accepts (`HealthyPipeLeftAlone` without `resized`); a redraw in the middle of its own check (`"mid_check"`) makes a healthy pipe look
  stalled; a pipe that stalls in the interval in which it still delivered, or between a re-arm and
  its note, is re-baselined on the unseen screen; an idle terminal restored at startup is re-armed `MaxColdStarts` times
  and then dropped from the watchdog for good, though its pipe works.
- Terminals: a flow executed while its last execution still initialises does not find it
  busy, recycles the session, and the rollback of the first kills the window of the second
  by session name. A worker that joins between `delete_session`'s listing and its
  `kill_session` keeps row, reader and provider without a window. A crash between
  `create_window` and the row leaves a window nobody knows; one between `kill_window` and
  the row's deletion a row without a window. Retention deletes rows and never kills their
  windows, and a terminal used between the two halves of the sweep keeps its row without a
  reader. The notice to the caller of a deferred worker is tried once: when the database
  refuses it, the worker is deleted and its caller never told. A deferred initialisation is
  forgotten by a crash, and one whose row was removed
  by a recycled flow cannot be told to its caller. `next_run` is written before the launch.
- Agent step: an output that a failed attempt's worker, still alive, returns late is taken
  for the next attempt's, since the store is not cleared between them. A turn shorter than
  the poll interval on a provider that settles at IDLE is never seen working, and is
  retried though it was answered. A cancel during the extraction or the teardown still
  starts the terminal of the reprompt. The client of a handoff may time out while the
  server goes on.
- Herdr: the handler of `workspace.closed` deletes the rows first and then looks the
  session's terminals up in the database to prune the maps, so it prunes none; the closing of
  a workspace whose session was made anew meanwhile deletes the new rows (`LiveKept` with
  `Recycles = TRUE`); the closing of the last registered pane kills a session in which a
  terminal still initialises or came back after a restart; the remap of a renumbered pane
  may overwrite another mapping. `subprocess.TimeoutExpired` in `_reconcile`, a row that
  cannot be read and a dictionary changed during iteration end the socket loop for good, since
  it catches the errors of connections only (`PaneIsHeard` without its `"dead"`): what is mapped
  then or later is never heard before a restart. Terminals are not
  registered again after a restart. `docs/herdr.md:101-107` says the startup cleanup checks
  all rows; it checks those of sessions whose workspace is listed.
- Panes: herdr renumbers the panes behind one that closes, and every call uses a number it
  looked up before: a text, its Enters, an interrupt or a `pane close` then reach another
  terminal (`Addressed` without `unsure`). herdr's get_pane_current_command answers None for a
  pane without a foreground process too, so that a send that failed for another reason is
  reported "gone" and the message FAILED.
- Events: a number that is overtaken, dropped by a full queue or missed by a failed backfill is
  below the last number the page has seen and is not asked for again, against "no event is
  silently lost across a drop" (`eventsClient.ts:5-7`). A restarted server numbers from 1, and
  pages take its events for old ones. No hook fills the event log of the MCP server's process,
  from which `_cao_fetch_history_impl` answers, so the history of the apps view is empty
  (`EventStreamView.tsx:5-6` says that it closes the gap).
- Memory: the contradiction healer deletes the article that was *updated* earlier, and a recall
  renews that time, so the newer one can go (`docs/memory.md` says it is kept). `forget` and the
  healer that strips a stale claim take no topic lock (`EntriesAreKept` with `Overlap = TRUE`).
  Expiry deletes a memory that was updated after it was listed. The orphan healer may race the
  first store of a key. The debounce of compiles is per service instance and each MCP call
  makes a new one; the `asyncio.run` of the import cancels the compiles it scheduled. A row
  whose update failed after the append stays fresh, and compact misses the topic. A recall
  makes compact rewrite an article that is up to date. The orphan detector visits only scopes
  that have a row.
- Startup: claude's handler ends after the trust dialog, so one that came after it is never
  answered. copilot has no answered-once flags: text that lingered in its captures would have
  it type into the prompt. antigravity can be ready below a survey drawn after the footer was
  seen. kiro's fallback waits for a stable buffer, which a slow interface that has not left
  shows too: its command is then typed into it (the one stray `TypedWhereMeant` allows, and
  only when slow). `_quit_cli` sleeps a fixed time. The handlers sleep on the event loop.

- Screens: Codex's question is seen only where no bullet is above it in the turn; below one it
  reads PROCESSING, or COMPLETED when the user's line is among the last five. Legacy Kiro reads
  WAITING while it works on after an answered question. Copilot reads IDLE in mid-turn once the
  user's line has left the rolling buffer. Old Kimi's composited screen reads ready while busy,
  since its prompt pattern also matches the echoed task. A stale spinner or menu footer in the
  stream keeps claude and codex PROCESSING or WAITING after the end. The current Cursor
  interface draws neither the rules nor the prompt its extractor looks for, so extraction
  always raises. `get_output` stops at the first window with any answer: one that cuts the turn
  returns the rest of it without the marker of a partial output (codex, kimi, copilot, the old
  cursor, kiro's fixed window). A thought of antigravity with no title takes the next line of
  the answer with it, which its comment says must not happen.
- Tooling: a collector or a verification that looked before an operation ended sets its entry
  after `cache.invalidate()`, and the page is stale for 300 s (`CacheReflects` without
  `suspect`). A cancel that meets the runner between its timeout and its kill, or a second
  cancel during the drain of the first, leaves the command running with its provider's lock
  given back, against "cannot orphan a process" (`OneWriter` without `cut`). A list that cannot
  be read is empty, so a removal is verified by a timeout (`VerdictIsTrue` with `blind` and
  without `suspect`). `proc.wait()` after the pipes have ended has no timeout: a command that
  closes its output and stays holds its lock and slot until somebody cancels it (`OpSettles`
  with `mute`). An operation evicted from the ring runs on and can no longer be cancelled, and
  the help text of a CLI that did not answer is cached as unreadable.

## 6. Plan

Done, in the order of importance: `WorkflowRun` with `RunLifecycle`; `StatusMonitor`;
`InboxDelivery` with `Mailbox`; `ScriptRun`; `FifoWatchdog` with the bus; `TerminalLifecycle`;
`AgentStep` with the output store; `HerdrInbox`; `MemoryStore`; `ProviderStartup`; `ToolingOps`
with its adapters; `PaneInput`; `EventFeed`; `TurnReading` with the screens; and the proofs section 4 lists. To
come:

1. Proofs: `TurnReading`, by an induction over the lines of a screen, which needs a prover that
   takes a predicate for a parameter.
2. The two windows of `ScriptRun` that section 2 names, and the step rows of its journal.
3. `StatusMonitor` for the status that herdr reports natively, composed with the missed
   events of `HerdrInbox`.
4. The schedule of the flow daemon (`next_run` before the launch, missed periods).
5. The settings files, which two writers read, change and write.
6. The server process as the Electron shell starts, watches and stops it.

## 7. Not modelled, and why

- Which strings the patterns of `providers/*.py` match: third-party output. `TurnReading` models
  what is done with the lines once they are told apart.
- What an LLM writes, and the scoring, ranking and injection of memories: there is no state
  in them beyond the updates `MemoryStore` has.
- tmux, herdr, sqlite and the file system: external, modelled as far as the code relies on
  them.
- Routes that translate one call, the MCP servers and the command line: stateless clients of
  the actions that are modelled. Authentication: a check of a token.
- Installation, usage reports, environment migration, graph exports: text or files in,
  text or files out.
- The web dashboard and the MCP apps, but for the event streams they follow, poll and render.
  The log writer appends. The plugins that write memory into files of a CLI are best-effort
  hooks whose exceptions are swallowed.
- Settings, the Electron shell: see the plan.

`PROJECT.json` gives the status and the reason component by component.
