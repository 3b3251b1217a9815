# roki, specified in TLA+

`roki` is a daemon that watches Linear tickets, matches each one against the
operator's `WORKFLOW.yaml` and runs a small state machine of subprocesses for
it. This directory holds TLA+ specifications of its control logic, TLC runs
over small instances, and TLAPS proofs for every instance. Paths below are
relative to the repository; `daemon/x.rs` is short for
`crates/roki-daemon/src/daemon/x.rs`.

## 1. Inventory

| Component | State it keeps | Operations | Talks to |
| --- | --- | --- | --- |
| Configuration (`config/roki.rs`) | none: pure | `load`, `validate`, secrets from a file or the environment | everything at boot |
| Workflow files (`workflow/parse.rs`, `config/workflow.rs`) | none: pure | parse, override files, lists per repository | admission, expansion |
| Workflow expansion (`workflow/sugar.rs`, `workflow/validate.rs`) | none: pure | sugar, built-in terminals, Tarjan's SCC, caps, validation | engine |
| Webhook receiver, ready gate (`linear/webhook.rs`) | gate flag; bounded channel (64) | `bind_and_serve`, `handle` (503 while closed or full, 400, 202) | dispatcher (channel) |
| Admission and rules (`admission.rs`, `rule.rs`, `engine/dispatch.rs`) | none: pure | `accept`, `first_match`, `evaluate` | dispatcher, tasks, cold start |
| Dispatcher (`daemon/dispatcher.rs`) | `HashMap<TicketId, TicketHandle>` behind a mutex | `drain`, `on_webhook`, `admit_for_cold_start`, `spawn_ticket_task` | cache, ticket tasks (inbox of 1), escalation queue |
| Ticket task (`daemon/ticket_task.rs`) | one task per handle; loop of recv / evaluate / run / clean up | `step_once`, recheck, eviction | cache, runner, escalation queue, its own inbox |
| Diff cache (`daemon/cache.rs`) | triple, `cycle_id`, `pending_recheck`, `pending_evict` per ticket | `observe`, `set_*`, `take_*`, `evict`, seed | store (after its lock is gone) |
| Cold start, orphan reconcile (`daemon/cold_start.rs`, `daemon/orphan.rs`) | none of its own | seed, close open cycles, enumerate, admit, sweep | store, cache, dispatcher, file system |
| Cycle engine (`engine/cycle_state.rs`, `engine/on_failure.rs`, `daemon/real_runner.rs`) | current state, visit counts, outcome, failure | start, visit, follow an edge, close, run the `on_failure` handler | state process, store, escalation queue |
| State process (`engine/real_state_runner.rs`, `engine/sentinel.rs`, `engine/stall.rs`) | child, pipes, sentinel file, stall timer | spawn, write stdin, wait, kill, classify | engine |
| Boot and shutdown (`runtime.rs`, `daemon/shutdown.rs`, `daemon/inflight.rs`) | token, registry of children | boot steps, signal trap, drain under a deadline, kill | every task |
| Linear client (`linear/client.rs`, `linear/graphql.rs`, `linear/rate_limit.rs`, `linear/polling.rs`) | backoff atomics, `last_fire`, nudge channel | viewer, page, retry, tick, nudge | Linear, API, event log |
| Control-plane store (`crates/roki-store`) | tickets, cycles, state_visits, events, subprocess_runs, escalations | one transaction per operation; migrations | cache, engine, cold start, event log |
| Escalation queue (`escalation/`) | bounded ring of entries | push, evict_ticket, snapshot | tasks, dispatcher, runner, API |
| Events (`events.rs`, `observability/ring.rs`) | a file per writer, a ring with sequence numbers | emit, page since | store, API |
| HTTP API (`api/`) | request counter | tickets, detail, events, escalations, refresh; each request is logged | cache, ring, queue, tracker |
| Workspace (`engine/cleanup.rs`, `engine/worktree.rs`, `capture.rs`) | directories and capture files | create, delete | engine, cold start, `roki log` |
| Command line (`cli/`) | none | `run`, `cleanup`, `log`, `events`, `workflow`, `repo` | captures on disk, API |
| Terminal UI (`crates/roki-tui`) | rows, selections, acknowledgements, refresh state | pollers, keys | API |

What is hard about it, with the lines, is the `hazards` list of `PROJECT.json`.
In short: the dispatcher and the tasks share three locked maps and hold no lock
across two of them; the store is written after the cache lock is dropped; an
inbox of one message stands for any number of changes; a cycle may last for
hours, be killed, or die with the daemon; and every loop of a workflow has to
be bounded by a count that survives only if the right pass injected it.

What makes each component correct:

* dispatch core: one cycle per ticket at a time; the latest state wins; a
  revocation or cleanup removes a ticket exactly when no cycle needs it; nobody
  waits for a slow cycle;
* expansion: a machine that loads has no unbounded loop, no dangling edge, and
  means what the author wrote;
* engine: a cycle visits a state at most as often as its cap; its outcome is
  that of the terminal it reached; a failure reaches the handler once and the
  escalation queue if unhandled; a closed cycle stays closed;
* state process: nothing outlives its deadline; exactly one classification;
* cold start: open cycles of an earlier run are closed and announced, store and
  cache agree, the status filter hides no ticket, and only workspaces of tickets
  nobody works on are swept;
* boot and shutdown: no webhook before the gate, an inventory without gaps, no
  child left behind, and an end whatever the cycles do;
* Linear client: all of the enumeration or nothing; whoever asks for a poll gets
  one made after it asked;
* event log: file before ring before store, in one order, and a reader is told
  of what it misses;
* command line and terminal UI: what they show is what the daemon wrote, once,
  and they stop when they are done.

## 2. Plan

Order, most important behaviour first. Every module of it is written and
described in section 3.

| # | Module | Models | Properties | Status |
| --- | --- | --- | --- | --- |
| 1 | `TicketDispatch`, `TicketLifecycle` (abstract) | webhook channel, dispatcher, cache, handles, tasks | single flight, in-flight mark, wake-ups, refinement of the lifecycle | checked, proved |
| 2 | `WorkflowMachine`, `WorkflowExpansion`, `TarjanScc` | the five passes; the SCC algorithm step by step against mutual reachability | what loads is bounded and closed; computed SCCs are the components | checked, proved |
| 3 | `CycleEngine` (uses 2), `CycleHistory` (abstract) | cycles, visits, sentinel files, directives, handlers, crash and restart | visits capped, open rows are the running cycles, handler follows failure, refinement of the history | checked, proved |
| 4 | `StateProcess` | the supervision of one child: pipes, stall, token, exit, sentinel | registry, reaping, verdict, capture; a visit returns unless the child holds it | checked, proved |
| 5 | `Daemon` | boot, listener, gate, trap, drain of the handle map, deadline, kill | complete inventory, no child left, shutdown ends | checked, proved |
| 6 | `Admission`, `ControlStore`, `ColdStart` (uses both) | matchers and lists; the store; boot against crashes, enumeration, sweep | recovery once and announced, store mirrors cache, filter and sweep are safe | checked, proved |
| 7 | `LinearClient` | queries with retries, backoff, polling tracker | all or nothing, polls after asking, outage polling | checked, proved |
| 8 | `EventLog`, `Tui` (extends it) | files, ring, store, escalation ring; pollers and keys | ring is the tail of the log, gaps are announced, refresh once | checked, proved |
| 9 | `RokiConfig`, `Invocation`, `LogCommand`, `EventsCommand`, `CommandLine` (composes them) | settings and every subcommand | usable settings, complete follow, events once | checked, proved |

Every invariant, action property and refinement that a passing run checks is also
a theorem; what is left to TLC alone is named at the end of section 5. Bounds: two
or three ids per set, and one crash, one fault or one extra message per behaviour.

## 3. Modules

### TicketDispatch

One action is one critical section: the code takes one lock at a time, so
everything between two lock acquisitions may interleave.

| State | Code |
| --- | --- |
| `serving` | the ready gate, `runtime.rs` |
| `channel`, `sent` | the receiver's `mpsc` channel; how many webhooks the environment has sent |
| `dpc`, `msg` | where `Dispatcher::on_webhook` is, and its argument |
| `cache` | `DiffCache`: the triple, and `cycle_id`, `pending_recheck`, `pending_evict` as Booleans |
| `stored` | tickets whose store row is admitted |
| `escalated` | tickets with an escalation entry |
| `handle` | the dispatcher's map; a handle of a dead task is one whose inbox is closed |
| `tpc`, `owner`, `inbox`, `job` | a ticket task: where it is, its ticket, messages waiting, what it matched |
| `fresh`, `verdict` | history variables, read by no action |

| Actions | Code |
| --- | --- |
| `ColdAdmit`, `OpenGate`, `Deliver` | `cold_start.rs` 201-217, the gate, `webhook.rs` 120-145 |
| `Receive`, `Rej*` | `on_webhook` up to line 132: a ticket the filter turns down |
| `Acc*` | the rest of `on_webhook`: withdraw a pending eviction, `observe`, route |
| `TaskReceive` ... `TaskExit` | `run_ticket_task` and `step_once`, lock by lock |
| `CycleEnd` | the runner returns: any result its target allows, with or without an escalation |

A webhook's payload is what the admission filter and the rule lists distinguish:
a tracked triple, or `Rejected`. `TargetOf` is `evaluate_from_cache`. A triple
named `Blank` is the one a seeded entry holds until Linear is asked.

`TicketLifecycle` is the abstract promise: a ticket is tracked before anything
runs for it, one worker at a time, and stays tracked until that worker is done.
`TicketDispatch` implements it with `tracked` the cached tickets and `workers`
the tasks that execute a cycle; `fresh`, the inboxes and all flags vanish.

### WorkflowMachine, WorkflowExpansion, TarjanScc

`WorkflowMachine` is `workflow/canonical.rs`: states, terminals, edges, and
`ResolveDirective`. `WorkflowExpansion` is `workflow/sugar.rs` and
`workflow/validate.rs` for one entry, as operators: everything there is pure.

| Operators | Code |
| --- | --- |
| `BuildSugar`, `BuildCanonical`, `ConvertState`, `TaskToState` | `expand_body`, `build_sugar_state_machine`, `convert_states`, `task_to_state` |
| `ImplicitTerminals` | pass 1 |
| `Reaches`, `Components`, `CapLoops` | pass 5, `tarjan_scc` by what it computes: `t` is reachable from `s` when every set of states that holds `s` and is closed under edges holds `t` |
| `IsRawState`, `IsSugar`, `IsRawBody` | what `parse.rs` lets through: `RawStateEntry`, `RawTaskEntry`, `RawRuleBody` |
| `Classify` | `classify_edges` |
| `Valid`, `Loads` | pass 4, `validate_rule` |

`TarjanScc` runs the same passes with the algorithm spelled out. `indices`,
`lowlinks`, `stack`, `on_stack` and `sccs` are the fields of `TarjanState`;
`frames` is the Rust call stack, one frame per active `tarjan_strongconnect`.
`Root`, `Descend`, `Scan` and `Return` are its loop, its recursive call, the
edge to a discovered state, and what follows the loop. Roots and neighbours are
visited in any order, so the result does not hang on that of a `BTreeMap`.
Loading uses the search twice, and so does the module (`stage`).

### CycleEngine

| State | Code |
| --- | --- |
| `workflow` | the loaded file: a machine per kind of cycle, and the failure kinds `on_failure:` handles |
| `pc`, `current`, `visits`, `override` | `cycle_state::run_cycle`: where it is, `current_id`, `ctx.visits`, `terminal_outcome_override` |
| `failure` | the `FailureMetadata` on its way to `handle_failed_cycle` |
| `rows` | the ticket's rows of the `cycles` table |
| `files` | the sentinel files of the ticket, with the cycle whose child wrote each (the latter is history) |
| `escalated` | cycles with an entry in the in-memory escalation queue |
| `orphans`, `crashes` | children that survive the daemon; crashes so far |

| Actions | Code |
| --- | --- |
| `StartCycle`, `Land`, `CloseFailed`, `PostCycleDelete`, `ShorthandDelete` | `RealCycleRunner::run_cycle` |
| `Drift`, `Visit`, `Skip` | `cycle_state::run_cycle` |
| `PrepareFails`, `Spawn`, `ExitPlain`, `ExitDirected`, `ExitGarbled`, `ChildFails` | `RealStateRunner::run_state` |
| `WriteSentinel`, `OrphanWrites` | the child process, external |
| `Handle`, `Escalate`, `Unhandled` | `handle_failed_cycle`, `on_failure::route` |
| `Crash`, `Recover` | the daemon dies; `recover_inflight_cycles` |

Which cycle comes next is the dispatch core's choice and arbitrary here; that a
ticket runs one at a time is what `TicketDispatch` shows. `CycleEngine` does not
model the eviction after a cycle, which clears the ticket's escalations too (section 4,
`escalation_lost.cfg`). Store writes are taken to succeed: `with_store` only logs
their errors.

`CycleHistory` is the abstract promise to a reader of the `cycles` table: it grows
by one open cycle at a time, that cycle is closed once and its outcome is final, a
handler begins as the next thing after the failure it handles, and a daemon that
comes back closes what it died in, as a failure, before anything else begins.
`CycleEngine` implements it with `history` the rows and `stage` what `pc` says of
the engine: at work in a machine or a shorthand deletion, deciding about a
failure, dead, or none of these. Machines, visits, files and children vanish, and
so does the deletion after a cleanup, which comes when its row is closed.

### StateProcess

| State | Code |
| --- | --- |
| `pc`, `prompt`, `cause`, `result` | `run_state` from its first await to its return; `cause` is the `StallOutcome`, the arm of the select and the failed write |
| `stdin`, `pipe`, `child`, `reads`, `exit`, `heir`, `signal` | the kernel's view: pipes, process, exit status, pending signal; `heir` is a grandchild that inherited stdout and stderr |
| `drain` | the tasks `tee_stdout` and `drain_stderr`; "broken" after a read error |
| `silent` | `Watchdog`: the window has passed since the last tick |
| `shutdown`, `registered` | the `ShutdownToken`; the entry of the `InflightRegistry` |
| `sentinel`, `printed`, `stalled` | the sentinel file; output so far, a bound; history |

| Actions | Code |
| --- | --- |
| `PrepareFails`, `Spawn`, `Register` | steps 1 to 11 |
| `FeedPrompt`, `WriteFails`, `Abort`, `StartDrains` | steps 12 and 13 |
| `Healthy`, `Stall`, `GraceEnds`, `GraceExpires`, `KillEnds` | `Watchdog::run`, `terminate_child` |
| `Preempt` | the shutdown arm of the select, which also drops a watchdog that is waiting for a stalled child |
| `JoinDrains`, `Clear`, `Classify` | steps 14 to 20 |
| `DrainChunk`, `DrainEnds` | `tee_stdout`, `drain_stderr` |
| `Child`, `SigkillLands` | the child and the kernel, external |

Its results are the ones `CycleEngine` takes: `on_done` and `on_fail` are
`ExitPlain`, `directed` is `ExitDirected`, `unparseable` is `ExitGarbled`, the
rest is `ChildFails` or `PrepareFails`.

### Daemon

| State | Code |
| --- | --- |
| `main`, `step`, `exit`, `ready` | where `run_inner` is, its fallible boot step, the exit code, the `daemon_ready` event |
| `listener`, `open`, `requests`, `gate`, `channel` | the webhook server's task, accepted and unfinished requests, the `ReadyGate`, the bounded channel |
| `drain` | the dispatcher's task; `check` while it owes a look at the token |
| `trap`, `fired` | `signal_trap`'s task; the `ShutdownToken` |
| `handle`, `entries`, `at`, `expired`, `drained` | the dispatcher's map, and what main took out of it, the entry it joins, the window |
| `task`, `inbox`, `recheck`, `visits` | a ticket task, as the shutdown can tell it: waiting, between two states, with a child not yet registered, feeding a prompt, supervised, waiting for a pipe |
| `alive`, `registry`, `heir` | children that run, the `InflightRegistry`, grandchildren that hold a pipe |

| Actions | Code |
| --- | --- |
| `BootStep`, `ColdAdmit`, `Startup` | `run_inner` steps 1 to 13, `admit_for_cold_start` |
| `ListenerBinds`, `Connect`, `Answer`, `ListenerStops` | `webhook::bind_and_serve`, `ready_gate_layer`, `handle` |
| `Dispatch`, `DrainChecks` | `Dispatcher::drain` |
| `Receive` ... `CycleEnds` | `run_ticket_task`, `RealStateRunner::run_state` |
| `Signal`, `Trap` | the default action of a signal; `shutdown::install_signal_trap` |
| `Await`, `Collect`, `NextEntry`, `SendShutdown`, `Join`, `WindowExpires`, `Finish` | `run_inner` steps 14 to 17 |

`TicketDispatch` and `StateProcess` have the parts of a ticket task that this
module folds into one step. A request carries nothing here but the ticket.

### Admission, ControlStore, ColdStart

`Admission` is `admission.rs`, `rule.rs`, `engine/dispatch.rs`,
`workflow/parse.rs` and `config/workflow.rs` as operators: matchers, first match,
the lists that are in force for a repository, what an override replaces, which
files load, the status union that cold start asks Linear for.
`ControlStore` is `roki-store`: a database is a record of tables, each method of
the `Store` trait an operator from one value to the next, and `Migrate` one of the
migrations with its own transaction. `ColdStart` composes the two. The keys 1 to
`Legacy` are the integer keys of a store of version 1, which the migration casts to
text and no later version gives out; `FirstStore` is the file a first boot may find:

| State | Code |
| --- | --- |
| `linear`, `edits`, `wf`, `boots` | issues as Linear has them; the loaded workflow, chosen at each boot |
| `db`, `dirs` | the store and the session root: what survives a crash |
| `main`, `at`, `listed`, `page`, `todo`, `keep`, `partial`, `deleted`, `scanned`, `serving` | `run_inner` and `cold_start::run`, step by step |
| `cache`, `revoked` | `DiffCache` and `pending_evict` |
| `inbox`, `task`, `run`, `seen` | a ticket task, the cycle it runs and the snapshot it evaluates |
| `fresh` | the next cycle id |
| `crossed` | history: the dispatcher and the task overtook each other in the store |

| Actions | Code |
| --- | --- |
| `Boot`, `OpenStore`, `Seed`, `RecoverStep` | `run_inner`, `SqliteStore::open`, `seed_from_store_hint`, `recover_inflight_cycles` |
| `CloseLegacy`, `TakeRow`, `RecoveryEnds` (of `Recover`) | a row whose key is no UUID, the event of another, which may fail to be written (`unheard`), the end of its loop |
| `Enumerate`, `AdmitEnumerated`, `Mirror`, `Route`, `EndAdmission` | `cold_start::run`, `observe`, `admit_for_cold_start` |
| `Sweep` | `orphan::reconcile`, per directory |
| `Webhook`, `Unmirror` | `Dispatcher::on_webhook` and the store half of `evict` |
| `TaskStep` ... `TaskEvict` | `ticket_task.rs`, `real_runner.rs`, as far as they write |
| `Edit`, `Crash` | the world |

### LinearClient

| State | Code |
| --- | --- |
| `job`, `sent`, `retries`, `after`, `out`, `partial` | `resolve_viewer`, then `enumerate`, then serving; a request under way, its retries, the cursor, the issues so far |
| `backoff`, `base` | `RateLimitState`: what is left of the deadline, the base of the doubling |
| `idle`, `quiet` | time since `last_fire`, time since `last_webhook_success` |
| `asking`, `queue`, `acks`, `answers`, `tracker` | callers of the refresh route, the nudge channel, the acknowledgements that `run` collected, where `run` is |
| `unpolled` | history: callers for whom no poll has been made since they asked |

`Send`, `TooMany`, `Refusal`, `Nonsense`, `Viewer` and `Page` are one query each;
`Ask` and `Enqueue` are `NudgeHandle::nudge`, which the refresh route calls; `Take`, `Decide` and `Ack` are the three parts
of an iteration of `polling::run`; `WebhookAccepted` and `Passes` are the
receiver's timestamp and the clock.

### EventLog, Tui

| State | Code |
| --- | --- |
| `boot`, `emitted`, `faults` | the run of the daemon; bounds |
| `file`, `buffer`, `unstored` | an `EventWriter` per ticket and one for the daemon: its file, its `BufWriter`, the event between `flush` and the append to the store |
| `store` | the `events` table |
| `ring`, `nextSeq` | `EventRing` |
| `queue`, `unlogged` | `EscalationRing`; entries whose event is still to come |
| `recency` | the order in which `/api/tickets` lists the cache |

A page, `OthersThan` and `Forget` keep the members of a sequence at some positions
(`Picked`). `Emit`, `Persist`, `Escalate`, `LogEscalation`, `Touch`, `Forget` and `Restart` are
the daemon's; `RingPage` and `TicketDetail` are what the routes answer, and
`LogRequest` is `api/log_layer.rs`. `Tui` extends it: per source `at` and `answer`
are a poller's loop, `cursor` and `wanted` its `last_seq` and watch channel,
`channel` is the updates channel, and `view`, `rows`, `selected`, `gapPending`,
`acked`, `shown`, `refresh` are the `App`. `Ask*`, `Answer`, `Lose`, `Deliver` and
`AnnounceNudge` are the pollers and the network, `Press` a key, `TakeUpdate`
(`Apply`, `Handle`) one turn of the App's loop, `DebounceEnds` its timer. Pollers
meet only in the channel, so a behaviour runs one group of them (`scene`).

### RokiConfig, Invocation, LogCommand, EventsCommand, CommandLine

`RokiConfig` is `config/roki.rs`: `Load` runs the checks of
`RawRokiConfig::validate` in their order and yields the settings with their
defaults and casts; secrets come from a literal, a file or the environment.
`IsConfigFile` says what a file may hold, for the proofs.
`Invocation` holds one run of the program (`call`, `pc`, `exit`).
`LogCommand` is `cli/log.rs` with `visit_lookup.rs`, beside the engine that writes
`visits`, `cycleJson` and the captures; `listed`, `chosen` and `printed` are the
command's, `finished` is history. A cycle or a state is a name or, as the command
joins both as they come, a path (`IsPath`), and `Leads` says where each path leads. `EventsCommand` is `cli/events.rs` beside a
daemon whose ring keeps changing: positions are kept as distances (`lag` behind
the newest event), so emission needs no bound and a page is a set of positions; `noted` is `gap_reported`, `missed`
is history. `CommandLine` composes them and adds `run`, `workflow`, and `repo` with
its calls of `ghq` and `wt`.

## 4. Runs

`MCTicketDispatch` names one triple per kind of dispatch target: `parked`
matches nothing, `todo` and `doing` match rules, `done` a cleanup entry with a
body, `gone` the cleanup shorthand.

| Run | Bounds | Shows |
| --- | --- | --- |
| `dispatch_core` | 1 ticket, 2 tasks, 3 webhooks of 5 kinds, channel 2 | `SingleFlight`, `InFlightTracked`, refinement of `TicketLifecycle`; the channel drains although cycles never end; a revocation during a cycle is settled after it |
| `queue_mode` | no evicting payload, 4 webhooks | a change has a wake-up on its way, and is evaluated in the end |
| `expansion` | every graph on three states, an entry without states, sugar bodies of up to two tasks, 297,016 states | the search finds the components; injection and validation agree; what is well written loads, as `Expand` defines it |
| `cycle_engine` | 2 cycles, 1 crash, 5 sentinel contents, 189,978 states | `EngineInv`; refinement of `CycleHistory`; a validated machine is left only through a built-in directive; every cycle ends |
| `state_process` | pipes of 1 chunk, a prompt of 2, 3 chunks of output | registry, reaping, verdict and capture; a visit returns unless the child holds it |
| `daemon` | 2 tickets, channel 1, 2 requests, 1 visit per task, 176,506 states | the inventory main drains is complete, no child is left, cold start has the map to itself, shutdown ends |
| `cold_start` | 2 tickets, 2 boots, 2 cycles or 1 and an open row under an integer key (`Legacy` 1), 1 edit, 4 workflow files, 2.3 million states | open rows are the running cycles; recovery announces every row it closes but those without a UUID and those whose event failed to be written; store mirrors cache; filter and sweep are safe |
| `linear` | 3 issues on pages of 2, 2 retries, backoff 1 to 3, 2 callers, queue 1, 24,384 states | all or nothing; polls after asking; everybody answered; an outage is polled for |
| `observability` | 2 tickets, ring 2, page 2, queue 1, 4 events, 2 escalations, 2 boots, 1 fault, 3 keys, 686,762 states | ring is the tail of the log, store trails the files, no event twice, holes announced, detail settles, refresh ends |
| `command_line` | `Pad` 2, ring 2, page 1, 3 visits, 1 outage, 3 paths, 1.3 million states | settings usable or refused; a follow prints all and stops; the latest completed visit is read; `roki events` prints once, marks holes and settles |

A property named `...Inv` is a conjunction of named parts, because they are
about one state and are needed together (`SearchInv`, `LoadingInv`, `EngineInv`,
`HandleMapInv`, `VisitInv`, `StoreInv`, `ClientInv`, `LogInv`, `ViewInv`, `CommandInv`); its module
states each part with a comment of its own, and the proofs of section 5 give the
parts of `EngineInv`, `HandleMapInv` and `VisitInv` one by one.

Why the bounds are enough. *dispatch*: a third task could only be spawned while
two are alive, which `SingleFlight` forbids; the longest race needs one webhook to
start the cycle, one to fill the inbox and one to raise the flag; two tickets
share nothing but the channel and the locks, and the theorems cover any number.
The inbox capacity, 1, is the code's own; the channel's 64 is cut to 1 or 2,
enough for it to be empty, partly and completely full. Symmetry is declared where
only safety is checked (never with `~>`). *expansion*: three states are the least
on which an edge can run into a component that is finished while another is
still on the stack, which is what low-links can get wrong. *engine*: two
top-level cycles or one with its handler, under workflows written as an author
would: a task with a loop, two tasks with an `if:`, one that names nothing.
*process*: a prompt larger than its pipe makes the write wait, a pipe of one chunk
is full after one, and three chunks are a line, a binary chunk and one that finds
its reader gone. *daemon*: the first task may use up the window while the second
still works. *cold start*: two boots put a crash between any two writes of the
first, recovery included, and a crash that no boot follows is left out; one edit makes
the enumeration stale, and as only `Enumerate` and `Webhook` look at Linear, it may
fall between boots or while serving. An integer key matters to recovery alone, and
the theorems cover any number of them. *linear*: pages of
two make the second page fail after the first succeeded; the cap of 3 is reached
after two doublings. *observability*: a ring of two loses an event under a reader
that is one page behind. *command line*: `Pad` stands for the 100 at which a visit
number has as many digits as its padded form, and `U32Modulus` 1024 for 2^32. Three
paths are one to another cycle, one from the root and one from the visit upwards;
what a path for a state leads to is outside of the cycle and at rest, so a follow of
it is about the reader alone.

Two runs are expected to find a violation, and each is a `findings` entry that
quotes the sentence it refutes:

| Run | What the counterexample does |
| --- | --- |
| `lost_wakeup` | a change goes to the inbox of a task that has decided to evict, or is flagged after the task looked (`docs/fr/01-engine-model.md:154`) |
| `events_endless` | each request of `roki events` adds an event that its next page returns, so it never sees the empty page it waits for (`cli/events.rs:216`, `docs/reference/cli.md:80`) |

Eight more configurations reproduce disagreements between the text and the code.
They are witnesses, not part of the routine runs: `tlc -config X.cfg M` reports
the violation.

| Configuration, module | What the counterexample does | Text |
| --- | --- | --- |
| `readmission_lost`, `MCTicketDispatch` | a re-admission arrives between `take_pending_evict` and `evict` | `docs/fr/03:71` |
| `escalation_lost`, `MCTicketDispatch` | the task removes the escalation its own cleanup has just pushed | `docs/fr/06:71`, `ticket_task.rs:199` |
| `builtin_drift`, `MCCycleEngine` | a child answers `skip` in a machine that never names `__no_action__` | `docs/fr/01:68`, `:72` |
| `stale_sentinel`, `MCCycleEngine` | the first cycle's child writes a sentinel, the second cycle's child writes none and the old file is followed | `engine/sentinel.rs:5` |
| `retry_pair`, `MCCycleEngine` | `tasks: [a, b]` with `b.directives: {retry: a}`: only `a` gets the default cap | `tests/e2e/sugar_retry_smoke.rs:1` |
| `title_lost`, `MCColdStart` | an evaluation from the cache renders a prompt without the ticket's title (`dispatch.rs:77`, `ticket_task.rs:244`) | `docs/fr/01:105` |
| `silent_recovery`, `MCColdStart` | recovery closes the row of an old store, whose key is no UUID, without an event (`cold_start.rs:287`); a row whose event could not be written is closed so too (`:303`) | `docs/fr/07:74`: "one `crashed_cycle_recovered` event per row"; `docs/fr/01:201` |
| `cross_ticket`, `MCCommandLine` | a state of one ticket asks `roki log` for the metadata of a cycle given as a path and reads another ticket's: `--cycle` and `--state` are joined as they come (`cli/log.rs:202`, `:217`, `:288`, `:306`), and only `--ticket` is compared | `docs/fr/09:53`: "refuses cross-ticket reads"; `:123`, `:131` |

**Known divergences without a run.** Reading and earlier counterexamples show
these too; the models contain the behaviour wherever they cover the code, so no
property above assumes the contrary.

Dispatch, boot and shutdown:

* a ticket rejected while its task idles in `recv` keeps its cache entry
  (`dispatcher.rs:120` finds the handle; the task never looks at the flag);
* cache and store are written under different locks (`cache.rs:221`), so an
  eviction and a re-admission may reach them in opposite orders: the exception
  `crossed` of `StoreMirrorsCache`, which lasts until the next boot;
* a webhook retained during a cycle, or the self-send after a recheck, starts a
  second cycle on a triple already evaluated (`ticket_task.rs:118`);
* a seeded entry that the enumeration does not list stays (`cold_start.rs:155`),
  and `observe` leaves an entry its old repository;
* a rule without a status is invisible to the status filter of cold start as
  soon as another entry has one (`docs/fr/07:75`, `docs/fr/03:50`): hence
  `Selective` in `EnumerationCovers`;
* `PRAGMA foreign_key_check` runs after the migration is committed, so the next
  boot skips it and accepts what the last one refused;
* recovery drops the error of `emit` (`cold_start.rs:303`), which writes the file
  before the store, so a row whose event could not be written is closed in silence
  like the row of `silent_recovery`: hence the two exceptions of
  `RecoveryIsAnnounced`;
* `cycle.json` of a cycle that crashed keeps `ended_at: null`;
* the daemon reports ready although its webhook listener could not bind
  (`runtime.rs:18`);
* the exit code says whether a registered child had to be killed, not whether the
  tasks were drained (`runtime.rs:51`, `docs/fr/12`);
* a process id read from the registry may belong to somebody else by the time it
  is killed (`runtime.rs:510`, where a comment accepts it).

Workflows and cycles:

* two tasks with one id load, the later one replacing the earlier
  (`sugar.rs:165`);
* an id that is a state and a terminal hides a loop from the pass that caps it
  (`sugar.rs:145`), and the entry is then rejected for an unbounded loop;
* a task that retries itself by the built-in directive makes no loop for pass 5
  and keeps a cap of one (`sugar.rs:572`);
* stdout that never ends a line does not tick the watchdog, which counts lines
  and not bytes (`real_state_runner.rs:648`);
* a shutdown that fires during the grace period of a stalled child makes the
  visit end as a crash, or even take an edge, instead of as a stall
  (`real_state_runner.rs:295`): hence the condition in `StallTrumps`;
* while the prompt is being written neither the watchdog nor the shutdown token
  is observed (`real_state_runner.rs:237`), and a grandchild that keeps the
  output open holds the visit after its child is gone
  (`real_state_runner.rs:304`): the two exceptions of `ReturnsUnlessHeld`;
* the outcome of a directive to another state is applied to the terminal reached
  later (`cycle_state.rs:130`).

Linear and the event log:

* the cadence has a lower limit only (`docs/fr/03:53`, `:58` give an upper one);
* with the cadence over and the outage gate closed the tracker loops without
  waiting, because nothing advances `last_fire` (`polling.rs:100`);
* a poll only emits `polling_tick`; it enumerates nothing (`runtime.rs:292`);
* the tracker's branch for a backoff is out of reach, only startup queries
  Linear (`NudgesAreServed`);
* an event whose flush failed stays in the `BufWriter` and comes with the next
  one, but reaches neither ring nor store (`events.rs:427`);
* the detail of a ticket returns the oldest events of the ring, not the latest
  (`projection/tickets.rs:30`, `docs/fr/10:61`);
* with a ring of capacity 0 every page reports a gap.

Terminal UI and command line:

* the cycles route answers `{cycles, truncated}` (`api/routes.rs:106`) where the
  terminal UI decodes a list (`docs/fr/10:107`, `docs/fr/11:52`);
* an update names no ticket, so the detail of the ticket shown before may stand
  under the new one until the next poll (`DetailSettles`);
* a cursor from before a restart of the daemon is higher than the new sequence
  numbers: events are missed without a gap, hence `s[i].boot` in
  `HolesAreAnnounced` and the restart in `HolesAreMarked`;
* Enter opens the row that stands at the selected position after a re-sort, and
  two escalations that differ in their time only are acknowledged together;
* captures are written under `visit-{n}` (`capture.rs:40`) and looked for under
  `visit-{n:03}` (`visit_lookup.rs:71`), so `roki log` finds only visits from 100
  on;
* `--iter -1` is the latest visit itself, where `docs/fr/09` says the previous one;
* the follow of a visit that stalled or was signalled never ends, for it writes
  no `exit_code` (`cli/log.rs:249`);
* `roki log` joins the raw ticket id to the session root, the engine a sanitised
  one;
* `roki events --offline` decodes an `ApiEvent` per line, which the files do not
  hold, and skips every line (`docs/fr/08:39`, `docs/fr/09:57`);
* `stall_seconds as u32` wraps (`config/roki.rs:445`) and may become 0;
* `worktree::ensure` has no caller.

**Fairness.** `ExecutorFairSpec` assumes that the executor keeps scheduling the
dispatcher and every task that is ready; it grants nothing to cycles, which is
the point of `DispatcherNeverBlocks`. `FairSpec` adds weak fairness of the end of
each cycle. Tokio schedules a ready task eventually, and a cycle ends because its
visits are capped and stalled children are killed; that last part is shown by
`CycleEngine` and `StateProcess`, and is an assumption here. Webhooks are never fair.

`CycleEngine` is weakly fair to the engine's own steps, to the end of a child and
to recovery after a crash. A silent child is killed by the watchdog
(`ReturnsUnlessHeld` of `StateProcess`); that a child does not print for ever is an
assumption, for nothing in the code limits it, and so is that it never gets into
the two situations that property names. What a child writes, and a crash, are
never fair. `StateProcess` is weakly fair to `run_state`, to the drains, to the
passing of time and to SIGKILL, which a process cannot refuse; it assumes nothing
of the child, its heir or SIGTERM.

`Daemon` is weakly fair to main, the listener, the drain, the trap, timers and
the steps of a ticket task that the executor or SIGKILL drives. It assumes nothing of
clients, of a child that does not read its prompt, or of whoever holds a pipe:
`ShutdownEnds` names the two waits that this leaves open. `LinearClient` is weakly
fair to the client, the tracker and the clock, assumes that a request is answered
in some way (the HTTP client has no timeout of its own), and is strongly fair to
the senders on the nudge channel because its semaphore is first come, first
served. `Tui` is weakly fair to the App, the detail poller and the network, and
strongly fair to a poller's `send`, again a queue. `CommandLine` is weakly fair to
the loops of `roki log --follow` and `roki events`; the daemon beside them is not
fair, so a follow that waits for a visit to end assumes that the visit ends.

## 5. Proofs

`TicketDispatchProofs` proves, for any number of tickets, triples, tasks,
webhooks and channel slots, from `ConstantsAssumption` alone:

* `TypeCorrect`: `Spec => []TypeOK`;
* `Inductive`: `Spec => []Inv`, where `Inv` is `TypeOK` and `DispatchInv`;
* `SingleFlightHolds`, `InFlightTrackedHolds`: what the runs check;
* `LifecycleImplemented`: `Spec => Lifecycle!Spec`;
* `WakeupPendingHolds`: with no rejections and no cleanup targets (queue mode),
  a triple that waits for evaluation always has a wake-up on its way.

`SingleFlight` is not inductive: nothing in it says why a second task is not
spawned. `HandleOnFile` does (a live task is the one its ticket's handle names,
so there is one slot per ticket). `InFlightTracked` needs in addition that the
dispatcher evicts only tickets without a handle (`EvictsUnhandled`: true when it
looked, and still true because only the dispatcher files handles), that nothing
is dispatched while cold start admits (`GateClosed`), and that a task past its
evaluation works on a cached ticket (`WorksOnCached`). One lemma per action shows
each of these preserved; the temporal theorems combine them with PTL. TLC
found `Inv` to hold on the instance of `dispatch_core` before it was proved.

`CycleEngineProofs` proves, for every set of well-formed workflows, every
payload and any number of cycles and crashes, from `EngineAssumption` alone:
`EngineInvariant` (`Spec => []EngineInv`), and from it `VisitsCappedHolds`,
`OpenRowIsRunningHolds`, `HandlerFollowsFailureHolds` and
`EscalatedIsStuckHolds`. `EngineInv` is the conjunction of these four with
`TypeOK` and `InMachine`, because none is inductive by itself: that a handler
follows a failed cycle needs that the runner routes only closed failures
(`InMachine`), that a row is not closed twice needs to know which one is open
(`OpenRowIsRunning`), and that only stuck cycles stay escalated needs that a
closed row never changes. The last is the lemma `ClosedRowsStay`; `Opening` and
`Closing` say what the two operations on rows do, and the steps that share a
shape (a failure, an edge taken, a cycle opened or closed) share a lemma.
`MaxCycles` and `MaxCrashes` are arbitrary naturals. `WorkflowMachine` is used
only through `IsMachine`, so nothing depends on how a machine was loaded. The one
exception is `DriftsByBuiltinHolds`, which is about what loading buys: it assumes
`AllValid`, that every workflow has passed `validate_rule`, because the daemon keeps
no other (`Loads` in `WorkflowExpansion`) and a machine that has not could send the driver
anywhere. The workflows of the run have passed it.

The last theorem, `HistoryImplemented`, is the refinement of `CycleHistory`. A
closed outcome is final because `close_cycle` updates open rows only and
`OpenRowIsRunning` leaves one such row, the newest: closing every open row at
recovery is therefore closing that one (`HistoryRecovers`), and a cycle is never
closed twice (`HistoryCloses`). Every other step is a stutter or keeps the table.

`BoundaryProofs` is about the two components that meet the outside, the child
process and the Linear API. Of `StateProcess` it proves, for pipes and prompts of
any size and any amount of output, from `PipeAssumption` alone: `VisitInvariant`
(`Spec => []VisitInv`), and from it `LiveChildRegisteredHolds`,
`NothingLeftBehindHolds`, `StallTrumpsHolds` and `CaptureCompleteHolds`.
`VisitInv` adds to these what `run_state` knows at each await: of the child
(`ChildAtPhase`: it is reaped once the select is over), of why it was ended
(`CauseAtPhase`: a stall is remembered or a shutdown has taken its place), and of
the drains (`DrainAtPhase`: one that ended has emptied its pipe and nobody is left
to refill it, which is why nothing is lost afterwards).

`DaemonProofs` proves, for any number of tickets, requests, visits and channel
slots, from `DaemonAssumption` alone: `DaemonInvariant` (`Spec => []Inv`), and
from it `InventoryCompleteHolds` and `ColdStartAloneHolds`, together
`HandleMapPassedOn` (`HandleMapInv`), and `NothingOutlivesDaemonHolds`. None of the
three is inductive. That the inventory stays
complete needs that the dispatcher is over when main collects (`DrainFirst`) and
that every live task has a handle until then (`OnFile`); that nothing is left at
the exit needs that a child runs only in a task that lives, and that every such
task is listed or joined (`AtEntry`, `Registered`, `OverAtExit`); that cold start
is alone needs that the gate opens once, after it (`GateFirst`, `DrainLater`,
`NoTaskAtBoot`).

Of `LinearClient`, `BoundaryProofs` proves, for any issues, page size, retries,
backoff bounds and set of callers, from `LinearAssumption` alone: `ClientInvariant`
(`LinearSpec => []ClientInv`) and `PolledSinceAskedHolds`. The inductive invariant adds
that what has been fetched is the prefix of the issues up to the cursor
(`Fetched`, from the sequence lemmas on adjacent subsequences), that no backoff is
left once serving (`Rested`), that the tracker starts after the queries
(`TrackerLater`), that a caller is in one place of the nudge channel at a time
(`OnePlace`), and that whoever is about to be told of a poll was polled for
(`PolledFor`).

`ColdStartProofs` proves, for any number of tickets, boots, crashes, cycles and
edits and any set of workflow files, from `ColdStartAssumption` and
`FilesAssumption` (what a file parses to holds its entries in lists):

* `StoreAgrees` (`StoreInv`), `SweepTakesNoWork`, and the action property
  `RecoveryLeavesATrace` (`RecoveryIsAnnounced`), for any number of integer keys
  (`Legacy`) and with its two exceptions: a row whose key is no UUID, and one whose
  event could not be written;
* `KeysNeverDangle`: the store keeps its foreign keys through every operation,
  refused or not, so `PRAGMA foreign_key_check` has nothing to find;
* `FilterLosesNothing` (`EnumerationCovers`): what the status filter leaves out, no
  rule, cleanup entry or override would have acted on.

The store's operations come first, each with a lemma that says what it changes and
what it refuses. Over them stands `Inv`: no task lives and nothing is on its way until
cold start has enumerated (`NoLiveWork`, `BootIsQuiet`); while it recovers, the open rows are
the listed ones and the one in hand, whose event has just been written or has failed
to be (`RecoveryInHand`); afterwards
each belongs to the task that runs it (`RunsAtWork`); and where cache and store
differ, a write is pending (`PendingWrites`). `SweepSparesWork` needs that the tickets
to keep were collected before any task could start (`TasksAreKept`, `SweepIsSafe`).
`FilterLosesNothing` has an argument of its own: a status that a matcher accepts
and the union lacks contradicts the union's definition, list by list.

`TarjanProofs` proves, for every body the parser lets through, every set of states
and every order in which roots and neighbours are visited, from `BodiesAssumption`,
`RankAssumption` (the order of ids) and `CapAssumption` (the default cap, 50 in the
code, is more than one): `LoopsAreFound` (`SearchInv`), `CapsReachEveryLoop`
(`CapsReachDisjointLoops`) and `WellWrittenEntriesLoad` (`LoadingInv`). The set of
states may be infinite; what has been discovered never is. The invariant says that
the stack holds what is discovered and has no component, in the order of discovery
(`StackInv`); that each active call reaches all that is above it on the stack, and is
reached, or a call before it is, from all that is on it (`CallsInv`); that an edge
from a discovered state leads to a discovered one or is still to be scanned, and none
leaves the components that are complete (`ScanInv`); and that a low-link is the index of a state the call
reaches, with no scanned edge from above leading further down (`LowInv`). So when a
root's low-link is its own index, what is above it on the stack is closed together
with the complete components: nothing below it can be reached, and all of it reaches the root.
Reachability by closed sets makes this a choice of a set, without an induction over
paths. `MachineInv` carries the machine through the passes: each makes a machine of a
machine, and validation searches the graph that the caps were injected into.

`TuiProofs` proves, for any number of tickets, events, failures and restarts and any
capacity of the ring, the queue, the pages, the channel and the views, from
`EventLogAssumption` and `TuiAssumption`: `CopiesAgree` (`LogInv`),
`NoEscalationIsSilent`, `ScreenIsSound` (`ViewInv`) and the action property
`NoHoleIsSilent` (`HolesAreAnnounced`). None of them is inductive. Ring and store hold what
the files hold, in the order of the ids, which one event between flush and
append per writer must respect (`RingOrder`, `StoreOrder`). What is on the screen follows from
what is on its way there, so `FlowInv` orders the rows, the pages in the channel and
the page that is being answered: each is without holes, younger than all that is
ahead of it, and joined to the latest of it unless it is marked. A page is the
run of the ring that starts after the cursor, so `CursorInv` ties the two: the cursor is
the number of the latest event delivered, and what the ring holds after it is younger.
After a restart numbers begin again while ids go on, and the invariant
compares numbers only within one run of the daemon. TLC found `IInv` to hold in every scene of
`observability` before it was proved. That a filter's picks keep their order
(`PickedFrom`, `PickedRun`) is what makes a page a run of the ring, and is proved
from the positions it picks.

`CommandLineProofs` proves, for any visits, events, ring, page, filter and set of
commands, from `ConfigAssumption` (a `u32` holds more than the default of five
minutes), `CallsAssumption` (what is asked of a command is of its kind, and `run`
reads a file as `IsConfigFile` describes it), `LogAssumption` and
`EventsAssumption`:

* `CommandsAreRight` (`CommandInv`): settings that pass the checks are usable, a
  state that gives names for its cycle and its state reads its own ticket's visits and
  no other's, whatever else it passes (with a path for either that is false:
  `cross_ticket`), and no event is printed twice;
* `FollowsToTheEnd` (`FollowIsComplete`) and `LatestCompletedIsRead`
  (`ReadsLatestCompleted`);
* the action property `HolesGetTheirMarker` (`HolesAreMarked`).

That settings are usable is an argument about one evaluation: `Load` reports the
first broken check, so a file that loads has broken none, and each default and
cast keeps its range. The rest needs an inductive invariant, proved as
`CommandLineInvariant`, because the daemon goes on while a command reads. A visit
that has exited never changes again, so an answer about it stays true
(`Probing`). A directory that the search for the latest completed visit has passed
over had no exit code when the command listed them, or has been deleted since;
whatever it settles on is no older than any that had one (`Chosen`). A follow reads the
rest of the capture after it has seen the exit code, and the engine writes nothing
behind that (`FollowAtEnd`). For `roki events` the invariant is that what lies after
the cursor has not been printed, and that a hole that nobody has been told of is
wider than the ring (`CursorInv`): a page starts behind the cursor and moves it to its
last event, and a hole is therefore still seen as one by the request that prints
past it.

What no theorem here could be about. Liveness under fairness (everything with
`~>`, `<>` or `[]<>`) and ENABLED are outside the prover's reach and stay with
TLC. The library's induction theorems take an operator and cannot be used, but in
many places the least element of a set of numbers does as well (`LeastNat`,
`LeastOf`): the first rule that matches, the row that recovery takes, the event a page
starts with and the positions a filter picks are found that way. What remains
model-checked over bounded inputs is what a fold or a recursive function computes,
where no such set is at hand. No module with a theorem
declares, or reaches, a RECURSIVE operator. Only model-checked are
therefore the counterexamples and the liveness properties: `DispatcherNeverBlocks`,
`RevocationSettled`, `ChangeIsEvaluated`, `CycleEnds`, `ReturnsUnlessHeld`,
`ShutdownEnds`, `NudgesAreAnswered`, `QueriesEnd`, `OutageIsPolled`,
`DetailSettles`, `RefreshEnds`, `FollowEnds` and `EventsSettle`.

## 6. Not modelled

* Of the HTTP API: the cycle list, the visit stream, health and text sanitising;
  each reads one map or one directory and answers.
* Of the terminal UI: updates of cycles and of a tailed visit, the headless mode,
  drawing.
* Of a workflow: YAML syntax, durations, error texts, commands, prompts, the
  spelling of ids, the matcher of a handler on the state, and how several
  validation errors accumulate.
* Templates: rendering is a pure function, with nil for an unknown name; no
  property tells two renderings apart.
* `[engine].max_iterations` as a source of `DefaultCap`: the daemon loads
  workflows with `ExpandConfig::default()`; the cap is a constant here.
* `engine/worktree.rs`: `ensure` has no caller. `wt` and `ghq` are external
  programs that succeed or fail.
* HTTP framing, TLS, JSON and SQL: a request is answered, refused or garbled; a
  statement is a step of its transaction.
* I/O errors of the store: an operation of it is refused by a constraint or cut short
  by a crash. I/O errors of a command's own output.
* Where a path given to `roki log` leads while somebody writes there: `Leads` fixes it.
* Content of captures and of the environment of a child, and the wording of logs.
