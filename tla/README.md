# A verification of nonebot-plugin-moellmchats

TLA+ models of the concurrent and persistent parts of this plugin, TLC runs that
check them on small instances, and TLAPS proofs of what matters most for every
instance. `PROJECT.json` holds the machine-readable index: which module models
which lines, which run checks which properties, the hazards, the findings.

    tlc -workers 2 -config ChatGate.cfg MCChatGate.tla     # one run
    tlapm ToolLifecycleProofs.tla                          # the proofs of one component

## 1. The system

A NoneBot plugin: chat messages addressed to the bot become *agent runs* that call
language models and tools and answer in the chat. One process is one asyncio event
loop plus worker threads (`asyncio.to_thread`); several processes may share a
configuration directory, a Redis and a PostgreSQL database. Names below are files
of `src/nonebot_plugin_moellmchats/`.

| Component | State it keeps | Operations | What is hard | Module |
|---|---|---|---|---|
| generated tool lifecycle (`generated_tool_lifecycle`, `generated_tools`) | drafts with evidence, immutable versions, active version per bundle, grants | `plan_*`, compensation by snapshot | long command sequences, clocks that go back, compensation of a half-done change | `ToolLifecycle` |
| lifecycle store, runtime reload, snapshots (`LifecycleStore`, `runtime_reload`, `runtime_snapshot`) | one JSON file under `flock`, the published snapshot, its fingerprint, the watcher | compare and swap, atomic replace, reload, generated change, patch | crash between replace and sync, files that change while they are read, stale candidates | `RuntimeReload` |
| chat gate (`chat_runtime`, `admission`, `cooldowns`, `request_manager`, `state_store`) | cooldown per user, slots and waiters, registry of running requests | claim, enter, wait, release, cancel, reset, change limits | cancellation at each await, timeouts, lost wake-ups, limits that change under load | `ChatGate` |
| Redis ports (`redis_admission`, `redis_cooldowns`, `redis_failure_policy`) | leases with expiry in Redis | reserve, activate, heartbeat, release, fallback | lost answers, expiry before the heartbeat, operations that overlap | `RedisGate` |
| agent run (`agent_runtime`, `agent_context_runtime`) | state of a run, in memory and in PostgreSQL | begin, advance, finish | compare and swap against a lost answer, cancellation inside `begin` | `AgentRun` |
| runtime resources (`runtime_resources`, `RuntimeResourceHost`) | active generation, leases per generation, ports | start, reload, lease, close | draining the old generation while new requests wait, candidate rollback, close order | `RuntimeHost` |
| history caches (`history_hot_cache`, `redis_history_hot_cache`) | a window per conversation, load tokens | lookup, publish, invalidate | publishing what was loaded before an append | `HistoryLog`, `HistoryCache` |
| usage and audit spool (`usage_batch`, `audit_batch`, `local_spool`, `spool_worker`) | two queues, a directory of files, leases | put, pump, lease, flush, acknowledge, quarantine, close | threads that outlive their task, unknown commits, crash, drain on close | `UsageSpool` |
| turn of a conversation (`moe_llm`, `llm_api`, `llm_tools`) | round and try, what was tried and what is in doubt | ask, execute calls, answer, retry, summarise | effects that are unknown, repeated calls, limits | `ToolTurn` |
| parallel tools (`tool_scheduler`, `tool_graph`, `parallel_execution`, `trusted_runner_pool`) | plan of a round, tasks, work items, traces | schedule, execute, cancel siblings, close | completion, deadline, cancellation and close race for an item | `ParallelTools` |
| offer of tools (`tool_manager`, `tool_providers`, `tool_catalog_cache`, `tool_schema_cache`) | catalogue of a generation, two caches, blacklist | reload, patch, show, offer, run | caches shared by users with different rights | `ToolOffer` |
| pending actions (`pending_actions`, `redis_pending_actions`, `protocol_broker`) | confirmation codes, failure windows, tombstones | create, confirm, cancel, call | consumed twice, superseded, reloaded in between | `ConfirmedActions` |
| shared answers (`classification_cache`, `protocol_context`, `member_cache`) | an entry and a flight per question | ask, join, keep, clear | late answers, a clear in between, a bot that reconnects | `SharedAnswers` |
| choice of a model (`model_selector`, `model_routing`, `model_routing_runtime`) | lists, settings, the published state | refresh, set a role, reload, choose | a patch between a refresh and its validation | `ModelChoice` |
| execution of custom tools (`tool_execution`, `generated_tool_runner`, `..._isolation`, `..._worker`) | the slot, its queue, a process, a workspace | queue, spawn, confine, watch, collect, clean up | what the tool writes after the last look, cancellation at each await | `IsolatedRun` |
| entry, commands, repositories, MCP, protocol, metrics, API | see the notes in `PROJECT.json` | | | partly in the modules above |

How they interact. A chat message passes `ChatGate` (or `RedisGate`, when Redis is
configured), takes a lease on the generation of its snapshot (`RuntimeHost`) and
drives an agent run (`AgentRun`). Inside the run a model is chosen (`ModelChoice`),
the tools it may use are computed (`ToolOffer`, with answers shared between requests,
`SharedAnswers`), and rounds of model and tools follow (`ToolTurn`), some of them in
parallel (`ParallelTools`), some in a process of their own (`IsolatedRun`), some only
after a confirmation (`ConfirmedActions`). What the run reads of the past comes through
`HistoryCache`, what it spends goes to `UsageSpool`. Administrators change the tools
(`ToolLifecycle`), which `RuntimeReload` publishes as the next snapshot.

What makes each component correct is stated by the properties of section 3; the
hazards that led to them are in `PROJECT.json`, each at its line.

## 2. The modules

### ToolLifecycle

State: `drafts`, `versions`, `active`, `grants` are the four collections of
`LifecycleState`; `undo` is the before state a failed change is compensated with.
An action is one `plan_*` function with its commit, reached through the method of
`GeneratedToolStore` that calls it: its guard is the chain of checks that raise,
its primed variables are `plan.after_state`, and a `no_op` plan stutters. Digests,
identifiers and reasons are model values, evidence is a sequence of its kinds, each
with the time at which it was recorded. The checks of the record constructors
(`__post_init__`), those of the dates of a draft and of its evidence included
(`DatesOK`), are deliberately not guards; `WellFormed` says that they never fail.

`Times` is any set of integers: `time.time()` may go back, and the code's
`_transition_timestamp` is what keeps the stored times ordered.

### RuntimeReload

State: the lifecycle file as read (`visible`) and as it would survive a power
failure (`durable`), the exclusive lock, the order of the edits of configuration
files, and per process the published snapshot, the fingerprint, the running
operation and the watcher. A lifecycle state is the sequence of changes that led
to it, so that revision and digest are its length and its value. Two kinds of
operation hold the asyncio lock of `RuntimeReloader`:

    reload    source -> build* -> observe -> verify -> publish
    change    source -> build* -> observe -> verify -> replace -> fsync -> (resolve)
                     -> project -> publish -> recheck -> refingerprint

A boundary is where the code awaits, or where another process or an editor can
step in between two file operations. Crashes of a process and of the host,
failed reads, syncs and builds are actions with a common bound. `Others` says whether
further processes use the directory: they appear only through the state they commit
(`DraftCommit`), so one process in full and any number of others are still a small
instance.

`missed` is a history variable. A process whose first reload failed has no fingerprint;
if a command reloads it before its watcher has looked once, and another process commits
between that build and the look, the watcher's first fingerprint (`InitFingerprint`,
`runtime_reload.py:846`) is that of the new state, and the process goes on serving the
older one. `LifecycleConverges` excepts exactly the changes lost so, until the next one.

Assumptions: one fingerprint of all the files is read in one step (the tear the
model looks for is between fingerprint and build, and between build and
verification); changes arrive when the start is over; a failing startup reload
leaves the process without a snapshot, as in the code.

### ChatGate

State: the clock, the cooldown store (`values`, `seen`, `owner`), the admission
controllers ever made (`gates`), the registry, and for each request its place in
`handle_llm` and its outcome. Between two real suspensions a request makes one
step. The locks of gate and store are never held over a suspension, so they need
no variable. A waiter of the condition is `asleep` until `notify_all` makes it
`woken`; it evaluates its predicate when it is scheduled again, after others may
have taken the slot. The keys of the cooldown mapping are explicit because the
code uses an integer in one place and its text in another. `claimed` (the clock at a
request's claim) and `excused` (users who were reset) are history variables. The store
drops an entry nobody touched for `TTL` at any later claim; `chat_gate` sets `TTL` to 0,
so that it may do so at each tick.

Assumptions: the in-process store and gate (no Redis); an agent run is one step
that ends well or not; the deadline may pass at any time; a release of a claim is one
step, as it is in memory. The other way in which the store drops entries, its size
(`max_context_sessions`), is not modelled.

### UsageSpool

State: two queues, the spool directory (`files`, `temp`), the database
(`written`), the spool's and the worker's state, the three events, and where the
pumps, the flusher and the supervisor are. `io` holds the spool operation a task
waits for; when the task is cancelled the operation moves to `orphans` and takes
effect later, as `asyncio.to_thread` does. `ambiguous` collects the records of
which a task was told less than what happened; it is a history variable that only
properties read. Disk and database failures, cancellations, crashes and calls of
`close()` are bounded separately.

Assumptions: one spool directory and one generation; the request side hands
over a record once; `close()` itself is not cancelled; queue leases are not
forced. An operation that loses a race against an orphan's temporary file is
counted as a fault.

### AgentRun, RuntimeHost and their composition AgentPlatform

`AgentRun` is the run of a chat request: `run` is the state in memory, `stored` the
status column of its row, `stage` the part of `execute_bound_agent` that is running.
Every transition is a transaction with one of the outcomes of
`PostgresTransactionFactory`: committed, rolled back, cancelled before or after the
commit, the answer lost, the session closed badly. Memory moves only when the whole
call returned; the row moves when the transaction committed and the stored state was
the expected one. `lost` is a history variable: an answer that was lost, or an
exception where no handler is left.

`RuntimeHost` is the resource manager and its host. `res[g]` is the generation `g`,
the set of its open ports and its state; `leases[g]` counts its holders; `queue` is
the FIFO line for the synchronisation lock, whose first member runs `op`: start a
candidate port by port, hand over, drain, close the old one in reverse order, or roll
the candidate back. The ports still to start or to close are a set; the order of
`build` (`PortOrder`) says which is next. The startup task and the shutdown hook are actors like the
requests. A port may fail to start or close, and a task may be cancelled in the line
or while it holds the lock.

`AgentPlatform` joins them: a chat request that is granted a lease enters `begin` in
the same step, works under its lease, and gives it back when its handler is over. A
confirmation command takes a lease too but has no run.

Assumptions: each actor asks once; a request that hangs for ever is cancelled by
its deadline; the reloader publishes at most `MaxGen` snapshots.

### HistoryLog and HistoryCache

`HistoryLog` is the abstract specification: a read returns the newest messages of
a state of the table that contains all that was settled when the read began.
`HistoryCache` is `load_history` and `append_message` over the memory or the Redis
cache: a miss reserves an entry and hands out its token, what is loaded is published
only under that token, an append replaces the entry after its commit, and a
coordinator that cannot know whether its append was followed by an invalidation
stops trusting the cache. `ServesTheLog` is the refinement (`INSTANCE HistoryLog WITH`
the reads mapped to whether they are open, with what they must see and what they
got; `exact` holds of the memory cache only).

`settled` deliberately stops short of two cases the code does not cover: an
append whose commit is interrupted by a cancellation gives neither an invalidation nor
a bypass (contrary to the comment at `agent_context_runtime.py:991`), and one
by a coordinator that trusts its cache no more is not seen by others that share the
key in Redis, until the entry expires. In Redis a short window is served as it is, so
a reader with a larger limit gets fewer messages than there are.

### ConfirmedActions

Three stores of confirmation codes: in memory, in Redis, and the one of the protocol
broker with its rate limiter. An operation on Redis reads TIME in one step and
commits in a later one, whose answer may be lost; the others are one step. `latest`
and `unsure` are history variables: what each caller was shown last and did not use,
and when the calls of a key with an unknown result began, in the order in which that was
learnt. A reload (`SnapshotChanges`) may fall between any two steps: a code is good only
in the generation it was shown for.

A call of a protocol action whose effect is unknown leaves a tombstone under its key:
who asked, for which target, on which UTC date (`RateKey`). Two consequences are kept as
in the code and excepted by `NothingTwice`. The date is part of the key, so the window
ends at midnight although `docs/protocol-tools.md:92` promises it in full. And
`mark_result_unknown` sets the tombstone unconditionally, so a result that is learnt
later but belongs to an earlier call may shorten it (`PassedOver`).

Bounds and omissions: those who call protocol actions are the set `Actors`;
`_MAX_RATE_KEYS`, at which the limiter forgets its oldest keys, the amounts of `like_me`
and `clear()` are not modelled.

### RedisGate

`leases` is the value all processes share, `requests` and `beats` are the `slot()` of
a request and its heartbeat task. Time is relative: a lease carries what is left of
it, an operation the age of the TIME it read last. `Slowest` bounds one attempt of an
operation, i.e. its TIME, WATCH, GET, PTTL and EXEC, each of which may take a socket
timeout; a conflict (`TryAgain`, `RenewAgain`) begins a new attempt with a new TIME, and
the model does not limit how many there are. What EXEC did is decided in the step in
which it is sent, its answer may be lost. With the fallback a request whose operation
failed goes on in the memory gate, and the leases it may have left in Redis stay until
they expire; one flag stands for the two fallbacks. A request that ends in a failure, a
timeout, a cancellation or a rejection, wherever it is, gives its cooldown back
(`unsuccessful`, `GiveBack`), as the handlers of `handle_llm` do. `since`, the age of the
TIME under which a running request's lease was extended last, is a history variable.

So nothing keeps a renewal within the life of a lease. With the defaults a heartbeat of
5 s and five waits of up to 10 s are more than the 30 s that a lease lives. The overdue
holder then runs on beside the one that got its place, until its renewal finds the lease
gone. The number of requests that *run* has no bound in the code; what
`LeasesExclude` says is that those whose own last answer still covers them are never too
many.

Seen while modelling and kept in the model: an operation whose TIME was read before
another process's later write is refused as a state error, which in a heartbeat
cancels the request; a release that fails in the `finally` of `slot()` replaces the
cancellation that led there, so with the fallback a cancelled waiter runs under the
memory gate; `await heartbeat_task` in the same place swallows a cancellation; a lost
answer of `reserve` leaves a pending lease that nobody owns until it expires.

### ParallelTools

A batch (`NextBatch`) is what `tool_scheduler.py` takes from the ready tools, in their
order. The code plans all batches first; the model launches the next one when the one
before has returned, which is the same plan because a plan depends on the graph only. A
call has an invocation task, cancelled with its batch, and a handler in a
worker of the pool; whichever knows the outcome first writes the trace under one
lock. A user may cancel, the deadline may pass, the pool may close at every point.
Assumptions: the event loop delivers a requested cancellation before the task makes
another step; the host closes only generations nobody leases; workers do not die of a
`BaseException`.

### ToolTurn

One conversation: rounds, tries, the offered payload, the calls of a round and the
answers each has. `attempts`, `blocked` and `usage` are the code's memory of what was
tried; `ran`, `burnt` and `doubtful` are the truth as history variables. A round may
hold names the payload does not offer and arguments that do not validate, calls may
fail, time out, be refused or wait for a confirmation. `turn.sent` is what the user has
been sent of an answer: nothing, part of it, or all. A streaming try sends segments as
they come, and one that fails after that is caught (`moe_llm.py:499-504`) and repeated, so
that the next try sends them again; `docs/runtime-architecture.md:212` says that a failed
send is passed on, which holds outside of such a try only. `AnsweredOnce` therefore does
not promise one answer: it says that after the first segment no tool is carried out any
more. Retry notices, messages of progress and confirmation texts do not count as an
answer. Also kept as in the code: an outer timeout forbids only the same arguments; an
answer that was sent may not be stored.

### ToolOffer

An inventory is what the six sources contribute to a generation; `Publishable` is what a
reload accepts, `LegacyClosure`, `ProviderClosure` and their like are the two ways the
code computes the same thing and compares once a day. The breadth-first walk over the
dependencies is stated by its result, the least set closed under them (`Closure`). A
request is pinned to the
settings it was admitted with; the blacklist command patches the current ones within
the generation, so requests that differ in user and settings share two caches.

What the model is shown is the brief catalogue: one row for each feature of a plugin, in
the order of the catalogue, without the hidden features unless the user is a superuser,
cut where `MAX_DISCOVERY_CATALOG_CHARS` is reached. `rows` holds the features of an
inventory in order, and `MaxRows` is that limit counted in rows. A plugin without a row
left is not shown, but may still be offered when it was selected or is resident. An
intent is refused when it is hidden, ambiguous or belongs to no loaded plugin
(`OwnsIntent`). Kept as in the code: a reload accepts a dependency on a builtin tool, for which the two
closures differ, so the first selection of each day fails; a tool barred while it
awaits its confirmation is still run when it is confirmed within its generation.

### SharedAnswers

The three caches that let several requests wait for one flight, followed for one key.
`cleared` is a history variable. The `clear()` of the classification cache is called by
tests and by embedders only. The `finally` of `MemberNameCache` may remove a newer flight
than its own, so names are excepted from "one flight at a time".

### ModelChoice

The list of models, the settings, the files, the published state, and the reload
that reads them, against the requests that keep what they were admitted with. Between
`fetch_models_from_providers` and the reload that validates the new list, every setter
publishes the list unvalidated (`_write_config` patches both); `mixed` marks such a
state, in which requests may fail, and the property excepts it.

### IsolatedRun

A custom tool is awaited, run in a thread, or run by a process behind seven fences, put
up in the order of the launcher and the worker. One process at a time holds the slot.
Kept as in the code: a thread of a read-only tool goes on after its timeout; a
directory may stay behind when a call is cancelled while it is being prepared or
removed. Assumed: the fair semaphore of Python 3.11 and later. What the kernel makes of
each fence is outside.

### PlatformServices

The ten services above that share no variable, side by side, in one run. A step of
one never changes another's variables, so nothing depends on how they interleave: each
behaviour picks one service (`focus`) and keeps the others at an initial state. Every
behaviour of every service is among them, and the state space is the sum of the ten and
not their product. `ServicesTypeOK` collects their type invariants, which also bound
the caches, queues and stores.

`ChatGate` treats a run as one step, `AgentRun` is that step opened up; `RuntimeReload`
treats a change of the lifecycle as one symbol, `ToolLifecycle` says what it may be;
`ToolTurn` treats a parallel round as one step, `ParallelTools` opens it.

After an isolated call that was cancelled while its clean-up ran,
`isolation_status` stays at `unavailable:isolation-startup`.

## 3. The runs

| Run | Instance | What it shows |
|---|---|---|
| `reload_processes` | 2 processes, 1 file, 1 change each, 1 edit, 1 fault | `AckedSurvives`: a change that was reported as done is still there after any crash; `OnlyCommittedServed`: no process serves a state that was not committed; `NeverBackwards`: nor an older one than before (2.0 M states under symmetry) |
| `reload_files` | 1 process and others that commit, 2 files, 2 changes, 2 edits, 1 fault | `NoTornCandidate`: no snapshot mixes two contents of the files; the liveness property `LifecycleConverges`: a process comes to serve the state on disk, whoever committed it, but for a change its watcher's first fingerprint hid |
| `reload_config` | 1 process, 1 file, no fault | violated: `ConfigConverges` (finding 1) |
| `chat_gate` | 3 requests of 2 users, two of them 1 second apart under a cooldown of 2, 2 settings | counts equal the requests they count, nobody sleeps who could run, a cooldown is held and given back, and only by its owner; the store may drop an entry at each tick (625 k states) |
| `chat_gate_expiry` | cooldown 3, retention 1 | violated: `CooldownIsFull` (finding 2) |
| `chat_gate_reset` | 1 user whose event carries a number | violated: `ResetClears` (finding 3) |
| `usage_spool` | 1 queued and 1 direct record, capacity 1 of everything, 1 fault, 1 crash, 1 cancellation, 2 closes | `AtMostOnce`, `Accounted`, `ClosedIsDrained`, `QuarantineHolds` (1.4 M states) |
| `spool_close` | no fault, crash or cancellation | violated: `UndisturbedCloseDrains` (finding 4) |
| `spool_twice` | 1 cancellation, 1 crash, no fault | violated: `NeverWrittenTwice` (finding 5) |
| `agent_platform` | 1 chat request, 1 confirmation command, start and shutdown, 2 generations, a database port that may fail to start and to close, 1 round | `LeasedIsOpen`, `NothingLeaks`, `NeverBehind`, `MemoryTrails`, `EndedUnlessLost`, `StoredForward`, and the liveness property `EveryoneLeaves`; free of deadlock (239 k states) |
| `agent_runs_end` | the same | violated: `EveryRunEnds` (finding 6) |
| `platform_services` | the ten services, see below | one or two properties of each service and the refinement `ServesTheLog` (1.0 M states) |

`platform_services` by focus:

| Focus | Instance | States | Property |
|---|---|---|---|
| lifecycle | 2 drafts, 1 bundle, 2 digests, 2 clock readings | 163 k | `WellFormed`, `ReviewedProvenance`, `DecidedDraftsFrozen`, `ArchivedIsFinal` |
| history | 2 readers with windows 1 and 2, 2 coordinators, 2 messages, both backends | 110 k | `ServesTheLog` |
| actions | 2 handlers, 2 callers, one of whom asks for protocol actions, 2 codes, 1 failure allowed, 1 tick, midnight or reload, all three stores | 157 k | `NothingTwice` |
| gate | 2 requests of one user, 1 place, a lease of 4 ticks, attempts of up to 1 and any number of them, with and without fallback | 130 k | `LeasesExclude` |
| parallel | 3 calls, one of which needs another, 3 workers | 187 k | `ToldAsTraced` |
| turn | 2 rounds, 2 tries, tools of three routes | 51 k | `AnsweredOnce` |
| offer | 2 requests (a user, a superuser), 2 settings, 2 inventories, 5 rows of a catalogue, caches of 1 entry | 76 k | `OffersWhatItMay` |
| answers | 2 askers, 2 flights, 2 sessions, the three caches | 28 k | `AnswersShared` |
| models | 1 request, 3 models, 2 lists, all four routing modes | 98 k | `FitModel` |
| runs | 3 calls, one slot and one place in its queue, every way of execution | 32 k | `ToolsContained` |

Why the bounds are enough. In the lifecycle two drafts and two digests give a
predecessor and a successor of every activation, the same digest from two drafts, and a
rollback target; two clock readings give every order of a new time and an old one,
and the proofs of section 4 cover every set of integers. Two processes and a change
each give the conflict of two commits and a reload that crosses it; a second file
gives a torn read. Three requests with one or two slots give a holder, a waiter and
one more that is rejected, barges in or changes places when the limits do. In the
spool a full queue, a full batch and a full directory all occur at one record; two
records give one of each kind, which is what the two scans of the flusher
distinguish. On the platform two generations give one that is drained while the next
has requests already; who waits for whom needs no third actor beside start and
shutdown, and the safety properties are proved for any number. In the services every
bound is the least at which its limit is reached and passed: a cache that has to
evict, a queue that is full, a code that is superseded, a second try, a lease that
expires while an operation is on its way. Faults are single or bounded by the clock:
an interplay that needs more independent failures than that is outside the runs.

Every property has a mutant: an operator with the change a slip in the code would
make, named in `PROJECT.json`, under which TLC finds the property violated.

Deadlock is checked everywhere but in `UsageSpool`, where a closed worker whose bounds
are used up stops, and in `PlatformServices`, whose services may run out of work. In
`AgentPlatform` a step `Done` exists only when every actor is done, so that the check
finds every set of actors that wait for one another.

### Fairness

`RuntimeReload`: weak fairness of `Proceed` says that a running coroutine and its
threads go on; weak fairness of `StartWatcher` that a created task is scheduled.
Strong fairness of the three watcher steps says that the watcher, which polls every two
seconds and waits in the FIFO queue of the asyncio lock, gets its turn when it is
possible again and again. Nothing is assumed of edits, commands, crashes or failures.

`AgentPlatform`: weak fairness of `TaskStep(a)` for every actor: the event loop runs a
task that can go on, the lock is FIFO, and the body of a run ends because its rounds are
bounded and its deadline cancels it (`chat_runtime.py:163`, `compat.timeout`). Nothing
is assumed of arrivals, publications or cancellations. Without the deadline
`EveryoneLeaves` would be false: a reload waits for the leases of the old generation
and everybody else waits for the reload.

The other modules state safety only: the gate promises no order, the deadline of a
request bounds its wait, and the services' own waits are bounded by timeouts that the
models let fire at any time.

### Findings

1. `ConfigConverges` (`runtime_reload.py:662`): after publishing a change the
   fingerprint is read from the present files, not from those the candidate was
   built from. An edit in between is never reloaded (until the next one).
2. `CooldownIsFull` (`state_store.py:117`): the cooldown store forgets a user
   after `user_history_expire_seconds`, whatever `cd_seconds` is. `CooldownHolds` states
   what is left of the cooldown.
3. `ResetClears` (`__init__.py:973`): the reset command clears the key of the
   textual id, `handle_llm` claims the integer.
4. `UndisturbedCloseDrains` (`spool_worker.py:567`): `ingest_done` is read after
   both scans; a file that arrives between them is left and `close()` fails. If the
   database port has been disposed of by then, a second `close()` cannot drain it.
5. `NeverWrittenTwice` (`spool_worker.py:268`): a cancellation while the session
   of a confirmed commit is closed looks like a rolled back transaction.
6. `EveryRunEnds` (`chat_runtime.py:163`): `begin` writes the row and advances it twice
   before the handlers that would finish it are in place, and a lost answer leaves the
   memory behind the row, so that every later transition fails.

`AtMostOnce` and `ClosedIsDrained` are stated so that they hold: they except the
records in `ambiguous`, i.e. those of an append or commit whose task was told
less than what happened. The exception is not empty room: finding 5 is in it, and
so are a cancelled append whose thread goes on and an append that fails after
its rename. The first property says that nothing else is written twice. In the same
way `EndedUnlessLost` excepts `lost`, in which finding 6 is, and `LifecycleConverges`
excepts `Missed`: a commit between what a process serves and the first fingerprint of its
watcher is never reloaded, contrary to `docs/configuration.md:636`,
`docs/commands.md:139` and `docs/README.md:74`, which promise convergence without
exception.

Seen while modelling, kept in the models as the code has them, and contradicted by no
document: one port that fails to close makes the manager FAILED, and every later
request is refused until the process restarts; a custom tool that only superusers may
use passes its dependencies on to the closure of a request that may not use it; the
setters of `ModelSelector` patch the snapshot, which makes a reload that is under
way fail its compare and swap; further ones are named at their modules in section 2.

## 4. The proofs

TLAPS proves the following for every value of the constants.

`ToolLifecycleProofs`, for arbitrary sets of drafts, bundles, digests, tools,
approvers and integer clock readings:

* `TypeCorrect`: `Spec => []TypeOK`
* `NeverCorrupt`: `Spec => []WellFormed`
* `AlwaysReviewed`: `Spec => []ReviewedProvenance`
* `DecisionsFrozen`: `Spec => DecidedDraftsFrozen`
* `ArchivesFinal`: `Spec => ArchivedIsFinal`

The argument. `WellFormed` alone is not inductive: `RestoreSnapshot` puts back
the state before the last plan, so the invariant must say the same of `undo`; and
an approved draft must have its version for re-activation to find it, and a
version its draft for provenance to survive. The inductive invariant `IInv`
states types, consistency and provenance of the current state and of `undo`. Each
action has a lemma: from a consistent state it builds a consistent one. The
evidence of a draft is one of a few short sequences per state (`EvidenceOf`), so
one lemma says what appending to such a sequence gives and two that each of them
is what `EvidenceOK` demands. Assumptions: only the typing of the constants
declared in `ToolLifecycle`.

`RuntimeHostProofs`, for any finite set of requests, any settings, any ports that
fail, any number of generations (`HostAssumption`, `PlatformAssumption`):

* `LeasesAreServed`: `Spec => []LeasedIsOpen`
* `PortsAreKnown`: `Spec => []NothingLeaks`
* `ChatsInOrder`: `Spec => []NeverBehind`

The argument. That a leased generation is open follows from three facts that hold each
other up: only the holder of the lock opens or closes ports, and only of the generation
its work is about (`LockInv`, `PhaseInv`); a lease is on the active generation or,
while it is drained, on the one before (`OpenInv`); and a count of zero means that
nobody holds a lease (`CountInv`, by the cardinality of the set of holders), which is
what lets a drain end. `NeverBehind` rests on `LineInv`: the line is sorted by snapshot
as far as chat requests are concerned, although a confirmation may join it late with an
old one. Three lemmas say how the line changes (`HeadLeaves`, `LineGrows`,
`WaiterLeaves`), two how the holder leaves (`HolderRaises`, `HolderReturns`), and one
per action that it keeps `HInv`.

`AgentPlatformProofs`, for the runs on top of it, for any number of rounds:

* `PlatformTyped`: `Spec => []TypeOK`
* `RowsFollowMemory`: `Spec => []MemoryTrails`
* `RunsEnd`: `Spec => []EndedUnlessLost`
* `RowsMoveForward`: `Spec => StoredForward`

The argument. `RowInv` ties the row of one chat to its memory and its stage: equal, or
one transition ahead when an answer was lost. The host enters in one lemma,
`RunMoves`: a step of the platform moves one run or none. One lemma per kind of
transition shows where the row and the memory go, and `OneMoves` that the other chats
stay.

`ChatGateProofs`, for any finite set of requests, any users and keys, any settings and
any times (`ConstantsAssumption`):

* `TypeCorrect`: `Spec => []TypeOK`
* `CountersMatch`: `Spec => []GateCountsMatch`
* `NobodyOversleeps`: `Spec => []NoLostWakeup`
* `ClaimsGivenBack`: `Spec => []CooldownGivenBack`
* `ReleasesAreOwn`: `Spec => NoForeignRelease`
* `CooldownsHold`: `Spec => []CooldownHolds`, and its corollary `FullCooldown`: the cooldown
  is full as long as no two claims are further apart than the store keeps an entry

The argument. `RegistryInv` says that one controller at a time is in use: a change of
the settings makes a new one only when the old one is empty. `GateInv` says that its
counters are the cardinalities of the sets of requests that wait in it and hold a slot
of it; `Full`, that a request sleeps only while the controller would refuse it. Each of
the five ways a controller changes (`Sleep`, `Take`, `Resume`, `Quit`, `Free`) has a
lemma about those sets. `ClaimInv` says that whoever owns a claim made it and has not
failed. `WinnerInv` is what makes the cooldown hold: the claims granted to one user are
a cooldown apart unless a later one failed, and either the claimed time of the store or
a failed message stands in for all the older ones, or the store has dropped them. The
store forgets what nobody touched for `TTL`, so for two claims no further apart than
that, the claimed time is still there: this is the exception `ForgottenByStore`, and why
the theorem needs no bound on the time. Times of messages need not arrive in order, and
a release stores 0 over the claims before its own (`cooldowns.py:195`), so that an older
message can be answered after a newer one failed: the exception `ForgottenByFailure`.

`RuntimeReloadProofs`, for any sets of processes and files, any number of changes,
edits and faults, and crashes (`ConstantsAssumption`):

* `TypeCorrect`: `Spec => []TypeOK`
* `AcknowledgedSurvives`: `Spec => []AckedSurvives`
* `ServesCommitted`: `Spec => []OnlyCommittedServed`
* `CandidatesCoherent`: `Spec => []NoTornCandidate`
* `PublishesForwards`: `Spec => NeverBackwards`

The argument. `LifeInv` follows the lifecycle state: what is durable is a prefix of what
is visible, so is what is published and what an operation started from, the file a
process has replaced stays the visible one while it holds the lock, and past the sync
its change is durable. `ConfigInv` follows the
configuration: what an operation has built so far lies, file by file, between the
fingerprint it started from and the files as they are now, so that two equal
fingerprints squeeze everything in between to one version. Both are stated per process
and per step of its operation, because between two steps everybody else may have moved.

`UsageSpoolProofs`, for any records, kinds and capacities, any number of faults,
crashes, cancellations and closes (`SpoolAssumption`):

* `TypeCorrect`: `Spec => []TypeOK`
* `WrittenOnce`: `Spec => []AtMostOnce`
* `NothingLost`: `Spec => []Accounted`
* `ClosesDrained`: `Spec => []ClosedIsDrained`
* `QuarantineKept`: `Spec => QuarantineHolds`

The argument follows a record on its way: in its request or its queue, in one file, in
the database. `OnceOK` says that a record no task lost track of has one copy on that way
and none once it is written, `KeptOK` that it has one or the other. To keep them one
must know who waits for the operation in flight and what that operation is about
(`IoOK`), what a thread that outlives its task may still do (`OrphansOK`) and that the
leased file is the one the flusher means (`LeaseOK`); `ClosedOK` says what the closing
worker has found empty.

`HistoryCacheProofs`, for any set of messages, finite set of readers, windows and
coordinators (`HistoryAssumption`):

* `HistoryTyped`: `HistorySpec => []HistoryTypeOK`
* `CacheServesTheLog`: `HistorySpec => ServesTheLog`, the refinement

The argument. What the cache holds and what a reader is about to publish is the newest
part of some past state of the table (`Shows`); whoever may still be served from it
finds in that state everything that was settled when it asked (`Covers`). `LogReads`
and `LogWrites` are the two ways in which a step of the cache is a step of `HistoryLog`,
`CacheMoves` and `CacheCleared` say how the entry changes. A lemma says that the newest
`n` of the newest `k` rows are the newest of all: what makes a short window an answer.

`PlatformServicesProofs`, for any tasks, callers, tools, flights, models, settings, calls
and limits (`ActionAssumption`, `TurnAssumption`, `AnswersAssumption`,
`ModelsAssumption`, `StepsAssumption`, `AboutAssumption`, `RunAssumption`,
`GateAssumption`, `ToolAssumption`, `OfferAssumption`, `HistoryAssumption`: the limits
are numbers, the lists of models not empty, the quality of a model no more than
`MODEL_ROUTING_MAX_QUALITY_SCORE`, `model_routing.py:28`; no provider says of a builtin
tool who may use it, nor that a search changes anything):

* `NothingIsDoneTwice`: `ServicesSpec => NothingTwice`
* `TurnsAnswerOnce`: `ServicesSpec => AnsweredOnce`
* `AnswersAreShared`: `ServicesSpec => []AnswersShared`
* `ModelsFit`: `ServicesSpec => []FitModel`
* `ToolsStayContained`: `ServicesSpec => []ToolsContained`
* `OffersAreRight`: `ServicesSpec => []OffersWhatItMay`
* `RepliesAreTraced`: `ServicesSpec => ToldAsTraced`
* `ServicesTyped`: `ServicesSpec => []ServicesTypeOK`
* `LeasesStayExclusive`: `ServicesSpec => LeasesExclude`

The argument. Each of these services has an invariant over its own variables, and
`OneServiceSteps` says that a step of the whole is a step of one service and leaves the
others as they are. `ActionInv`: only the newest code of a caller is stored, no two
callers have the same one, and the calls of a key whose result is unknown are within
their tombstone, or a later learnt one of an earlier call is over (`WindowKept`). `TurnInv`: what is in
hand has no answer yet and has not failed (`InHand`),
and the memory of the turn knows of everything that failed or is in doubt and has
counted every call that ran (`Recalled`). `AnswersInv`: a flight has the epoch and the
bot object of the present only if it began after the last clear and the last
reconnection (`FlightsDated`), and the one that answers a question asked now is the one
its callers find (`OneFlight`), so a request that joins a flight gets what it asked for.
`ChoiceInv`: every role but that of the vision model names a listed model in each
snapshot a reload has validated (`Sound`); `BestIsBest` shows, from the lexicographic
rank, that the chosen model is beaten by no other one. `RunInv`: the slot is held by
exactly one call that is on its way (`SlotHeld`), the queue holds every call that waits,
once (`QueueKept`), a process lives only for a call that runs and its code runs behind
its fences (`ProcHeld`), and what a call leaves behind is a thread only of a function
that changes nothing and a directory only if it was interrupted (`CallLeaves`).
`PassesOn`, `EntersSlot` and `WaiterLeaves` are the three ways in which the slot and the
queue change; `HeadLeaves` and `WithoutOne` say what is left of a queue without
repetitions when its first or any other element leaves.

`OfferInv`: every generation was published by a reload that accepted it
(`CatalogsRead`), every record of a cache is what the snapshot named by its key says, no
matter which request stored it and under which settings (`CachesTrue`), and what a
request has read so far is what its own pin says (`TurnTrue`). `CatalogFacts` gives what
`Publishable` means for the sets of names; from it follow that both views of the brief
catalog agree and that what the closure adds and the filter keeps is usable.

`ToolInv`: each call of a round is consistent by itself (`CallOK`), and the round adds
only which batches are over (`RoundOK`). The heart of `CallOK` is why a second trace
never contradicts the first: an item whose invocation has turned away is already
cancelled, so what its handler traces later, and what the invocation says, is
"cancelled" both times (`ItemOK`); only the holder of the lock may write (`TraceOK`),
and a call that returned has been traced as completed (`InvocationOK`). `Follows` is
what no step of a call takes back, `MovesKeep` carries it to the round.

`ServicesTyped` follows from these invariants; only the stores of the confirmations
(`ActionBounded`) and the count of commands (`CommandsCounted`) need a step of their own.

`GateBase` says of the Redis gate how old an attempt, a wait and a heartbeat can be.
`LeasesFit` says two things of the value in Redis. A running request that is still covered
by its last answer owns an active lease in it, which has at least as much left as that
answer promised (`Beating`); and the active leases, those included that are already over
and wait to be pruned, respect the limits for whoever looks with the present TIME
(`Narrow`). So the covered requests are no more than the active leases an activation
counts (`EntitledAreFew`). No relation between the heartbeat, the timeouts and the life
of a lease is needed, because a request that is overdue is not covered. `PickedFacts`
counts what a filter keeps by the positions of what it keeps.

Model-checked only: liveness (`LifecycleConverges`, `EveryoneLeaves`), because the prover
does not reason about ENABLED. The order of the tools in a round is a recursive function
over sets of tools, of which the proofs need nothing: they hold for any batches of tools
that are ready.

## 5. Not modelled

* What language models, tools and MCP servers answer; prompts, parsing and
  rendering; the contents of messages and records; what a summary says.
* SQL, schema and migrations: a transaction is an atomic effect with an outcome.
  A session summary is one compare and swap within such a transaction.
* `ast_policy.py` is a list of syntactic rules without state; what the kernel makes
  of namespaces, filters and limits is outside.
* The sessions and processes of MCP servers; the search for tools.
* Long-term memory (`long_term_memory.py`): one stateless read. The plugin ships the
  protocol of a retriever and no implementation; the service checks the matches it is
  given (scope, order, limit, relevance, validity) and keeps those that fit the budget.
* The platform API and the administration pages: projections of state that the
  components own; metrics and logging.
* The parsing and wording of commands.
* The migration of legacy lifecycle files, and tampering with private files.
* A restart or a failover of Redis that loses keys.
* In the modelled parts: see the assumptions of each module above and the notes of
  `PROJECT.json`.

## 6. What is left to do

1. More about what is proved: abstract accounts of the usage spool (a record is written
   once, or kept) and of a chat request, as refinements; the order of a round.
2. Long-term memory, once the plugin has a retriever with state of its own.
3. A restart of Redis under the gate and under the confirmations.
