# A TLA+ development of the otari gateway, the mcpd daemon and any-agent

The repository bundles several programs. This directory holds TLA+ models of three of
them: **otari** (an LLM gateway in Python), **mcpd** (a daemon in Go that runs MCP
servers) and **any-agent** (a Python library that runs agents of six frameworks and serves
them), the TLC configurations that check the models on small instances, and TLAPS proofs
about the parts that keep state. All models are written from the code;
`PROJECT.json` (`map`) gives, for every definition, the lines it stands for.

## 1. The system

| part | where | state it keeps | operations |
|---|---|---|---|
| otari budget ledger | `src/otari/src/gateway/services/budget_service.py`, `api/routes/users.py`, `budgets.py` | a row of `users` (spend, reserved, budget_id, next_budget_reset_at, ...), `budgets`, `budget_reset_logs` | reserve_budget, increase_reservation, reconcile / refund_reservation, lazy reset, admin CRUD |
| otari request pipeline | `api/routes/_pipeline.py`, `chat.py`, `messages.py`, `responses.py`, `streaming.py` | one coroutine per request, a ReservationHandle, the `settled` flag of a stream | reserve, normalise and top up, dispatch, stream, settle |
| otari hybrid mode | `api/routes/_platform.py`, `_pipeline.py`, `streaming.py` | the resolved route, the lock-in flag, pending error reports, background tasks | resolve, walk the attempts, tool rounds, post usage reports |
| otari usage-log writer | `services/log_writer.py` | an asyncio queue, a flush task | put, collect, flush, stop |
| otari rate limiter | `rate_limit.py` | a deque of timestamps per user, a call counter | check, sweep |
| otari keys and users | `api/deps.py`, `api/routes/keys.py`, `users.py`, `services/bootstrap_service.py` | `api_keys`, `users` | authenticate, create, update, delete, bootstrap |
| otari files | `api/routes/files.py`, `services/file_service.py`, `file_store.py`, `content_normalizer.py`, `vision.py` | `file_objects`, blobs on disk | upload, list, download, delete, expire, attach |
| otari side routes | `api/routes/{embeddings,images,audio,moderations,rerank,batches}.py` | a handle per request, temporary files, batch jobs | reserve, call, log and settle in one handler |
| otari guardrails and tool loops | `services/guardrails.py`, `mcp_loop*.py`, `mcp_client.py`, `sandbox_backend.py`, `web_search_backend.py` | the conversation, the iteration count, backends and sessions | evaluate, one round of calls per answer, open, close |
| otari prices and models | `services/pricing*.py`, `model_discovery_service.py`, `api/routes/{pricing,models}.py` | `model_pricing`, the discovery cache | set, delete, load at boot, look up, list |
| otari configuration | `core/config.py`, `services/url_safety.py`, metrics | settings, counters | parsing, look-ups |
| mcpd daemon | `src/mcpd/internal/daemon/daemon.go`, `client_manager.go`, `health_tracker.go`, `cmd/daemon.go` | the client manager, the health tracker, runtimeServers, reloadState, child processes | boot, ping, SIGHUP reload, shutdown |
| mcpd plugins | `src/mcpd/internal/plugin/` | plugin processes, categories | request and response flows, start and stop |
| mcpd API server | `internal/daemon/api_server.go`, `internal/api/` | none of its own | reads the two registries, calls tools |
| mcpd configuration | `internal/config`, `internal/context`, `internal/registry` | TOML files, registry caches | edit, compare, look up |
| any-agent runs | `src/any-agent/src/any_agent/frameworks/any_agent.py`, `callbacks/wrappers/` | contexts by trace id, wrappers on the framework's functions, traces | run_async, wrap, unwrap, update the output type |
| any-agent adapters | `frameworks/*.py`, `vendor/`, `callbacks/span_generation/` | a framework's message history, spans | build a request, merge a stream, fill a span |
| any-agent tools | `tools/`, `frameworks/*.py` | MCP connections, the agent's output type | load, update, clean up |
| any-agent serving | `serving/`, `tools/a2a.py` | contexts, the agent's list of callbacks | execute, expire, serve over MCP |
| encoderfile | `src/encoderfile/` | a binary container, tensors | build, run inference |
| telemetry server | `src/server_telemetry.py`, `genetic_budget_engine.py`, `socket_bridge.py` | a tailed log, a budget ceiling, a failover choice | poll, scan, evolve |

How they interact. In standalone mode a request of otari is authenticated by its key, passes
the rate limiter of the key's user, pre-debits its estimate on the ledger (`users.reserved`),
has its attachments looked up among the user's files, calls the provider (through a tool loop
when it brings tools), puts a usage row on the log writer's queue and settles on the ledger:
one charge (`reconcile`) or one refund. In hybrid mode there is no ledger; a platform resolves
the request to a list of attempts, the gateway walks them, and every outcome is reported over
HTTP. In mcpd, three threads of control share the client manager and the health tracker (the
boot goroutines, the health loop and its pings, the main loop that runs reloads), and a signal
handler talks to the main loop through a flag and a channel of capacity one. In any-agent,
runs of one agent share the framework's agent object, which the first run wraps and the last
unwraps, its list of callbacks, to which the A2A executor adds its own, and its MCP
connections.

What is hard. Budget statements of concurrent requests and admins interleave, each on
values read earlier, without a lock held; so do administrators of keys. A coroutine can be
cancelled, or its client can go, at every await, and which handlers then run is decided by
`except Exception`, `except BaseException`, generator finalisers and a flag. The commit of a
settling statement may take effect although its answer is lost; a row and its blob are written
by two statements. Usage reports go out on three channels, are retried, and may be recorded
twice. Three wire formats carry usage in different places of a stream, and six frameworks take
an answer apart in six ways. In mcpd a reload may overlap boot, a ping or a shutdown; processes
fail to start, answer or close. In any-agent, wrappers are put on objects that an update may
replace while they are on. The places where this bites are listed in `PROJECT.json`
(`hazards`), each with the properties that watch it.

What makes each part correct, in one line each:

* ledger: `reserved` is the sum of the holds that are in the row, but for what a lost answer
  made the code give back twice; spend plus holds stays under the cap but for what was never
  pre-debited and for that; a period is reset once;
* request pipeline: a hold is ended exactly once, by a charge when something was served and
  by a refund when not; the bill is the usage the provider reported;
* hybrid mode: the platform has one record per attempt, and the right one; tools do not run
  twice; reporting neither blocks the answer nor goes on for ever;
* log writer: every row is committed once or lost to a failed flush, never forgotten;
* rate limiter: at most rpm requests in any window, and who waits as told is let through;
* keys: a deleted user's keys do not work, unless one came about while the user was deleted;
* files: a listed file has its bytes, bytes have a row, a request sees its own user's files;
* side routes: the same as the pipeline, and no temporary file or batch is left behind;
* tool loops: guardrails have the last word, each call of a model is answered once, in its
  place, usage of the rounds adds up, what was opened is closed;
* prices: what is shown is what is billed; what an admin was told is billed from then on;
* daemon: what is served is what the configuration last loaded says; every process is
  accounted for; a signal is neither lost nor able to wedge the daemon; shutdown terminates;
* agent runs: a trace is its own run's; wrappers come off and do not stack up;
* adapters: the calls that arrive are the calls the provider means;
* tools and serving: no open connection is forgotten; an event reaches its own task.

## 2. The modules

| module | models | composed by |
|---|---|---|
| `BudgetLedger` | one user row, the tables around it, all handlers that write it | |
| `SettlementContract` | what one request promises about its hold (abstract) | refined by `RequestSettlement` |
| `RequestSettlement` | one standalone request, its handlers and stream generator, in three formats | `Gateway` |
| `PlatformFallback` | one hybrid request, its attempts and its reports | `Gateway` |
| `UsageLogWriter` | `BatchLogWriter` | `Gateway` |
| `Gateway` | a process in either mode, from a request to the end of its lifespan | |
| `UserKeys` | keys, users, bootstrap, authentication | `Access` |
| `RateLimiter` | `RateLimiter.check` and `_cleanup` | `Access` |
| `UserFiles` | files, blobs and attachments | `Access` |
| `Access` | what a request is let in by, and lets it have | |
| `SideRoutes` | the routes that settle by themselves, and batches | |
| `ToolLoop` | guardrails, six tool loops, three backends | |
| `ModelCatalog` | prices, boot, billing look-ups, discovery cache | |
| `DaemonLifecycle` | boot, health loop, reload and shutdown of mcpd | |
| `AgentRun` | overlapping runs of an agent and their wrappers | |
| `ChatAdapters` | six adapters between a framework and a provider | |
| `AgentTools` | an agent's tools, connections and output type | |
| `A2AServing` | an agent served over A2A and MCP | |
| `BudgetLedgerProofs`, `GatewayProofs`, `AccessProofs`, `SideRoutesProofs`, `ToolLoopProofs`, `DaemonLifecycleProofs` | the theorems of section 4 about the module of that name; those about `ModelCatalog` are in `BudgetLedgerProofs` | |
| `AgentProofs` | the theorems about `AgentTools`, `A2AServing`, `AgentRun` and `ChatAdapters` | |
| `LibraryLemmas` | lemmas about operators of the community modules, for the proofs | |
| `MC*` | values, symmetry and the constraints of section 3, for TLC | |

**BudgetLedger.** A handler holds no lock between its statements, so `reserve_budget` is
three steps: `StartReserve` reads the user (and raises for a missing or blocked one),
`ReadBudget` reads the budget row, and `Gate` is the conditional UPDATE, or `CasReset`
followed by `Gate` when the period is over. `seen` carries what a step read to the step that
uses it: staleness is in the model, not assumed away. `increase_reservation` is a second
pass through the same steps (`StartTopUp`), its rejection leads to `Refund` as in the
pipeline. Any statement may fail (`ReserveFails`), and a conditional UPDATE may have been
committed all the same: then the units are in the row and no handle knows of them. `Reconcile`,
`Refund`, `SettlementLost` and `BillSideCall` are the settlements; one that was committed may
still raise (`Settled`), which leads to pc "unsure" and to a refund of the same handle, as in
`run_standalone_non_stream`. Each admin endpoint is one action; `DeleteUser` is the soft delete, `ReviveUser` is
`create_user` on a deleted row, which zeroes spend and keeps `reserved`. Money is counted in
whole units. History variables: `taken` (what a handle put into the row and has not given
back; nothing when an uncapped reservation was granted by an UPDATE that matched no row),
`orphaned` (what went in without a handle), `excess` (what was given back twice), `exposure`
(what was spent without a capped hold) and `highCap`. The properties compare `reserved` and the
cap with what is really outstanding, not with the column alone.

**SettlementContract / RequestSettlement.** `pc` names the await or yield a coroutine is
suspended at. Faults are named in a constant so that a configuration says which failures a
promise survives: a disconnect in mid-stream, an early one (the response exists, its
generator was never started), a cancellation at any other await, a settling statement that
fails or whose commit is not seen, a raising log write, a selector that cannot be resolved, a
guardrails service whose answer is no JSON object (a `TypeError` past the only handler).
The generator's `settled` flag, its `except CancelledError`, `except Exception` and
`finally` blocks are the targets of those steps. What a chunk tells of the usage depends on
the format: `MergeUsage` is chat's last-one-wins, the Messages merge of input and output
parts, and the Responses total of the final event. `Hold` and `Bill` map the state to the
contract; `KeepsContract` is the refinement until a mishap, its fairness included.

**PlatformFallback.** `Walk` is `run_platform_attempts` and its streaming counterpart: call,
fail, classify, fall through or give up, lock in after tools have run or after the first
chunk. A failed attempt's report is queued as a background task *and* kept pending for the
inline flush, as in the code; a post in flight carries its channel, try and backoff. A
cancellation of a non-streaming attempt is `CancelAttempt`, since `except BaseException`
catches it; elsewhere it is `CancelQuietly`. An attempt whose provider any-llm does not know is
`UnknownProvider`: the `ValueError` is raised before the `try` and is no `HTTPException`, so what
was queued and pending for the attempts before is dropped. `MaxTries` is `usage_max_retries`; 0
posts nothing.

**UsageLogWriter.** A batch is collected in one step (nothing awaits between the pops); the
flush is where puts, `stop` and failures come between. A failing commit may have taken
effect.

**Gateway.** The configuration decides which half serves. The two halves are instances over
the same `pc`, `format`, `answer` and `mishaps` (one coroutine), and each has its own
remaining variables. `Serve` is a step of the standalone half in which a row that appears in
`rows` is put on the writer's queue in the same step, as `log_usage` does; other requests'
rows come in between; `EndLifespan` is the application's shutdown, after the last request.

**RateLimiter.** The real deques with integer timestamps, `TicksPerSecond` ticks to the
second so that `math.ceil` of Retry-After rounds. A check is one step: it does not await.

**UserKeys.** An administrator, or a replica that boots, reads (`CreateKey`, `UpdateKey`, ...:
each keeps what it loaded in `op`) and commits later (`Commit`, or `CommitFails`); the commit
writes the columns that differ from what was loaded, as SQLAlchemy does. `delete_user` is three
steps, since it awaits its UPDATE of the keys before the commit: `DeleteUser` reads,
`RevokeKeys` is the UPDATE, which sees the keys committed by then and locks their rows, and the
commit. At READ COMMITTED a key that another task commits between the last two is not among
them. A request looks its key up and, when the last mark is old, marks it in a second step that
may fail. `excused` remembers the keys that were created or enabled after the UPDATE.

**UserFiles.** A row and a blob, written and removed one after the other; the process may
die between. An attachment's path through the normalizer (inlined, extracted, scanned and
described at a price, left) ends in what the model is sent and what is billed.

**Access.** A request enters by a key or the master key (`Enter`), is admitted by its
user's limiter (`Admit`), and uses its user's files (`UseFiles`); limiter and files may be
switched off, as in the configuration.

**SideRoutes.** Every handler is the same sequence with gaps: whose budget, which price,
pre-debit, price gate, call, usage row, settlement; the six routes differ in which of them
they have, in what order, and in what they charge. `reserve_budget` is one step here, its
interleavings being `BudgetLedger`'s subject.

**ToolLoop.** A reply is the sequence of tools it calls, how it stops and where it carries
its usage. `Run` answers the gateway's own calls in order; calls of the client's tools end
the loop; `fed` is what the conversation was fed, call by call. A guardrail flags, passes, cannot
be evaluated, or answers with JSON that is no object, which raises past the code that makes a
verdict of the other failures; so does a sandbox's answer without an object in it, which leaves
`__aenter__` with client and session open. Backends are an MCP pool
(connected one after another, the first owner of a tool's name wins), a sandbox session and
a web search.

**ModelCatalog.** One model of one instance; rows carry a date from which they hold and one
of two spellings of the key; `today` is the clock. An admin's call is a task that reads and
later commits; the commit may fail, or take effect without an answer. `posted` remembers, date by
date, the price an admin was told of and those lost answers may have left there. `InitializePricing`
is what a boot does with the config's entry, `FindModelPricing` the look-up of gate and bill, the
`lister` tasks are `discover_all_models` with its cache and lock.

**DaemonLifecycle.** Each access to a registry under its lock is one step; spawning a
process, waiting for Initialize and waiting for Close are separate steps. `boot` is the
progress of `startMCPServers` per server, `manage` that of `StartAndManage`, `pc` the main
loop's select. A ping carries the process it was sent to (`sent`), and a health record the
process it is about (`of`), so that a result recorded by name after a restart can be told;
`PingExpired` is the look-up that comes after the end of its round's context. The daemon is told
of a server's death by nothing: no event in the code removes a client whose process crashed, and
"live" in the properties means not closed by the daemon, crashes being failed pings.
A reload is `TakeReload` (load, validate, categorise) and then one stop, start or tool update
at a time, collecting errors, as `ReloadServers` does. A server's configuration is
`[conf, vols, tools]`: `conf` stands for all the fields `ServerEntry.Equals` compares,
`vols` for the static volume table it does not. `seen` is history: causes for the daemon to
end by itself.

**AgentRun.** The framework's entry points are counts of wrappers; a wrapper that reads the
saved original when it is called, and one that captured it, behave differently once wrappers
stack, so both are in the model. A generation counts how often the framework's agent was
made anew by an update. Spans are recorded through the context a wrapper finds by the current
trace id.

**ChatAdapters.** One conversation through one framework, whose answers come whole, through a
plain iterator or through an asynchronous one, where the adapter implements that (`Modes`).
Providers write streams in four styles. A tool call is how often its id and its name were
written, and how many pieces its arguments came in. What the provider means (`said`: one id and
one name to a call, and its arguments) is computed apart from what the adapter makes of the
pieces (`built`), so that a name that was joined twice is another name. The two are compared with
each other, with what the span tells (`told`; empty where no wrapper sees the call, `Wrapped`) and
with what the next request says (`sent`). Pieces that repeat ids, or have no index, are followed in
llama_index only, where the adapter joins them itself.

**AgentTools.** Loading connects to one server after another, each an await; connections are
noted when all tools are there; clean-up closes what is noted. A connection is open, closed, or
left open by a disconnect that failed: `aclose` empties the exit stack before it raises, so the
next clean-up passes that connection without an effect. The output type is where each
framework writes it, the caller's own dicts included.

**A2AServing.** A run appends an updater to the agent's list of callbacks and removes the
last entry after it; a tool call goes through the whole list. History is kept per context.

Four modules name their specification for themselves (`ServingSpec`, `RunSpec`, `ChatSpec`,
`CatalogSpec`, each with its `...Init` and `...Next`), so that one module of proofs can extend
several.

## 3. The runs

| run | question | instance |
|---|---|---|
| `BudgetLedger_admin` | do the account, the cap and the period survive every interleaving of two requests and three admin calls, with statements that fail or whose answer is lost? | 2 requests, 1 budget, caps {1, none}, durations {none, 1}, 2 instants |
| `Gateway_modes` | is a hold ended as the contract says; do the bill, the usage log and the platform's records agree with what was served; does everything end? | 3 formats, 3 policies, whole and streamed; 3 chunks; batches of 2 with another request's row; 3 attempts, 2 rounds, 2 tries; every fault |
| `Access_parts` | who is let in, how often, and to which files? | 2 users, 2 keys, 2 administrators, 2 requests, 1 file of 2 pages, 2 per window of 4 ticks, 6 instants |
| `SideRoutes_faults` | do the routes that settle by themselves keep the cap, and what do they leave behind? | 2 requests on any routes, a budgeted and an unlimited user, cap 1, prices {none, 0, 1} |
| `ToolLoop_formats` | do guardrails decide; is each call answered once, usage whole, everything closed? | 2 tools, 2 servers, 2 guardrails, 2 iterations, 2 calls in a reply |
| `ModelCatalog_prices` | is the price shown the price billed; does what an admin was told hold, through restarts and the calls of others; does one lister fetch at a time? | 2 spellings, 2 prices and a default, 3 instants, 2 admins with 2 calls together, 2 listers |
| `DaemonLifecycle_faults` | boot, pings, an edit, two SIGHUPs and a shutdown, with every fault | 2 servers, 5 configurations and a broken file |
| `DaemonLifecycle_live` | does shutdown complete, an accepted SIGHUP load, a stale health record heal? | 2 servers, 4 configurations |
| `AgentRun_two` | is a returned trace its own run's; do wrappers come off without stacking? | 6 frameworks, 2 overlapping runs of 3 calls, 1 update |
| `ChatAdapters_answers` | does what the provider said arrive, in the message, the span and the next request? | 6 frameworks, whole answers and 2 ways to stream, 4 styles of stream, 2 calls, 6 chunks, 2 rounds |
| `AgentTools_calls` | is an open connection forgotten that no disconnect has failed on; does the agent enforce its type? | 6 frameworks, 3 tools, 2 types, 2 tasks, 3 calls |
| `A2AServing_overlap` | does an event reach its task only; does a follow-up see its history? | 3 requests, 2 contexts, 1 expiry |

Every property of a run has a mutant in `PROJECT.json`: a plausible bug in one mapped
definition (a dropped guard, a missing reset, a swapped order) under which TLC finds that
property violated. The faulty variants stand next to the definitions they replace and
nothing else uses them. Some properties are conjunctions of named parts, each stated next to
the model it is about (`BillIsRight`, `PlatformIsToldRight`, `WrappersBehave`, ...).

**Exceptions are part of a property.** Many invariants here have the form "this is so, unless
a named thing happened". The exceptions are what the code really does; each is listed in the
comment of the property and, where it is worth a reader's while, in section 5. The history
variables (`mishaps`, `seen`, `marks`, `why`, `excused`) are there for them.

**Bounds, and why they are enough.** The ledger's hazards are races of two actors on values
read earlier; two requests and one admin give every pair, two instants put one reset between
a read and a write, and the proofs remove these bounds. `Gateway` is about one request, so
only the data is bounded: the third chunk or round repeats the second, three attempts have a
first, a middle and a last one; the request's row and another one fill a batch of two, and a
row more is left on the queue at shutdown. The limiter's window is shorter than the clock, so
that timestamps expire, and the sweep runs every third call. Two administrators and a request
give every overlap of a read, a commit and a look-up. Two side requests are enough to race
for a cap of one unit. Two rounds distinguish a sum of usage from a last value, two calls in a
reply a call from its neighbour, two servers an owner of a tool's name from a later one. mcpd's
reload treats servers one by one; two servers give one that changes beside one that does not,
and two SIGHUPs give one that arrives during the reload of the other. The five configurations
contain every change a reload tells apart: added, removed, restarted, tools only, invalid.
Two runs of an agent overlap in every way; three calls have a model call, a tool call and one
after a change. Six chunks let two calls be interleaved with text. Three tools have a server
before and after a function, so that a load can fail half-way. Three A2A requests give two
turns of one conversation beside another one.

**Type invariants.** `TypeOK` holds on the instances of the runs of `BudgetLedger` (where it is
proved), `Gateway`, `SideRoutes`, `ToolLoop`, `DaemonLifecycle` and of `RateLimiter_window`; the
runs leave it out in favour of properties about behaviour.

**Constraints.** Four runs leave out interleavings that add nothing:

* `WriterAtPuts` (Gateway): the writer and the request meet at the puts only; the writer moves
  while the request is about to put and after it. What is lost is the order of steps that
  commute; fairness is not affected, because the request comes to a put or to its end.
* `OnePartAtATime`, `AtWork`, `OneRequest` (Access): the parts share the user a request comes
  in with, so keys are administered where there is neither limiter nor file, and an
  administrator's reads and commits overlap with the one request that is about to write.
* `OneHalf` (ModelCatalog): prices and the discovery cache share no state, so lists are made
  where no admin's call and no request has come in, with starts of the process between them.
* `OneMark` (Access) and `OneTrouble` (AgentRun): one kind of trouble in a behaviour, since a
  second one only widens the exceptions.
* Symmetry: requests, users, keys, administrators, runs, tasks, listers and contexts are
  interchangeable where a configuration says so; no run with a liveness property uses it.

**Further configurations.** These are not part of the regular runs. One is the rate limiter
alone with a longer clock (`RateLimiter_window`, module `RateLimiter`, with `RejectionsAreDue`;
it passes). The others state what a document, a comment or a docstring says and end in a
counterexample; section 5 lists them. Run them with `tlc -config <name>.cfg MC<module>`.

**Deadlock** is checked for `DaemonLifecycle`, whose only resting state is a process that
has exited. The other systems stop by design: a request ends, all rows are written, the
clock or the calls reach their bound.

**Fairness.** `Gateway`: weak fairness of the standalone handler (the event loop resumes a
coroutine whose await is done, and calls upstream and to the database have timeouts), of the
writer's task and shutdown together, and of the hybrid walk and its flush (a `wait_for`
timer). Disconnects, cancellations and the end of the process are owed to nobody. That posts
to the platform end is a hypothesis of `ReportingEnds` only (httpx has a timeout), so the
answer is shown to come although a platform never answers. `DaemonLifecycle`: every goroutine
is fair, and every wait for a process ends, because the code bounds each by a timeout; the
timeout's outcome is an alternative of the same action. A look-up of a ping may come too late in
one round, but not in every one (strong fairness of `PingLookup`): the goroutines of a round are
started as soon as its timeout is. Signals and edits are not owed. The
other modules have no fairness and no liveness property: their waits are for models, clients
and frameworks that nothing in this code obliges to answer.

## 4. What is proved

Every theorem holds for all values of the constants, under the assumption its module states on
them (`ConstantsAssumption`, `GatewayAssumption`, `AccessAssumption`, ...). The assumptions say
what the constants are (numbers, finite sets of requests where there is a sum over them, which
faults, formats and frameworks there are) and that names of different things differ; TLC
evaluates each on the instance of a run. Each inductive invariant was checked by TLC on the
instance of its run before it was proved. In each module the proof that a step keeps the
invariant has a lemma per action, and the theorem combines them.

`BudgetLedgerProofs`: `TypeCorrect` (in particular, the clamp of `_release_reserved` keeps the
column natural), `Inductive` (the invariant `IInv`) and from it

* `Account`: `Spec => []ReservedMatchesHolds`.
* `Cap`: `Spec => []CommittedUnderCap`.
* `OneResetPerPeriod`: `Spec => []ResetOncePerPeriod`.

None of the three is inductive alone. The account needs that what a handle has in the row is a
part of its estimate, and that a request that has not started has no handle and one without a
handle no estimate (`LocalsInv`): a settlement lowers `reserved` by the estimate, clamped at zero,
and what is outstanding by what is really there, and the difference of the two is what was given
back in excess. The cap needs that a *stale* cap, read before an admin changed the budget, is
still bounded by the highest cap that was ever in force, and it needs both sides of the account:
the gate compares the cap with `reserved`, which is at most what is outstanding and falls short of
it by no more than the excess (`CapInv`). One reset per period needs that log entries and
remembered instants are not in the future (`PeriodInv`). What is outstanding is the cardinality of
a set of units (request, unit) and what has no handle: a reservation adds, and a settlement
removes, an interval of units, and lemmas on intervals and disjoint unions give the arithmetic.

`GatewayProofs`, for any formats, policies, faults, batch sizes, attempts, rounds and rows of
other requests:

* `BillRight`, `HoldsCaused`, `LogMatches`, `PlatformToldRight`, `WalkDoesEndWell`: the five
  invariants of `Gateway_modes`.
* `Settles`: `Spec => Service!Contract!Init /\ [][Service!Contract!Next]_(Service!Contract!vars)`,
  the safety part of `KeepsContract`: each step of the composed process maps to a step or a
  stutter of `SettlementContract`.

`GatewayKeepsInv` is the invariant below them. The configuration says which half serves, and of
the other half nothing has happened (`ServiceIdle`, `PlatformIdle`). Of a standalone request it
says, for each await, what has been reserved, charged and logged by then (`StandsInv`), and that
the usage read so far is what the provider has stated so far (`MeterInv`; the merge of the
three formats is where they differ). Of the writer it says that a row is in one place: queue,
batch, the flush under way, the table, or lost (`WriterInv`), and that the rows of the request
are the rows that were put (`RowsInv`). Of the hybrid walk it says which attempts have failed and
what is queued for each (`WalkInv`), and that a report, wherever it is, is true, is in one place
until an outage, and is somewhere unless there was a mishap or nothing is ever posted (`ReportsInv`). The refinement
needs `StandsInv` too: a charge or a refund is a step of the contract only because a place
where one happens is reached with nothing settled.

`AccessProofs`, for any users, keys, administrators, files, limit, window and clock:

* `KeysFollow` (`KeysFollowUsers`): `OpInv` says what an administrator who has read and not yet
  committed may still write: a stale commit writes only the columns that differ from what was
  loaded. `RevokesAll` says of a `delete_user` between its UPDATE and its commit that the keys of
  the user that work are among those the UPDATE found, or were created or enabled since.
* `StoredReachable` and `AttachmentsDo`: `FilesInv` relates, for each place of a request, the row
  and the blob of its file (`StandsInv`), says that two requests do not write one file
  (`UploaderInv`), and that bytes without a row have a request on its way to write the row or
  to remove the bytes (`BytesInv`).
* `LimitDoesHold`: the deque of a user is a tail of all the instants accepted, and what was
  dropped is out of the window (`Trails`); accepted instants are in order and, `Rpm` apart, a
  window apart (`Ordered`, `Spaced`); a promised Retry-After is past the moment at which the
  deque's head leaves (`Promising`).

`SideRoutesProofs`, for any number of requests and users and any prices: `SideKeepsInv`, and from
it `LeftoversDoHaveCause`, `SpendDoesLog` and `CapDoesHold`. A step moves one request. What a
request may rely on at an await is a predicate of its own part of the state (`Own`: the route
and the price, the hold, the settlement, the file and the job). Over all requests of a user,
spend is the sum of what was billed, `reserved` is the sum of the holds, and both together pass
the cap only by the sum of the overruns (`SpendAddsUp`, `HoldsAddUp`, `CapIsKept`); the cap
needs both sums, because a settlement moves an amount from one to the other. That a hold was
given back twice is the one thing that breaks the last two, and they say so.

`ToolLoopProofs`, for any tools, servers, guardrails, iterations and calls: `LoopKeepsInv`, and
from it `RailsDecide`, `CallsDoGetAnswers`, `UsageDoesAddUp` and `OpenHasCause`. The transcript
is right in the middle of a round too: what was fed is what the rounds before called, followed by
the part of this reply's own calls that has been answered (`TranscriptPart`, `DispatchPart`);
the totals hold the rounds before this reply, and this one's as soon as it has stated any
(`UsagePart`); what is open at each place of the loop has been opened on the way to it and has
not yet been closed (`OpenPart`).

`DaemonLifecycleProofs`, for any servers, configurations, faults, edits and signals:

* `FlagExact`: `Spec => []FlagMeansPending`, from `FlagInv`, which adds that the channel is
  empty while a reload is carried out (a SIGHUP is dropped only while one is pending).
* `UnchangedKept`: `Spec => UnchangedKeepsClient`, an action property. A reload only has
  servers in hand whose configuration changes (`PlanInv`); the step that needs an argument is
  boot's registration of a server while a reload is going on, which must not overwrite a
  client the reload has registered. It cannot, because a server that boot has yet to register
  is part of the configuration, so a reload does not add it, and has no client, so a reload
  that drops or restarts it fails and ends the daemon instead of going on to another one
  (`BootInv`). `KeepInv` is the conjunction.
* `ServesConfig` (`ServingMatchesConfig`) and `AllAccounted` (`ProcessesAccounted`), from
  `DaemonInv`. It says of each server which of its processes is the registered one, which one
  boot or the reload has in hand, and that every other one is closed or left behind for a
  cause (`ServerInv`); of the daemon, what `StartAndManage` has closed (`ManageInv`); and that
  an error comes from a fault, from a first round of pings whose time was up, or from a reload
  that was taken before that round was over (`CauseInv`). The two must be proved together: a process is not forgotten only
  because the registry holds it whenever nobody has it in hand.

`AgentProofs`:

* `OpenDoesReach` (`OpenIsReachable`) and `TypeIsEnforced` (`EnforcesItsType`), for any of the six
  frameworks, any tools, types and tasks, from `AgentKeepsInv`. A connection a load has made is
  the load's own until it is noted (`Known`); as long as no two cleanups overlapped, what the one
  cleanup has passed is not open any more (`OneCleanup`); there is one creation and no other call
  before it is done (`OneCreation`), so that what an update makes of the type is the type of the
  last update that went well (`TypeFollows`).
* `UpdatersDoOwn` (`UpdatersAreOwn`) and `FollowUpsSee` (`FollowUpHasHistory`), for any requests and
  conversations, from `ServingKeepsInv`. The list of callbacks is as long as there are runs with
  an updater and requests that left theirs (`Updaters`), which is not enough to know *whose* is
  removed; without overlap, the last entry is the run's own and the others were left there
  (`Alone`), and an updater that was left there does not refuse, since its task was never ended
  (`Progress`). A follow-up finds the turns before because an answered turn is in the context
  whenever the context is there (`Kept`).

* `WrappersAlwaysBehave` (`WrappersBehave`) and `TracesAreWhole` (`TraceIsWhole`, an action
  property), for any number of runs, calls and updates, and several troubles at once, from
  `RunInvariant`. What is wrapped depends on who is registered: nothing while nobody is, one
  wrapper while somebody is (`BareWhenIdle`, `WrappedWhenBusy`), and the saved originals are the
  framework's own functions (`OriginalsBare`); each holds until the named trouble. A run's Context
  is under its trace id as long as the run is not over (`OwnContext`), and a Context belongs to
  such a run (`NobodyLeftBehind`): without it a new run could find wrappers on whose run is gone.
  A call in flight is then the current span of its own run's Context and is added to its trace
  once (`InFlight`). A call that finds itself as its saved original recurses without
  end; `Loop` stands for the wrappers it passes and is no natural number, so that no count
  equals it.
* `AnswersAlwaysArrive` (`AnswerArrives`), `SpansAreTrue` (`SpanIsTrue`) and `RequestsArePaired`
  (`RequestPaired`), for any number of calls, chunks and rounds, from `ChatInvariant`. What the
  framework has is compared with what was meant after every chunk (`Follows`); for llama_index,
  which looks a piece's call up by its index, that needs the calls to stand in the order of
  their indexes, each meant to have one name (`CallsInOrder`), and relates the two call by call:
  the same arguments, and a name as often as there were pieces that carried it (`Joins`). The pairing of a request is not inductive by itself, since the
  request is made anew from the history each time: the history must be paired as *each* adapter
  turns it into messages (`HistoryPaired`), and a turn adds one message of calls and as many
  answers with the same ids. For five adapters a message follows from a message (`OneMessage`),
  for google from a part of one, joined to the others (`GooglePart`). The ids are new because
  those of the history are of earlier rounds (`RoundsBefore`).

`BudgetLedgerProofs` also has the theorems about `ModelCatalog`: `PricesAlwaysAgree`
(`PricesAgree`), `PostedPricesHold` (`PostedPriceHolds`) and `FetchesAreNeeded` (`FetchIsNeeded`),
for any clock, any rows, admins and listers, from `CatalogInvariant`. There is one row for a key
and a date, which the upserts of boot and administration keep (`OneRowADate`), so that "the latest
row" is one row (`LatestIs`), and rows of the slash spelling are those a former version left
(`SlashIsFormer`), so that a new row is seen by both look-ups. A request that was admitted as paid
has a price from then on unless rows were deleted (`AdmittedHasPrice`); only with that is
`FreeNeedsDeletion` inductive. That a told price is billed follows from the rows date by date
(`PostedInv`): a date whose price was told has a row of that price, or of one that a lost answer
left there, and a date of which nothing was told has a row of the configuration at most, which a
boot adds only where there is none. One fetch at a time is not a matter of the look that precedes
it: the cache may be stored, or grow old, while the provider is waited for. Who fetches holds the
lock and nobody stores a list without it (`FetchInv`).

`LibraryLemmas` holds the facts on `FlattenSeq`, `SumFunctionOnSet`, `Front`, `Min` and sequences
without repetition that these proofs need. The library's induction theorems take an operator as a
parameter, which the provers cannot instantiate; `NatSet` states induction over the natural
numbers with a *set* instead (from the well-foundedness of `<`), and a property of the first n
elements becomes a set of numbers. That is enough for folds and recursive functions; two models
are written so that it applies: `ToolLoop` selects a server's tools by `FlattenSeq`
of parts, and the tables of `SideRoutes` are functions of one argument that return functions.

Only model-checked:

* liveness (`EverythingEnds`, `ShutdownCompletes`, `QueuedReloadLoads`, `StaleHealthHeals`, the
  fairness of `KeepsContract`): fairness and ENABLED are beyond the prover.
* the further configurations of section 3.

Every invariant and every action property that a regular run checks is a theorem.

## 5. Where code and words disagree

Each of these ends in a counterexample of the configuration named:

* `BudgetLedger_lost`: the reset never touches `reserved`; the docstring of
  `reconcile_reservation` says a leaked reservation lasts "until the next budget reset zeroes it".
* `BudgetLedger_log`: `previous_spend` of the reset log is the spend read before the
  compare-and-swap; what others commit in between is erased unrecorded.
* `RequestSettlement_selector`: `resolve_request_context` tolerates a selector it cannot
  parse and reserves for it; `chat.py:426` then raises outside every handler that refunds.
* `RequestSettlement_disconnect`: a client that goes after the response object was built and
  before its generator is started leaves the hold behind, though the docstring lists client
  disconnects among the refunded paths.
* `ToolLoop_completed`: the Responses stream loop goes on after it has forwarded a
  `response.incomplete`, so a client can see two terminal events; the docstring
  (`mcp_loop_responses.py:244`) decides on `response.completed`, which it drops or forwards.
* `ModelCatalog_precedence`: an entry of the configuration without a date becomes a new row
  dated now at each boot, and wins over what was set through the API;
  `docs/configuration.md:195` says the API takes precedence.
* `DaemonLifecycle_volumes`: `ServerEntry.Equals` leaves out `Volumes`, so a reload that
  changes only them restarts nothing.
* `DaemonLifecycle_output`: the goroutine that drains a boot server's standard error is bound
  to the errgroup's context and ends when boot does.

Seen while modelling, mostly as the exceptions of a property:

*Ledger and pipeline.* A hold granted to an uncapped user by an UPDATE that matched no row
gives back units it never took, and a reconcile that was committed but raised is followed by a
refund of the same handle (`_pipeline.py:1632-1656`), which gives the estimate back a second time:
other requests' holds are cut by the clamp, and spend and holds can pass the cap (`excess`). A
reservation whose commit is not answered leaves units in the row that no handle knows of
(`orphaned`). A guardrails answer that is JSON but no object raises a `TypeError`
(`guardrails.py:93`) that `prepare_gateway_tools` does not refund for, and the hold stays. The total of a Messages stream is its last event's
own sum; a stream that ends after `message_start` is billed for its input only, past
`stream_missing_usage_policy`; cache tokens of Anthropic are not billed; a chat client can
switch usage off through `stream_options`. A refused top-up leaves the descriptions made for it
unbilled (`_pipeline.py:567`). In hybrid mode an attempt of a provider any-llm does not know raises
outside the `try` (`_platform.py:178`), and the reports of the attempts that failed before it are
dropped; `usage_max_retries: 0` posts no report at all. A stream without usage, or a single-attempt tool
stream whose backend cannot be opened, reports nothing. A streaming tool loop that reaches its
cap is reported as a provider error, a non-streaming one is not; a streaming tool round without a
chunk has run tools before lock-in, so the fallback may run them again
(`ToolsRunForOneProvider` is about non-streaming requests). A cancelled non-streaming attempt
becomes a provider failure that is reported inline, though a comment in `_pipeline.py` says a
CancelledError does no reporting. `docs/hybrid-mode-protocol.md` says every attempt is reported;
streams without usage, capped tool loops and the gateway's own rejections are not.

*Keys and files.* After a failed commit of `last_used_at` (`deps.py:138`) the rollback expires
the loaded key and the request fails, though the code means to go on. A create or update of a
key that overlaps `delete_user`, even between its UPDATE of the keys and its commit
(`users.py:267-276`), can leave an active key of a deleted user; an update can enable one later; reviving a user does not enable them. Two replicas that boot together both make a
bootstrap key. `entities.py:230` says a user's files go by CASCADE, but users are deleted
softly, so their files and blobs stay. Expired files are listed and their rows and blobs are
never removed. A failed put, or a death between put and commit, leaves an orphan blob; an upload
whose commit's answer is lost loses its blob and keeps its row.

*Side routes.* Audio reserves before it resolves its selector (estimate 0); images without data
are billed as asked for; `_is_model_free` does not know named instances; each retrieval of a
batch's results puts a row; creating a batch is not budgeted, and its id is lost if putting its
row raises; the temporary file is written outside the `try`.

*Tool loops.* Chat streams bill the last round's usage only, the other two formats' streams lose
the input tokens of the rounds before. The sandbox's `__aenter__` tolerates three kinds of
exception only: an answer that is no JSON object (`sandbox_backend.py:100`) leaves client and
session open. The lost answer to a session's creation leaks it; so does a stream opened eagerly
and never pulled. The same kind of answer from the guardrails service ends the request with a
500 even if the guardrail only monitors, though the docstring at `guardrails.py:149` says that
monitors fail open.

*Prices.* The list and the get route show future prices; the get route finds the legacy row
first and billing the other one; `normalize_pricing_key` does not catch every error of the
parser; a deleted dated price of the configuration is back after a restart; a
`model_cache_ttl_seconds` of 0 makes `GET /models/{id}` answer 404; discovery holds its lock
while it waits for providers, without a timeout.

*mcpd.* A reload taken before the first round of pings is over can end the daemon with no
failing component; a failed reload exits without closing the children, and a failed Initialize or
a close that times out leaves a process; two spellings of a server's name make the client
manager and the health tracker disagree; a SIGHUP during a reload is dropped, as documented, so
the last edit may need another one. A reload that empties a tool list succeeds, though
`docs/configuration.md` says the daemon exits; one that removes a server between the two
registrations of its boot leaves a health record without a server. A server that crashes stays
registered, its pings failing, until a reload changes its configuration.

*any-agent runs.* The unwrap of agno restores a misspelt attribute (`wrappers/agno.py:64`), so the
wrapper stays and a second run's first tool call recurses. Runs below one span of the caller's
share a trace id and overwrite each other's context. A `CancelledError` leaves context and
wrappers, and then no later agent is wrapped. An update during a run puts old originals on the
new agent; llama_index's unwrap raises when `final_output` came during the run. A langchain
config that is passed twice gets its callbacks twice. Parallel tool calls share
`Context.current_span`. An exception of `after_agent_invocation` leaves `run_async` as it is;
the docstring at `any_agent.py:102` says errors come wrapped with their trace.

*Adapters.* agno's asynchronous stream returns a coroutine its caller iterates over
(`agno.py:142`), and langchain's plain stream makes a dict of a chunk and asks it for an attribute
(`langchain.py:150-154`): both always fail. The llama_index adapter passes `tool_calls=None` on
(`llama_index.py:188`); repeated ids and names of a stream's pieces are concatenated, and pieces
without an index run into one call (`llama_index_utils.py:174-209`); the wrappers see no stream
but langchain's and llama_index's asynchronous ones; the span of langchain has the calls that
could be parsed only; langchain, llama_index and google
lose a stream's usage; the google stream yields nothing that its framework reads; a google tool
call with arguments that are not JSON raises; smolagents' callback fails on an empty message; the
openai span shows the first output item only.

*Tools and serving.* MCP clients are lost when a later tool fails to load; clean-up stops at the
first disconnect that fails, and a second one passes the client that failed without an effect, its
exit stack being empty (`mcp_client.py:240`); agno and llama_index reload their tools on an update, with new
connections; a type once given stays in the `agent_args` of agno and openai, `tool_choice` stays
"required" for google. The A2A callbacks are one list for all runs, and a run that ends removes
the last entry, whoever's it is; a cancelled run leaves its own; a failed run raises before it
gives its task a final status; a context that expires during a run drops the turn; the client
gives up after 30 s while the run goes on.

## 6. What is not modelled, and why

* Within the modelled parts: the legacy `validate_user_budget`, which nothing calls; the wording
  of answers and errors; request validation; the single and no-op log writers (no state);
  construction of commands and flags in mcpd; server names with two spellings; the searches and
  fetches of the web-search backend and the extractors of documents (one outcome each); the
  frameworks' own agent loops (external); `ServerHandle`, the agent card and the task store of
  the a2a package; tinyagent, a package of its own.
* mcpd's plugin pipeline and manager: a component with processes of its own; next in the plan.
* mcpd's API server, a thin layer over the two registries; mcpd's configuration files, context
  and registries, sequential edits and look-ups. The comparison of entries is in
  `DaemonLifecycle`.
* otari's settings, URL safety and metrics: parsing and counters without interacting state. What
  a setting switches is a choice in the module it concerns.
* encoderfile: tensor computations and a container format, no interacting state.
* The telemetry server, the budget evolution and the socket bridge: a demonstration beside the
  gateway that nothing in it calls.
* Scripts that generate documentation and SDK code, migrations, tests, user interfaces.

## 7. Plan

Done: the ledger, the request in both modes with writer and shutdown, keys, limiter and files,
the side routes, guardrails and tool loops, prices and models, the mcpd daemon, and any-agent's
runs, adapters, tools and serving; proofs of every invariant and action property that the runs
check.

Next:

1. `PluginPipeline` (mcpd `internal/plugin`): a request through serial and parallel categories,
   required and optional plugins, and the manager's start and stop of plugin processes. Abstract
   specification: the verdict a sequential evaluation would give.
2. The composition of `ToolLoop` with `PlatformFallback`, whose tool rounds are abstract.
