# A TLA+ verification of switch-router

switch-router is a local gateway: it accepts chat requests in several API
formats, picks one of the user's accounts at an upstream provider, translates
and forwards the request, and falls over to another account (or, for a *combo*,
another model) when the upstream refuses. It is one Node process; every handler
is an async function, so *concurrent* below means *interleaved at awaits*. Its
shared state is a SQLite file (accounts, settings, keys, usage) behind a list
cache that every write invalidates, and a number of in-memory maps.

Paths are relative to the repository.

## 1. Inventory

### The request path

| Part | State it keeps | Operations | What makes it correct |
|---|---|---|---|
| **Account pool** `open-sse/services/accountFallback.js`, `src/lib/db/repos/connectionsRepo.js`, `src/sse/services/auth.js` | a row per account: `isActive`, flat `modelLock_<model>` expiries, `testStatus`, `lastError`, `errorCode`, `backoffLevel` | select, mark unavailable, clear error, prune, unlock, switch on and off | a lock is set only by a failure it belongs to, and by nothing else made longer; a success lifts its own model's lock; accounts come back by the clock alone |
| **Routing engine** `src/core/routing/routingEngine.js`, `src/sse/handlers/chat.js` | per request: excluded accounts, attempts, last failure, the row copied at selection | the fallback loop and its callbacks | never one account twice, gives up only when nothing is left, always answers |
| **Round robin** `src/sse/services/auth.js` | in-memory use counters over the rows, a write-behind queue | read the pool, decide in the provider's mutex, flush, restart | the sticky limit holds, counters reach the database |
| **Health prober** `src/sse/services/healthProber.js` | a `sweeping` flag, a cool-off per target | sweep the locks about to expire, ping each, restore | sweeps end, only a success unlocks early, what is restored is what was tested (it is not: section 7) |
| **Credential refresh** `open-sse/services/oauthCredentialManager.js`, `open-sse/services/tokenRefresh/dedup.js`, `open-sse/services/tokenRefresh.js` | a promise per connection, a memo of results per old token | proactive, background, reactive and dashboard refreshes, retries | a rotating token is spent once where lock or memo is used, everybody who waits is released, retries do retry |
| **Model throttle** `open-sse/services/modelThrottle.js` | per provider/model: recent 429s, `throttledUntil`, `hotLevel`, `lastThrottledAt` | record, clear, partition | a running cooldown stands, a model is HOT at the threshold and not before, and comes back |
| **Combo** `open-sse/services/combo.js` | rotation index and use count per combo | rotate, reorder by capability, partition, try one after the other | no model is lost on the way, leads are balanced, HOT models are left out |
| **Fusion** `open-sse/services/combo.js` | per request: an array the panel calls write into, two timers | fan out, collect, read, judge | stragglers are capped, every answer in hand reaches the judge, a hung call hangs nothing |
| **Stream lifecycle** `open-sse/handlers/chatCore.js`, `open-sse/handlers/chatCore/`, `open-sse/utils/streamHandler.js`, `open-sse/utils/stream.js`, `src/lib/db/repos/usageRepo.js` | counters of pending requests with a safety-net timer, upstream slots, watchdog timers, a *disconnected* flag, a usage record | dispatch, retry after refresh or trimming, pull, flush, cancel, stall, abort | every count up is counted down once; slots come back; a served stream is recorded once; every stream ends |
| **Executors** `open-sse/executors/base.js` | retry counters per call and URL | URL fallback, per-status retries | bounded retries, whatever the statuses do |
| **Key policy** `src/sse/handlers/chat.js`, `src/sse/services/keyPolicy.js`, `src/sse/services/keyRateLimiter.js`, `src/lib/db/repos/apiKeysRepo.js` | cached records of keys and of their spend, a window of stamps per key | validate, allow list, budget, rate limit, record usage, edit | changes and budgets bite after a time to live; the rate limit holds for overlapping requests |
| **Response translation** `open-sse/translator/response/`, `open-sse/translator/index.js` | per stream: which parts are open, numbers given to them, what was finished | one chunk at a time, provider format to OpenAI to client format | nothing said is lost; the client reads one well-formed message |
| **Request translation** `open-sse/translator/request/`, `open-sse/translator/formats/`, `open-sse/translator/concerns/` | none | client format to OpenAI to provider format; repair of calls and results | no call without its result, no result without its call; who said what is kept |
| **Context guard** `open-sse/context-guard/` | none | drop the oldest turns until the request fits, retry once | what is left is a conversation with the turn being answered in it |
| **Thinking and limits** `open-sse/translator/concerns/thinkingUnified.js`, `open-sse/translator/formats/` | none | extract what a client asks, send it in the provider's terms, reconcile limits | more effort is never less; there is room for an answer; only levels the provider knows |

### Around it

| Part | State it keeps | What makes it correct |
|---|---|---|
| **Request details** `src/lib/db/repos/requestDetailsRepo.js` | a buffer, a timer, the batch being written | nothing taken is lost but by a crash; the final row of a request stays |
| **Usage queue** `src/lib/db/repos/usageRepo.js` | a queue, a timer, an immediate flush, waiters | one flush at a time, everybody who waits is released |
| **Account latency** `open-sse/services/connectionLatency.js` | averages in memory, a write-behind timer, *hydrated* | a live sample is never replaced by a stored one |
| **Quota cache** `src/shared/services/quotaFetchCache.js` | an entry per key with a value, a promise, a version | callers share loads; a late result does not replace a newer one |
| **Project ids** `open-sse/services/projectId.js` | a cache and a map of pending fetches | shared fetches; one that never returns is given up |
| **MCP bridge** `src/lib/mcp/stdioSseBridge.js` | children of plugins and their sessions | a child lives as long as it has sessions |
| **Auto-ping** `src/shared/services/quotaAutoPing.js` | per account: last reset, next reading, last failure; in its row the last ping; a *running* flag | an idle window of quota is started again, a running one is left alone |
| **Daily check-in** `src/shared/services/workbuddyAutoCheckin.js` | a snapshot per account, an interval, a *running* flag | the day's credits are claimed, expired sessions or not |
| **Process control** `src/app/api/app/shutdown/route.js`, `src/shared/services/initializeApp.js` | none | buffers are drained before an orderly exit |
| **sql.js snapshots** `src/lib/db/adapters/sqljsAdapter.js` | the database in memory, a debounced save | a restart finds one whole earlier state |
| **Database start** `src/lib/db/migrate.js`, `src/lib/db/backup.js`, `src/lib/db/driver.js` | version stamps in `_meta`, backup directories, a marker file, the write-ahead log | each migration runs once, a schema in use is backed up before it changes, old JSON files arrive once, wherever a start is cut short |
| **Configuration caches** `src/lib/db/repos/` | lists, maps and promises in front of seven tables | who reads after a write has returned sees it |
| **Configuration** `src/lib/db/repos/`, `src/lib/db/index.js`, `src/app/api/` | connections, nodes, pools, combos; requests that read, wait and write | priorities rank, nothing names what is gone, copies of a node follow it |
| Conversation pins, provider registry, usage fetchers, prompt reduction, OAuth login, proxies, dashboard | tables, bounded maps, I/O | see section 6 |

### How the parts meet

A chat request goes through the key policy, is resolved to a model or a combo,
and a combo asks the routing engine for one model after the other (fusion: for
all at once). The engine selects an account from the pool, refreshes its
credentials if they are due, calls the provider's executor, and on the answer
either clears the account's error state or locks it and goes on. Failures by
rate limit also go to the throttle registry, which later combos read. The
dashboard writes the same rows; the prober sends ordinary requests of its own
and writes the row once more when one succeeds. The parts communicate through
shared rows and maps, and nearly every decision is taken on a value read before
an await: that is where the hazards listed in `PROJECT.json` come from.

## 2. Modules

| Module | Models | Built on |
|---|---|---|
| `AccountPool` | a row and every operation on it, as pure operators | |
| `RoutingEngine` | concurrent requests, their callbacks, the dashboard, the clock | `AccountPool` |
| `Failover` | what the loop promises, without locks or clocks (abstract) | |
| `HealthProber` | sweeps, composed with the engine through the ping's request slot | `RoutingEngine` |
| `TokenRefresh` | refreshes of one account's grant | |
| `ModelThrottle` | an entry of the throttle registry, as pure operators | |
| `ComboRouting` | combos and direct requests over one registry | `ModelThrottle` |
| `FusionPanel` | one fusion request | |
| `StickyRoundRobin` | selection by counters and their persistence | |
| `ExecutorRetries` | one `execute` call: its URLs and its retries | |
| `StreamLifecycle` | requests from the first count to the end of the response | `ExecutorRetries` |
| `ServerStore` | the database as write-behind queues see it, the end of the process | |
| `UsageQueue`, `RequestDetails`, `ConnectionLatency` | the three write-behind stores | `ServerStore` |
| `QuotaFetchCache`, `ProjectId`, `McpBridge` | in-memory caches and children | |
| `BackgroundJobs` | the auto-ping and the daily check-in | |
| `ServerProcess` | all seven in one process: shutdown, signal, crash, restart | the seven above |
| `KeyPolicy` | a virtual key, its caches, requests and edits | |
| `DatabaseStart` | starts of the database by changing releases and drivers, cut short anywhere | |
| `HotCaches` | the caches of the configuration tables, their loads and the writes | |
| `Catalog` | the configuration tables, the repositories' transactions and the requests around them | |
| `ClaudeMessage` | what a Claude client may be sent (abstract) | |
| `ToOpenAi`, `FromOpenAi` | the handlers of a chunk, as operators on the translators' state | |
| `TranslatedStream` | a stream through both, and the client that reads it | `FromOpenAi`, `ClaudeMessage` |
| `Conversation` | bodies of all formats in one notation | |
| `RequestTranslation` | the converters of a request, to OpenAI's format and from it, as operators | `Conversation` |
| `ContextGuard` | what is trimmed from a body | `Conversation` |
| `TranslatedRequest` | a conversation that grows and is sent again with each turn | the three above |
| `ThinkingEffort` | intent, dispatch and limits | |
| `RoutingEngineProofs`, `TokenRefreshProofs`, `StrategyProofs`, `LifecycleProofs`, `DatabaseProofs`, `ServerProofs`, `TranslationProofs` | theorems | the modules they name |
| `FoldSteps` | what a fold over a list does, step by step; an instance per operator that is folded | |
| `MC...` | small instances; `MCServerProcess` lets one component at a time act, `MCAccounts` holds the loop and the round robin, `MCTranslation` streams, conversations and thinking, `MCComboRouting` both strategies of a combo, `MCDatabase` the key, the start, the caches and the configuration | the modules they name |

### Correspondence with the code

**AccountPool.** A row's `keys` are the lock fields present and `left` the ticks
each has still to run: an expired lock that nobody removed is a key with
`left = 0`, because the code distinguishes it (`accountFallback.js:125` looks at
the account-wide field only if the model's own is absent; `clearAccountError`
sweeps such fields). Failures are reduced to what `checkFallbackError` and
`markAccountUnavailable` tell apart: a rejected payload, a 4xx with no cooldown,
a fixed cooldown, exponential backoff, a reset time told by the provider.

**RoutingEngine.** A step is a synchronous stretch between awaits that touch
shared rows. `Select` takes effect when the connection list is read; the steps
up to the upstream call (proxy lookup, translation, proactive refresh) belong to
phase `upstream`, in which `PersistTokens` may rewrite the row any number of
times. `Heal` works on `seen`, the row copied at selection and carried in the
credentials, against the row as it then is. `ReadBackoff` and
`MarkAccountUnavailable` are two steps because the code awaits in between. A
streaming answer that turns out not to be an event stream is healed *and* failed
(`HealThenFail`). Which account a strategy prefers is left open: any available
one, except that a pinned one wins. The order is `StickyRoundRobin`'s subject.

**HealthProber.** `ProbeSlot` is the request the ping makes; all of its steps are
the engine's, the selection of an account among them: the target is passed as the
preferred account, which the selection looks for only among those without a lock.
As the target has one, its ping is answered by another account, or not at all, unless the
lock has expired meanwhile. `Settle` is what `probeOne` does with the answer, also when the
ping judged a 200 to be a failure or gave up waiting (`PingTimeout`): the request
it abandoned runs on. The ping carries the model's bare name and is taken to be
routed to the provider under test; in the code the name goes through alias and
prefix inference (`open-sse/services/model.js:81-133`).

**TokenRefresh.** Refresh tokens are numbered as issued. A step is a macrotask:
an answer of the token endpoint and all that the promises it settles go on to do
(`Conclude`). The provider rotates the newest token and refuses any other.
`executor` never changes: it is drawn from `Executor`, of which the members of
`SelfLocking` (codex, grok-cli) take the connection lock inside
`refreshCredentials`, and those of `Direct` (antigravity, workbuddy) call the token
endpoint there without the memo (`CallDirectly`, `SettleDirectly`). The proactive
refresh of a `Direct` account picks the provider's refresher itself and uses it
(`PassesMemo`).

**ModelThrottle, ComboRouting.** Ages and remaining ticks replace timestamps. A
name of the combo and the registry's key of the model it resolves to are
different constants, `Resolved` connects them. A model's account loop is what
`RoutingEngine` shows it to be: it ends, in a success or a failure, and may
report rate limits on the way. `checkFallbackError` never answers
`shouldFallback: false`, so a failure always moves on.

**FusionPanel.** `out` is the array of `collectPanel`. It is handed over by
reference, so calls that settle during the reading loop still write into it. The
loop awaits at each slot with an answer: one `Take` per slot.

**StickyRoundRobin.** `Read` takes the list of available accounts, whichever they
are; `SelectByStrategy` decides in the mutex on counters that may have moved. Stamps are
ranks of milliseconds. With `Spaced` no two selections share one: see section 7.

**StreamLifecycle, ExecutorRetries.** A request's `phase` follows
`handleChatCore`: the slot is asked for after the request has been counted
(`Start`, `Refuse`), an `execute` call sends request after request (`ExecutorRetries`), a
401 refreshes and calls again, a context overflow trims and calls again. An
answer is read whole (`ReadBody`, `BodyRead`) or piped. A pipe has two ends: `upstream` says
how the provider's side ended, `client` how much of it the client has seen, and
they move apart since the transform flushes before its last chunks are read.
`downs` counts the ways out that reach `trackPendingRequest(..., false)`, each
at its own place in the code: flush, disconnect, abort, error. The bytes, the
delays between retries and the content of usage are left out; the safety net
(`PendingTimeout`) may fire whenever its timer runs.

**ServerStore and the write-behind stores.** `mem` and `disk` hold, per store,
what is in its tables. Natively they are equal after every commit; with sql.js
a commit sets a timer and `Save` copies one to the other, or fails and waits for
the next change. `RequestDetails` keeps the code's buffer, batch and timer and
writes a request's row twice, as a stream does. `UsageQueue` distinguishes
entries by call and *events* by the fields the table is unique over. A step is a
stretch between awaits: a flush yields before each write.

**ServerProcess.** `Shutdown` is the route with its drains in their order;
`ProcessEnds` is the exit at its end, a signal or a crash, and the start of
the next process, which finds the disk alone.

**QuotaFetchCache, ProjectId, McpBridge.** A load, a fetch and a child have a
number of their own, so that the properties can tell a late event from a
current one. `order` is the map's insertion order, which eviction goes by.

**BackgroundJobs.** Points of time are relative to the present, in ticks of the
job: a reset is the number of ticks till then, `Past` when it belongs to an earlier
window, and what the code compares by minutes is compared by ticks, either way
where a fraction decides. `PingTick` lets a minute pass and starts the loop unless
it is busy; a visit is the steps between its awaits (`Refreshed`, `UsageRead`,
`PingAccepted`, `PingRecorded`), each of which may fail (`VisitFails`). `slides`
tells codex, whose idle window reports a reset that moves along, from claude. The
quota cache is an entry of `QuotaFetchCache` reduced to what a visit may be
answered; it has a key of its own after each write of the row. Of the check-in, a
visit is bounded by the timeouts of its calls and ends before the next tick;
`token` is the session it began with, which `ClaimRefused` uses also after
`SessionRefreshed`. `startedBy`, `cold` and `calm` are history.

**KeyPolicy.** `keyCache` and `spendCache` hold a value and its expiry. A
lookup that misses is two steps, read (`Validate`, `GetApiKeyByKey`) and fill
(`Validated`, `GotApiKey`), because the clearing of the cache may fall in
between. `Consume` is synchronous: it checks the rate and takes the stamp. A request keeps
the time it read before an await, as the code does.

**DatabaseStart.** `main` is the main file and `log` the database with its
write-ahead log; with a native driver a commit reaches `log`, and a checkpoint or
an orderly exit takes it to `main`. sql.js opens `main`, drops the log and writes
the file some time after the start, which never yields once the driver is there.
`at` is the write `runMigrationOnce` is at: `Stop` may come before any. A
database is its two stamps, whose columns it has, how often each migration was
applied and how often the JSON files were imported.

**HotCaches.** A table is the number of writes it has seen and a cache holds
such a number. `ReadList` is one step, since the adapter is there and nothing is
awaited between reading and caching; `StartLoad`, `LoadReads` and `LoadFills` are
the three steps of the caches that fill in a later one. Every load passes
`await getAdapter()`: operations that have waited for the database at the start,
or that become ready in the same turn of the event loop, interleave there.
`Writes` lists per repository which tables a write touches and which caches it
drops, with the commit or after a further await.

**Catalog.** A connection has a provider, a name, a priority, a pool and a copy of
its node's base URL. `editing` holds what a dashboard request has read:
`BeginPut` copies the connection, `FindPool` looks a pool up, `WritePut` merges
the copy into the row in a transaction and renumbers when a priority was given.
`Restale` records, for the properties alone, which rows were last written with
something read too early.

**TranslatedStream.** `said` counts what the provider has said and `view` is what
a client makes of the events: the properties compare them. Providers are
restricted to what their formats allow (Claude numbers its blocks, Gemini cuts
parts as it likes, Ollama tells calls whole), and may stop anywhere.
`ToOpenAi` and `FromOpenAi` have one operator per handler, run in the handler's
order. A chunk may hold a thought, words, calls and a finish at once.

**TranslatedRequest.** A part is a word, a call, a result or a thought. Thoughts carry
no words, so several in a row are one. Claude's protocol has four kinds of readers,
which differ in the thoughts they are sent (`KeptThoughts`): Anthropic, compatible
providers, DeepSeek and all others. Ids are numbers, a word is one too, so that a word
that is lost, moved or said by another shows. A function called twice may reuse an id where a format derives
ids from names (`turns.reused`). `TranslateRequest` composes the converters with
the repair passes before and after, as `translator/index.js` does.

**ThinkingEffort.** `Asks` are the ways a client of each format can name a level
or a budget; `Dispatch` is what is sent, with the output limit. The limit takes the
way of the request: a client that speaks the model's format is not translated, any
other goes by OpenAI's format, where the limit is adjusted (`LimitOf`). `model` ranges
over every thinking format, with the ceilings of the capability tables;
`ThinkingAssumption` is what `capabilities.js` makes true of them: Claude's ceilings
are far above 1024, gemini-2.5 has a largest budget under both its ceiling and the
largest output floor, gemini-3 cannot stop thinking. `NoShallower` exempts what the
code does on purpose: a budget that reaches Claude's ceiling is lowered to make room.

## 3. Runs

| Run | Shows | Distinct states |
|---|---|---|
| `accounts` | types, where locks come from, what a success heals; failures of four kinds, two accounts, two models, deadline, dashboard; or the sticky limit and the arrival of counters; two selections, flushes that fail, restarts | 841 000 |
| `routing_races` | no account twice, no early surrender, answers, recovery, refinement of `Failover`; two racing requests, two accounts | 59 000 |
| `prober_sweeps` | sweeps end and only successes unlock early; the locks of two accounts, a user request, timeouts | 529 000 |
| `refresh_callers` | one call per token, no token spent again within the memo's life, every refresh ends; two jobs of all kinds, three tokens, three executors | 350 000 |
| `combo_serving` | balanced leads, no model lost, stragglers capped, judged on all texts, cooldowns stand and run out, answers; a request after the other with rotation, reordering and direct traffic, or a panel of four | 226 000 |
| `stream_lifecycle` | counts, slots, retries, usage records, ends; a stream and a whole answer over one slot, two URLs and retry budgets 0, 1 and 2 | 286 000 |
| `server_process` | nothing taken is lost, work is shared, newer values stay, waits end; idle windows are warmed and running ones left alone, credits are claimed; seven components through shutdown, signal, crash and restart | 613 000 |
| `database` | changes and budgets bite, the rate limit holds; starts are safe; readers see writes; the configuration hangs together | 1 914 000 |
| `translation` | streams, conversations and thinking over all formats | 607 000 |
| `prober_vouching` | the prober unlocks an account that has not answered its ping | violation |
| `refresh_selflock` | a self-locking executor waits for its own caller | violation |
| `import_retry` | an aborted import is not tried again | violation |

Each violation run checks a sentence of the documentation against what the code
does; `findings` in `PROJECT.json` quotes both.

Properties of several parts are named for what they say together.
`JudgedInTime` is the cap on stragglers and the judging on all texts;
`CallsAreBounded` the concurrency gauge and the retries; `PolicyBites` changes of
the key and its budget. In `server_process`, `TakenIsWritten` has one part per
store (somebody is going to write what is taken; the shutdown drains; what was
written stays), `WorkIsShared` speaks of loads, of their failures, of project
ids and of the children of MCP sessions, `NewerStays` of final rows, live samples, hydration and loads, `WaitsEnd`
of usage and project ids, `JobsDoTheirWork` of cold windows and of the day's
credits. In `translation`, `ClientReadsWhatWasSaid` counts words and
calls and looks for stray events, incomplete parts and the one
end, `ClaudeMessages` is the refinement of `ClaudeMessage`; `RequestsAreFaithful`
says that calls and results are paired, that turns alternate where the provider
wants it, results come first, thoughts are signed, all of it after trimming too,
and that words, their speakers and order survive. Every part has a
mutant of the code of its own that breaks it. In `database`, `StartIsSafe` is
four sentences about the start, `ConfigurationHangsTogether` one about ranks and
one about references; `ReadersSeeWrites` exempts exactly the values whose load
and the write overlapped. In `combo_serving`, `CooldownsRunOut` says that a
running cooldown stands and that a HOT model returns once nothing reports 429s of it
any more: as long as they come, each with a Retry-After, its cooldown may be extended for ever
(`modelThrottle.js:62-64`).

Types are checked as a property where rows travel through snapshots
(`accounts`); elsewhere `TypeOK` documents the state, and the proofs
establish it.

### Bounds, and why they are enough

- *Routing*: two accounts are what it takes to fall over; two models what it takes
  for a lock to belong to another model; two requests what it takes for a row to
  change under a snapshot. `MaxAttempts = 3` exceeds the number of accounts, so
  that the loop ends by exclusion as it does with the code's 64. Cooldowns of one
  and two ticks let a lock expire during, between and after attempts.
  `MaxLevel` of one or two reaches the cap. The loop in `accounts` has one request
  because its properties compare a step with the row, and the dashboard and the
  clock already change rows under it; the theorems remove this bound.
- *Prober*: two accounts and one model, so that a ping can be served by its target, once
  the lock has expired, or by the other account; one user request; a lead of two ticks
  against cooldowns of two, so that a sweep finds locks at every age. With one account
  nobody could vouch for another; the theorem removes the bound on models.
- *Refresh*: two jobs of all four kinds, three tokens, so that a token can be
  newest, one behind or two behind; two tries; a memo of two ticks; one executor of each
  kind: with the memo, with the lock inside, with neither.
- *Combo*: two names, a threshold of two hits, a window of two ticks, cooldowns
  1 and 2 and a decay as long as the longest, as in the code. Retry-Afters are none, 1 and 2,
  so that one can lengthen a cooldown that runs and another must not shorten it. `Slack` bounds only
  the history variable `leads`; a reset of the rotation starts it anew.
- *Fusion*: four calls, quorum two, grace two, hard timeout four: answers can
  arrive before the quorum, in the grace period, at its end and after it.
- *Round robin*: two accounts, a limit of two, two selections, one flush.
- *Streams*: two requests of one account, one streaming and one not, are what it
  takes for a countdown, a timer or a slot to be somebody else's; one slot is
  refused to the second. Two URLs and retry budgets of none, one and two let
  statuses alternate in every way that changes a counter.
- *Server*: two ids, batches of two and one row kept, so that batches fill, are
  trimmed and fail half way; three connections against a map of two; two quota
  keys against one entry, so that every load can lose its entry; three children
  and sessions, so that an exit can be late by one child; one restart. The
  components share the database and the end of the process only, so a behaviour
  feeds one of them (`Scenes`) while the process may end in all of them.
- *Background jobs*: a window of three ticks with a lead of one has a tick that is
  far from the reset, one that is near and the reset itself; rests and polling
  intervals of two skip a tick and end. A day of six half-hours and an idle
  interval of two leave room for an idle interval, a refused claim and its retry.
- *Key policy*: one admission per window of two, a budget of one, times to live of
  two and one: everything can expire between any two awaits of a request.
- *Database start*: two releases, two backups kept, three starts: an upgrade, a
  downgrade and an upgrade again, or an upgrade cut short as often as backups are
  kept and one more time. JSON files absent, in order, with rows that do not fit, or
  with content that throws.
- *Caches*: two caches are read in a behaviour, which is what a write that touches
  several tables takes to leave one of them behind; two loads, two writes that drop
  late, two writes of a table.
- *Configuration*: three connections, two nodes of two URLs, one pool, one combo and two
  requests at a time; three operations, so that a request can read, be
  overtaken by a deletion or an import, and write.
- *Translation*: events up to 5 (OpenAI, Gemini, Ollama), 8 (Responses) and 12
  (Claude, which takes three events for a part) suffice for two parts of any
  kinds, a finish, usage and a resumption after it. Four messages are a question, calls,
  results and the next question; a Responses call is an item of its own and gets
  five. A window of seven forces a trimming of one or more turns. Budgets lie
  under the least level, between levels, just under Claude's ceiling and over it, limits
  under the floors and at the ceiling; the theorem about thinking removes this
  bound. Nineteen models cover every
  thinking format, whether thinking can be switched off or not.

Time is capped everywhere at the point where no comparison tells later times
apart. Where a run says `CHECK_DEADLOCK FALSE` (`stream_lifecycle`,
`server_process`, `database`, `import_retry`, `translation`) the system stops by itself: its
requests are answered, its process has exited, its stream is over, its bound of
operations is reached. In every other run
deadlock is checked.

## 4. Fairness

- The event loop resumes every request, sweep and refresh whose awaited value is
  there: weak fairness of their progress actions.
- Upstream calls settle: the code gives each a connect, a first-byte, a stall and a
  total timeout. Panel calls of a fusion are exempt, since the panel has timers
  of its own: `EveryComboAnswers` holds although a call never settles.
- The clock ticks: weak fairness of `Tick`.
- A flush may fail any number of times, but not for ever (`SF` of `FlushDone`).
- Streams: upstream answers and refreshes settle, the HTTP layer pulls a stream until it
  closes, and of the watchdogs only the total timeout is needed
  (`Watchdog(r, "max")`), so `EveryStreamEnds` holds for a provider that drips bytes
  for ever. Nothing bounds the reading of a whole body: the code has no timeout there.
- Server: the usage timer and the immediate flush fire, a started write settles, well
  or badly, and the sweep of project ids comes round to a fetch that is still pending.
- Nothing is assumed of `database`: its properties are safety, and a start may be cut
  short for ever.
- Nothing is assumed of clients, the dashboard or the start of new requests.

`AccountsRecover`, `CooldownsRunOut` and `CountersArrive` are conditional: if
failures, 429s or selections stop, then the state settles. For `CooldownsRunOut` that
is `<>[][Unhit(k)]_vars`: from some point on no step records a 429 of the model.

## 5. Proofs

All are for arbitrary constants that satisfy the modules' named assumptions:
any number of accounts, models, requests, tokens, any cooldowns and caps.

**Routing engine** (`RoutingEngineProofs`). `DistinctAttempts` compares a counter
with the size of a set and is not inductive. `IInv` adds, per request, what each
phase knows: at the gate every call has been paid for by one exclusion
(`attempts = Cardinality(excluded)`), during an attempt the account in use is not
excluded yet and the counter is one ahead, a probe never reaches the marking
phase. With it are proved

- `TypeCorrect`: every reachable state is well typed; its core is that the
  backoff level climbs within `maxLevel` through snapshots and stale reads;
- `NoRepeatedAttempt`: `[]DistinctAttempts`;
- `LocksEarned`: an expiry moves later only by `MarkAccountUnavailable`. The
  typing lemmas of the row operators say what each write can do to an expiry;
- `GivesUpLast`: `NoEarlyGiveUp`, by what the loop invariant knows at the gate;
- `LoopIsFailover`: initial states and steps map to those of `Failover` under the
  mapping of `Promise`, the safety half of the refinement.

**Healing** (the second half of `RoutingEngineProofs`). `SuccessHealsExactly`: `HealIsExact`. It needs one
more invariant, `FitInv`: a snapshot held during an attempt had no lock on its
model when it was taken, and ageing cannot give it one, so the success does find
the model's lock expired or absent.

**Credential refresh** (`TokenRefreshProofs`). `OneCallPerToken` is not inductive:
the memo is what keeps calls apart, so `MemoGuards` states that a call in flight
has a pending entry, that a pending entry has a call, and that no timer runs on an
entry without a result (else `Tick` would drop it). `SharersAwaitACall` is the
same for those who wait. Calls past the memo are kept apart by the connection's lock:
whoever works under it holds it (`HoldersWork`), so of two of them one is the usage
page's, which is the exception the property states. With `FreshIsKept`, which ties a rotated token's memo to
the time since its rotation, follow `RefreshIsSingleFlight`,
`NobodyAwaitsAFinishedCall` and `RotatedTokensRest`.

**Fusion** (`StrategyProofs`). `PanelIsJudgedInTime`: `JudgedInTime`. What is in
hand is a subset of the slots with texts, the grace timer runs exactly from the
quorum on, and the reading loop is never past a text it has not taken; a call
that settles late only adds.

**Combos** (`StrategyProofs`). `RotationIsFair`: `BalancedLeads`. Leads are explained
by completed rounds: there is a base such that every position before `index` has
led a whole round more than those after it, and the one at `index` is `uses` into
its own. A start is one synchronous step and moves along this round; a reset starts it
anew.

**Round robin** (`StrategyProofs`). `StickyRunsAreLimited`: `RunsAreLimited`, under
`Spaced` (no two selections share a millisecond). The account selected last
carries the latest stamp, in memory whatever the rows say, so its use counter is the
length of the present run, and at the limit anybody else available precedes it. Flushes
and restarts move counters between map and rows without reordering stamps.

**Throttle and models of a combo** (`StrategyProofs`). `NoModelIsLost`: `NoModelLost`.
While a request runs, its models are those it has tried, those that were HOT at its
start and those still queued; rotation, reordering and the favoured names permute
the queue. What filtering a list keeps is proved by the least index at which it could
go wrong (`Only` is a recursive function, and induction over lists is not to be
had). `CooldownsAlwaysStand`: `CooldownsStand`, half of `CooldownsRunOut`; a model that
is not HOT has fewer hits than the threshold, so the hit that makes it HOT is the
one that completes them.

**Health prober** (second part of `RoutingEngineProofs`). `UnlocksAlwaysFollowSuccess`:
`UnlocksFollowSuccess`. The prober is one more request of the engine, so `IInv` carries
over; `ProberInv` adds which account and lock a ping stands for while it is under way.
The success that lifts a lock is a request's on its account or that of the ping sent for
it: that the ping was answered by the account itself does not hold (`prober_vouching`).
`NoRepeatedAttemptNextToProber` is `DistinctAttempts` for the composition.

**Key policy** (`DatabaseProofs`). `PolicyAlwaysBites`: `PolicyBites`. Whatever is in
the cache, or on its way into it, and is not what the row says was read before
the row's last change; so it expires within a time to live of it. `RateStaysCapped`:
`RateIsCapped`. Admissions are counted by request and the limiter's list by stamps;
`RateInv` relates them by a function that gives every admission still in the window a
stamp of its own, which overlapping requests cannot share.

**Caches, start and configuration** (`DatabaseProofs`). `ReadersAlwaysSeeWrites`: what is
cached, or being loaded to be cached, is older than a finished write only if the load
overlapped it; a write's promise is told from the drops it still owes. `StartsAreSafe`:
each step of a start is tied to what it leaves behind (version, backups, columns,
JSON rows), so that a start which finds the traces of another that was cut short
goes on from there. `ConfigurationAlwaysHangsTogether`: `CatalogInv` adds what a
request under way knows of the rows it has read, that the priorities of a provider
follow their renumbering, and what an exported copy holds.

**Server process** (`ServerProofs`), each store next to the others and the end of the
process:

- `TakenStaysWritten`: `TakenIsWritten`. For the usage queue and the request details,
  that everything owed is in the buffer, in the batch under way or in the table, and
  that a timer or a flush answers for what is buffered (`UsageInv`, `DetailInv`,
  `OwedIsWritten`); for latencies, that what is dirty is scheduled (`LatencyInv`).
- `WorkStaysShared`: `WorkIsShared`. A load or fetch in progress has its entry, unless the
  entry was evicted and the load knows it (`QuotaInv`, `ProjectInv`); sessions belong
  to the child that is registered for them (`BridgeInv`).
- `NewerAlwaysStays`: `NewerStays`, from the same invariants: versions in a batch are
  never newer than those issued, samples of the process are newer than stored ones.
- `DaysStayClaimed` and `JobsAlwaysDoTheirWork`: the claim of the day is bounded by what
  is left of the idle interval (`CheckinInv`); a window that is idle for *k* ticks has seen
  *k* ticks of rest or of readings that could not know (`PingInv`, for every target).
- `PingsStayNeeded`: `PingsAreNeeded`. An answer of the cache is at most a tick old when
  it is used, and the reset the job remembers is as old as the reading it is from.

**Thinking** (second part of `LifecycleProofs`). `ThinkingIsAlwaysHonoured`: `ThinkingIsHonoured`, for every set
of models, budgets and limits. Every conversion keeps an order: levels to budgets,
budgets to levels, levels to the levels of a format (`ToLevelKeepsOrder`,
`LevelForKeepsOrder`, `ToldKeepsOrder`), and Claude's limit always exceeds the budget that
is fitted to it (`Reconciled`).

**Stream lifecycle** (`LifecycleProofs`). Per request, what each phase and each
pair of ends knows about its counts (its *fate*); for all of them together, that the
gauge equals the calls in progress, the counter is at most the set of those
owed, and a call's requests are at most what its URL and tries explain. From
these: `RequestsAreCountedDown`, `StreamsAreRecorded`, `CallsStayBounded`,
`PendingStaysOwed`, for any number of requests, URLs, slots and retries.

**Streams in translation** (`TranslationProofs`, `FoldSteps`). `ClientReadsHolds`:
`ClientReadsWhatWasSaid`, and `ClaudeMessagesHold`: `ClaudeMessages`, the refinement of
`ClaudeMessage`, for streams of any length, every pair of formats and any point at
which the provider stops. Both rest on `StreamInvHolds`. The client reads behind the
translators, so nothing inductive can be said of its view alone; `StreamInv` speaks of the view
it *will* have:

- `Reads` is the chain of views from now through the events on their way; each
  event `Fits` the view it meets: a block is opened under the next number when
  everything but calls is closed, arguments come to an open call once, the end when nothing
  is left open. For Responses clients the items take the place of the blocks, and
  an event may miss once the provider has resumed what it had left.
- `Carried` ties the view at the end of that chain to the provider's words, thoughts,
  calls and finishes so far and to the second translator's fields (`Blocks` for Claude,
  `Items` for Responses): which block is open, which calls have their arguments.
- `FirstOk` ties the first translator's fields to what the provider may say next: the
  number of a Claude block, the call that is open, the finish that was sent.

Each handler of a chunk keeps `Carried` (`Heard` for a list of chunks), each event of
each provider yields chunks that say just its parts. The handlers' loops are folds;
`FoldSteps` shows once that a fold takes one element after the other and is
instantiated for each operator that is folded, which is how induction over lists is
had without an operator as a parameter. For `ClaudeMessages`, `Fits` is exactly the
guard of the abstract action, and `BlocksOf` its refinement mapping.

**Requests in translation** (third part of `LifecycleProofs`). `RequestsAreWellFormed`: in
whatever is sent to Claude or Gemini, no two messages of one role are neighbours; Claude
finds results before anything else of a turn and no two with one id; providers of its
protocol that check signatures get no unsigned thought and, as DeepSeek does, one with
every message that calls when the model is to think; no Gemini content is empty. This is the shape in `RequestsAreFaithful` (`TurnsAlternate` but that no Claude
message is empty, `ResultsComeFirst`, `ResultsAreSingle`, `ThoughtsAreSigned`), for
conversations of any length and without
`Sendable`: it holds halfway through a client's turn and for results sent twice as well.
What the repair passes leave depends on what they are given, so `RequestInv` says what
each client's bodies consist of (`ClientBody`: no message is empty, each role speaks its
own parts, results ahead of the rest, a tool's message only results and only where the
format has the role), and a chain of lemmas takes lists of such messages to lists of
messages of OpenAI's form (`ClaudeConverted`, `GeminiConverted`, `AntigravityConverted`,
`ResponsesConverted`, `FixedIs`) and from there to those of the provider's
(`ClaudeTarget`, `GeminiTarget`). `FlattenSeqIs` says what a
flattened list of lists consists of, `SieveFacts` what a filtered one does;
merging neighbours, collecting Claude's messages and gathering Responses items are
folds again, with an instance of `FoldSteps` each.

**Model-checked only.** Liveness (`EveryRequestAnswered`, `AccountsRecover`,
`SweepsEnd`, `EveryRefreshEnds`, `EveryComboAnswers`, the return of HOT models in
`CooldownsRunOut`, `CountersArrive`, `EveryStreamEnds`, `WaitsEnd`, the fair half of
`ImplementsFailover`), which the prover does not handle; and of `RequestsAreFaithful`
that calls are answered, that history is kept and that trimmed requests are still
accepted: these compare positions across whole lists of lists before and after every
pass, and trimming takes a closure over them.

## 6. Not modelled

`PROJECT.json` gives the reason for each component. In short:

- *Pure conversions, tables and I/O* stay out for good: the provider registry and
  price tables, usage fetchers, prompt reduction, OAuth dialogues (their result
  is `FreshRow` and `Login`), proxy dispatchers, the providers' own executors
  but for what `ExecutorRetries` and `TokenRefresh` take from them.
- *Dashboard pages* are one user's view; what they write is modelled as requests
  (`Operator` in `RoutingEngine`, `editing` in `Catalog`). They are a large part of
  the repository's lines, as are the tables: the share of lines that a definition
  stands for stays small for that reason.
- *Conversation pins* (`open-sse/services/sessionPinning.js`): a bounded map read
  and written synchronously; it appears as the pinned account of `StickyRoundRobin`.
- *Contents*: a cached list is a version number, a migration a count, a
  credential, a text or an error message whether it is there.

Two consequences for the modules there are: one SQL statement or transaction is
one step, and the connection list cache is invisible outside `HotCaches`, which
shows when that is justified.

## 7. Differences seen

**With a run** (`findings` quotes the sentences). `refresh_selflock`: the executor of
codex and grok-cli awaits the lock its caller holds. `import_retry`: an aborted import is
not tried again. `prober_vouching`: the account whose lock is due is filtered out by that
very lock (`src/sse/services/auth.js:166-170`) before the pin is looked at (`:223`), so
with a second account it is the other that answers the ping, and on its success
`healthProber.js:74` unlocks the account that nobody has tested, against the header of
`healthProber.js`. `UnlocksFollowSuccess`, which holds, asks only that the ping sent for a lock
has succeeded.

**Without a run**: met while reading, reproduced by the models, not kept as runs because no single
sentence of the repository is contradicted, or because the effect is slight:

- A lock that was expired in the snapshot is swept by a later success although
  another request has renewed it since (`src/sse/services/auth.js:370`);
  `UnlocksFollowSuccess` exempts it.
- An account-wide lock is not seen while an expired lock field of the model is
  still in the row (`open-sse/services/accountFallback.js:125`).
- Unlocking from the dashboard leaves `errorCode` behind
  (`src/app/api/models/availability/route.js:122`).
- A caller served from the memo may persist an older token over a newer one
  (`open-sse/services/tokenRefresh/dedup.js:22`).
- The throttle's escalation decays from the time a throttle *began*
  (`open-sse/services/modelThrottle.js:43`). Since the decay equals the longest
  cooldown, a model that has served the longest one relapses at level 1, where the
  constant's comment says "clean this long" (`:21`).
- A single usable panel answer is asked for again
  (`open-sse/services/combo.js:588`), where the header says "return it directly"
  (`open-sse/services/combo.js:508`).
- Two selections in one millisecond tie and priority decides, so the sticky limit
  can be exceeded (`src/sse/services/auth.js:98`); with `Spaced = FALSE`,
  `RunsAreLimited` fails.
- The error state of an account is reset when the row *as it was at selection* had
  no other active lock (`src/sse/services/auth.js:387`; the comment at `:395` says
  "no active locks remain").
- The executors of antigravity and workbuddy refresh without the memo
  (`antigravity.js:298`, `workbuddy.js:422`), and the usage page calls the executor
  without the connection's lock (`src/app/api/usage/[connectionId]/route.js:49`): next to
  a refresh of that page one token of theirs can be in two calls at once, and a request
  that still holds a rotated token spends it again. `OneCallPerToken` and
  `NoHastyRespend` exempt just this.
- The memo of refresh results keeps failures too (`tokenRefresh/dedup.js:32`, comment
  at `:29`). A HOT model addressed by an alias is not recognised
  (`modelThrottle.js:131`).

**Requests in progress.** The safety net for a leaked count is one timer per account
and model: another request's end clears it (`usageRepo.js:408`), so a count leaked
by a refusal (`chatCore.js:303`) may never be reaped. A flush after a cancel counts
down twice. The body of a whole answer is read without a timeout; retried bodies
are not cancelled (`base.js:181`). A second `execute` runs without a slot. A flush
that throws leaves the usage placeholder of 0/0.

**One process.** A late exit event deletes the newer child's entry
(`stdioSseBridge.js:137`); the shutdown route does not call `killAllBridges`,
whose comment says it is (`:163`). A rejected promise stays on a quota entry that
has a value (`quotaFetchCache.js:59`) and versions start again after eviction. An
aborted project-id fetch removes the pending entry of a newer one
(`projectId.js:117`). A latency flush before hydration replaces the stored map. A
signal loses buffered details and usage (`initializeApp.js:15`). A failed save
of sql.js waits for the next change, and every write postpones the save anew.
Usage rows with one timestamp and equal tokens collapse. A key's
record and its policy come from two lookups that may disagree, against
`apiKeysRepo.js:259-261`; requests in flight overspend a budget.

**Background jobs.** The check-in claims with the session it had before a 401
(`workbuddyAutoCheckin.js:178`): refused, and claimed half an hour later. Its idle
interval of four hours knows no midnight, so the credits of a day are claimed within
four hours and not "within ~30min of midnight" (`:22`); `EachDayIsClaimed`
is stated for what the interval allows. A codex ping whose answer never ends leaves
`running` set, and no account is pinged again until a restart
(`quotaAutoPing.js:135`, `PingHangs`). A ping of a stable window may be sent five
seconds early and then belongs to the window that ends (`PingsAreNeeded` exempts
it); its reset counts as pinged. Half an
hour to five minutes before a reset, a reading sets the next one a whole tick later than
itself, so every second tick is skipped.

**Database and configuration.**

- With sql.js the import marker is on disk before the database: a crash in the next
  100 ms loses the import for ever. A crash after the first migration's commit
  leaves a database that is no longer fresh, so the JSON files are never imported.
- A start that is cut short again and again prunes the backup of the database as it
  was before the upgrade (three are kept). A column whose `ALTER` failed is added by a
  later start without a backup. `driver.js:96` keeps a rejected promise for the life
  of the process.
- A settings load that overlaps a write leaves the old value in the cache until the
  next write (`settingsRepo.js:216`; comments at `:200` and `:241`). The deletion
  of a node and the import leave the prices' cache, though `index.js:293` says "drop
  every hot-path cache".
- A PUT of a connection writes back the provider data it has read
  (`src/app/api/providers/[id]/route.js:136`), so a pool deleted meanwhile is named
  again, which `proxyPoolsRepo.js:139-141` wants to prevent; two PUTs lose an update.
- The dashboard swaps two priorities by two parallel PUTs counted from 0
  (`dashboard/providers/[id]/page.js:964`): with the renumbering and its ties, other
  connections may move, or nothing.
- POST of a connection always asks for priority 1 unless told otherwise; when it
  overwrites one of the same name no renumbering follows. The name of a combo is
  checked before, not with, its insertion. A node's new URL is copied to its
  connections one by one from an earlier list. An import wipes the `mitmAlias`
  scope, which no export contains.
- The DELETE route of a node calls `deleteCustomModel` with a string, which deletes
  nothing; the repository has done the work before.

**Streams.** Ollama numbers the calls of every message from 0, so those of different
messages merge. A stream cut off without a finish never ends for Claude clients of
other formats, nor for Responses clients of Claude, Gemini and Ollama. The
Responses translator may add to an item that is done, emits a delta for no item
after a stray `</think>`, completes an empty response that was never created and
skips a call that shares its chunk with words between thinking marks. Words after
Gemini's first finish reason are lost to Claude clients; a chunk of images only is
dropped for OpenAI clients (`streamHelpers.js:38`).

**Requests.** `gemini-to-openai.js:113` returns at a content's first function
response. Gemini ids come from function names, so of two calls of one function the
later result is dropped for Claude. Empty results are dropped for Gemini and
Ollama; developer messages are lost for Claude, Gemini and Antigravity; Gemini keeps
only the last system message and Responses the first; text after a call is
dropped for Claude. `fixMissingToolResponses` looks at the next message only.

**Trimming and thinking.** Ollama bodies carry no tool ids, so trimming may part a
call from its result, against `trimmer.js:25-26`; for Claude and Gemini a message
of results counts as the user's turn. The notice is inserted even when nothing
was removed, after the check that the body fits. "auto" and "minimal" are sent to
providers without such levels; "minimal" gives Claude a budget of 512, under the
1024 it asks for; `output_config.effort` overrides an explicit "disabled"; the
`none` level of deepseek models that cannot disable thinking becomes "high". A Claude
client that asks for a budget of just under the ceiling gets it, one that asks for the
ceiling or more gets less (`claude.js:247-251`): 63 999 stays, 64 000 becomes 62 976.
"none" gives a model that cannot stop thinking 512, more than a budget of 100 would.

## 8. Plan

Done, in this order: account pool and engine, credential refresh, prober, combos,
throttle and fusion, round robin; stream lifecycle with its executor retries, the
write-behind stores, in-memory caches and background jobs in one process, the key policy;
translation of streams and of requests, trimming, thinking; the start of the
database, the caches and the configuration; theorems of every component, of the
translation of requests the shape only.

Next:

1. The retries and session handling of the executors that override `base.js`
   (`antigravity.js`, `codex.js`, `grok-cli.js`), as further instances of
   `ExecutorRetries`.
2. The model list of `src/app/api/v1/models/route.js` with its caches, after the
   manner of `HotCaches`.
