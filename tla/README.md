# A TLA+ model of freebuff-unified

`freebuff-unified` (Go, `src/`) is a gateway: it offers the OpenAI, Anthropic
and Responses APIs to local clients and answers them from one "freebuff"
account upstream, or from a backend it relays to.  Around that it keeps blind
A/B evaluations, snapshots of a public leaderboard, a deep-research harness,
search, and a pool of egress proxies.

This directory holds TLA+ modules translated from that source, TLC
configurations that check them on small instances, and proofs, checked by
TLAPS, that hold for every value of the constants.

    tlc -workers 2 -config MCSession_safety.cfg MCSession    # one run
    tlapm SessionManagerProofs.tla                           # one proof module

`PROJECT.json` lists, for each run, its module, configuration and properties;
for each property the mutated definition that breaks it; for each definition
the lines it models (`map`); and the hazards and findings referred to below.

Contents: 1 inventory, 2 modules, 3 runs, 4 fairness, 5 proofs, 6 findings,
7 what the models leave out, 8 plan.

--------------------------------------------------------------------------

## 1. Inventory

Calls run downwards; every HTTP request is a goroutine of its own.

    clients ── routing, auth, rate limiter ── handlers
                                                │
       ┌────────────────┬───────────────┬───────┴────────┬───────────────┐
    streamed chat   deep research   eval store   leaderboard snapshots  dashboard
       │                │                                 │
    session manager, credential store, run cache      search cache
       │                                                  │
    upstream chat client ────── stealth transport ── egress proxies ── sidecars

| component (source) | state | operations | what is hard | what makes it correct |
|---|---|---|---|---|
| **session manager** `internal/session/manager.go` | the bootstrap in flight, a 30 s cache per model; remotely, ONE session per token | `EnsureActive`: fast path, GET, end a session of another model, shared bootstrap, poll a queue | callers for different models share one session and one bootstrap; cancellations; replies lost after the effect; retries | one leader at a time; every waiter is let go; no session replaced while in use; the caller gets its model; every call returns |
| **eval store** `internal/eval/store.go`, `import.go` | index in memory, a JSON file per eval | Create, AddRound, RecordVote, Reveal, Import, save, load | the save happens after the unlock, of a copy that shares memory with the index; failed saves; restarts | the file never contradicts the index; one vote per round; labels hidden until a Reveal; answers are durable |
| **leaderboard snapshots** `internal/lmarena/leaderboard.go` | a cache file per category, one in-flight flag, one condition variable | `Get`: serve, refresh, wait | one flag for all categories; failed fetches and writes; torn files | a cached snapshot shields its callers; no second download; every sleeper wakes |
| **streamed chat** `internal/httpapi/chat_service.go`, `backend_chat.go`, `handlers.go`, `research.go`; `internal/freebuff/client.go` | per request: three goroutines and two pairs of channels | Stream, forwardStream, inspectStreamStart, the writers of three APIs | deltas and errors travel by different channels; closing order; disconnects, timeouts, cancellation of half of a pipeline | text in order and complete; failures told; every goroutine ends |
| **upstream chat client** `internal/freebuff/client.go` | HTTP client | agent run, chat request, transport retry, session recovery | POSTs sent twice; recovery that recurs; a session started behind the manager's back | an answer belongs to the request's run; recovery stops |
| **token pool** `internal/session/pool.go` | tokens, who uses them, lock times | Acquire, Release, MarkLocked, Remove | release of a removed or reused token | no token has two holders |
| **run cache** `internal/cache/run_cache.go` | FIFO + TTL map of agent runs | Get, Set, Delete | check under the read lock, delete under the write lock | bounded; what is to be evicted can be found |
| **credential store** `internal/credentials/` | file, one-second cache, lock file | Load, Save, Delete | Load races with Save | a login is seen after at most a second |
| **rate limiter** `internal/httpapi/ratelimit.go` | token buckets by key, a global one | allow, purge | purge of live buckets | no tier exceeded |
| **status caches** `serve_stale.go`, `health_all.go`, `readyz.go` | last payload and its time | get, rebuild | overlapping and failing rebuilds | a report somebody has got is not taken away; an old one only if the build failed |
| **deep research** `internal/httpapi/research.go`, `internal/parallel/` | per request: a fan-out of searches and extractions, an adaptive limit | plan, search, extract, synthesize, relay | collection of partial results, limits changed while workers run | what any query found is in the report, the limit is respected |
| **search cache and clients** `internal/websearch/` | memory + file per query | Get, Put, three search clients | removal of an expired file races with a new one | no answer older than its time to live, whole ones only |
| **egress proxies** `internal/stealth/proxy.go`, `usproxy.go`, `refresher.go`, `metrics.go` | list of proxies with failures; the refresher's pool | Next, MarkFailure, MarkSuccess, Replace, refresh | the list is replaced while its entries are in use; every step of a refresh may fail | only a refresh that was carried through touches the pool; strict geography fails closed |
| **stealth transport** rest of `internal/stealth/`, `internal/hermes/` | sidecar client, header profiles | RoundTrip with fallback | a consumed body is sent again | one request, one answer |
| **configuration reload** `internal/config/` | debounce timer, current config | watch, reload | events during a reload | the last version is loaded in the end |
| **dashboard** `internal/dashboard/` | history, subscribers | probe, subscribe, publish | slow subscribers; results between subscription and catch-up | bounded, never blocks the prober; no result falls through |
| **login flow** `internal/oauth/flow.go`, the commands of `main.go` | the credential file | request a code, poll, save, log out | interruption between the steps; a failed step | what the user is told has reached the file |
| **answer relays** `handlers.go`, `research.go` | per request: a goroutine, a channel of frames, the writer | produce, keep alive, relay a verdict | a full channel whose reader has left; the end races with the last frame; the response's write deadline | one verdict, told last; no goroutine outlives its response |
| **routing, middleware** `server.go`, `middleware.go`, `internal/proxy/`, `lmarena*.go` | none | route, authenticate, relay | - | - |
| **wire formats** `internal/anthropic/`, `internal/openai/` | none | convert requests and answers | pure functions | round trips |
| **process wiring** `cmd/freebuff/main.go` | none | parse flags, build, serve, shut down | - | - |
| **sidecars** `deps/` | separate Node programs | fetch for the gateway | - | external |

Interactions that matter to the models: chat handlers call
`FreebuffChatService`, which calls `EnsureActive`, loads a credential, asks the
run cache for an agent run and then streams; recovery in the upstream client
(`client.go:894`) restarts a session without telling the manager; the
leaderboard and eval stores are called directly by handlers; the refresher
replaces the proxy pools' contents underneath the transports that use them.

`PROJECT.json` "hazards" has 40 hazards at their lines, each with the
properties that would catch it; a "note" says where a property covers only a
part of its hazard.

--------------------------------------------------------------------------

## 2. Modules

    SingleFlight  <───── implements ── SessionManager ── SessionManagerProps ── SessionManagerProofs
                  <───── implements ── Leaderboard    ── LeaderboardProps    ── LeaderboardProofs
                                       EvalStore      ── EvalStoreProps      ── EvalStoreProofs
                                       ChatStream     ── ChatStreamProps     ── ChatStreamProofs
    MC* EXTENDS *Props and gives TLC its values

                        ┌ TokenPool, RateLimit, ProxyPool, Refresher   ── PoolProofs ──┐
                        ├ RunCache, SearchCache, StatusCache,                          │
    MCGateway EXTENDS ──┤   Dashboard, Credentials                     ── CacheProofs ─┤
                        ├ UpstreamClient, Relay, Research              ── ClientProofs ┤
                        └ ConfigReload             ── GatewayProofs, which EXTENDS ────┘

`X` has the state, one action per operation or atomic step, `Next`, `Spec` and
(where liveness is claimed) its fairness; `XProps` states the properties,
`XProofs` proves them, `MCX` and its `.cfg` files instantiate them.  The
thirteen smaller modules of the second group hold their properties at their end
and share no name with each other (`PoolInit`, `RunNext`, ...), so that one module
can extend them all: in `MCGateway` the variable `part` picks in the initial state
the one that moves, and `[GatewayNext]` restricted to a part is that
component's own `Next`.  Definitions marked "Mutant" are plausible mistakes in
the definition that follows them; no specification uses them.

### SingleFlight
The abstract specification: at most one owner of a flight, everybody else
waits, landing lets ALL waiters go in one step.  Two components implement it.

### SessionManager
A client is a goroutine inside `EnsureActive`; `pc` is what it does next.

| `pc` | code |
|---|---|
| `idle` | outside; `Begin` is the call, the fast path (manager.go:103-117) and `Store.Load` |
| `get` / `look` | `GetSession` of `resolveSession`; `lookupBootstrap` for a queued one |
| `end` | `EndSession` in `restartSessionForModel` |
| `join` / `wait` | `startBootstrap`; `waitForBootstrap` |
| `recheck`, `lend`, `start`, `lpoll`, `lpend`, `finish` | the leader: second look, EndSession, StartSession, polling, ending a session that came up for another model, `finishBootstrap` |
| `poll`, `pend` | polling by a caller that leads no bootstrap |
| `store` | writing `activeCache` |

`out[c]` is both the last reply and the result; `bootstrap` is
`Manager.bootstrap`, named by its leader; `cache[m]` the unexpired entry of
`m`.  One action is one access to what clients share (state under `mu`, the
cache under `activeCacheMu`, one HTTP request) and what follows locally.
`Finish` is one action because `finishBootstrap` clears the pointer and closes
`done` under `mu`, and waiters only read the result after that.  The upstream
is external: replies may be lost before or after their effect, a queue admits,
other devices take over (`Disturb`).  `Serves` says what models the upstream
opens when asked for one; the manager does not check it (see 7).

### EvalStore
One eval.  `index` is the slice header in memory (array, length), `cells` the
backing arrays, `file` the file.  A worker is a request: its operation runs
under `Store.mu` in one action and leaves it in `marshal` with a shallow copy
of the slice; `Marshal` reads one round per step, so it sees votes cast
meanwhile in the shared array; `Rename` replaces the file.  `append` either
stays in the array or moves to a new one (at most `MaxMoves`).  `Restart`
loses memory and reloads; `SaveFails` tells the client nothing.  `told` records
what clients were told had been done, `opened` which rounds were ever revealed,
`raced` whether two saves have overlapped.

### Leaderboard
A client is a goroutine inside `Get`.  A section under `l.mu` is one action;
writing a cache file is two (`WriteFile` truncates, then fills) because
`waitRefresh` reads without the mutex and the process may stop between them.
`inflight` is one flag for all categories, `Land` clears it and wakes everyone.

### ChatStream
One streamed answer: producer, forwarder and writer, joined by pairs of
channels (`deltas`, unbuffered or of capacity 16; `err`, of capacity 1).  One
action is one choice of a `select` or one step between two of them; a send on
an unbuffered channel is a sender that waits and a receiver that takes.  A
closed, drained channel that a loop has seen leaves `fwd` or `hears` (the code
sets its variable to nil).  Routes are those `main.go` wires: the native
service for all three APIs, the backend for `/v1/responses` only.

### UpstreamClient
`Client.Complete` and `Client.Stream` up to the head of the answer.  `pc` is the
request a call is at: the agent `run`, the `chat`, or, in recovery, `start`, `get`
and `poll`.  `path` and `attempt` are the loop of `doJSONRequest`: a request goes
through the sidecar, its failure is handed to the `direct` path
(`hermes_roundtrip.go`), a broken connection waits in `backoff` for another
attempt; `sends` counts what the upstream got.  `slot` is the one session the
upstream has for the account, which the recovery of one call takes from another.

### Research and Relay
`Research` is one run of the harness: `phase` is where `runResearch` is, `asked[q]` the
goroutine of query `q` with its hits and pages, `width` the capacity of the
semaphore (the adaptive controller may have narrowed it), `evidence` the map that
is filled under the mutex, `late` the run's deadline.  `Relay` is how long answers
reach the client: a `pump` goroutine emits into `frames`, the `writer` takes them, and
either may see the context end first.  It has the five variants of the code, which
differ in who opens the upstream, whether there is a verdict, who returns when, and
whose end cancels the context (`Return`, `TellVerdict`).  A write fails when the client has
gone (`present`), or when the response is `overdue`: `WriteTimeout` (310 s, server.go:86) is one
deadline for all the writes of a response.  That is how fasthttp, which is not under `src/`,
implements it, and no heartbeat extends it (finding 8).

### Credentials
The commands `login` and `logout` write the file in the steps of `Save` (`WriteTemp`,
`Rename`, `Chmod`) and may be interrupted at each; the server reads it twice per chat
call through a cache of one second.  A call's `calm` says that nothing changed
within its second.  `StoreWired` is whether `oauth.Flow` was given its Store:
`main.go` does not (finding 6).

### TokenPool, RunCache, RateLimit
The token pool's objects are numbered (`gen`), because callers keep pointers that
outlive the map's entry; `misused` records removals in use and double releases.
The run cache has its two locks as two actions of `Get`.  The rate limiter has one
action per bucket lock; `taken` counts what was granted.  `orphaned` are the
identities the purge gives a second bucket's worth: one whose bucket was purged
while a request was on its way to it, and one whose next bucket is seeded by a
request that began before others (`SeededLate`), so that it is full as of a time
that has been refilled for already.

### SearchCache, StatusCache
The search cache has an entry in memory and a file that is truncated and then
written; a `worker` carries what it has read across steps of others, a restart
empties the memory.  The status caches look, build without the lock and store
under it again: a request carries what it read (`seen`) and when it began.

### ProxyPool, Refresher
The background refresh is a sequence of actions (download, geo check, health check,
install) between which callers take proxies and report on them.  `confirmed` is the
history of lookups.  `Slot` indexes with the cursor itself, as `Next` does, and `ProxyTyped`
says that it is a place in the list, or 0.  The refresher's `cycle` has the candidates still to probe, those
being probed (at most `Concurrency`), those up, and those in the US.  `Replaced` is
`USProxyPool.Replace`, which skips what is not in `Parseable`: that a candidate answered its
probe does not mean that net/url parses it, as the sidecar reads addresses more
leniently (finding 7).

### ConfigReload, Dashboard
The reloader's goroutine is its `select`: an event arms the timer, the timer loads,
a load becomes current in a step of its own.  An edit is two events, with a file
in between that may or may not decode.  The dashboard stores a result, then
offers it to each viewer's channel, which may be full; a viewer subscribes first
and catches up afterwards, with the result that is last by then (`caughtUp`).  What its
channel holds by then is written after it and may be older or the same: the stream as a
whole may go back once.  What comes through the channel (`ViaChannel`) is in order.

--------------------------------------------------------------------------

## 3. Runs

All runs end within two minutes on two cores; `session_safety` is kept small by
symmetry of clients and models, `gateway` by letting one component move at a
time (218,247 distinct states, about 90 s).

| run | instance | question |
|---|---|---|
| `session_safety` | 3 clients, 2 models, one call each, MaxPolls 1, 2 faults, symmetry | one leader per bootstrap, no orphaned waiter, no session replaced while nothing fails, right model, dedup is invisible for one model, `IsSingleFlight` |
| `session_live` | 2 clients, 2 models, 2 calls each, unlimited polling, 1 fault | every call returns, every flight lands |
| `session_cache` | 2 clients, 2 models, 2 calls each, no fault | violated: the 30 s cache serves a session the manager ended (finding 1) |
| `eval` | 2 requests, 2 rounds, 1 move, 2 kinds of vote, any number of failed saves and restarts, symmetry | the file is a past of the index, answers that did not race are durable, blindness |
| `eval_durable` | the same | violated: an acknowledged change is lost (finding 2) |
| `leaderboard` | 3 clients, 2 categories, 2 calls each, 1 fault or restart | a cached snapshot shields callers, no second download, every call returns, `IsSingleFlight` |
| `leaderboard_wait` | 3 clients, 2 categories, one call each, no fault | violated: a woken caller finds no cache (finding 3) |
| `chat` | all four routes, buffer of 2, 4 deltas, 1 failure, any disconnect or expiry | text in order and complete, chat streams report errors, answers end with their upstream, leaving frees the gateway's goroutines |
| `chat_lost` | `/v1/responses`, 1 delta, 1 failure | violated: a failure is lost (finding 4) |
| `chat_leak` | all routes, 2 deltas, no failure | violated: the native producer outlives its client (finding 5) |
| `gateway` | the thirteen small components, bounds below | `AllTyped` and one or two properties per component (table below) |
| `login` | `Credentials` with `StoreWired = FALSE`, 2 commands | violated: a login that was granted is not saved (finding 6) |

| property of `gateway` | component: question |
|---|---|
| `OneHolder` | token pool: no token has two users, unless one broke the pool's protocol on it |
| `EntriesCanBeEvicted` | run cache: never beyond its bound, through a late deletion of a key stored anew |
| `WithinBudget` | rate limiter: no tier grants more than bucket and refill, whatever races and whatever is purged |
| `CallsAreCurrent` | credential store: a second after the last change a call uses the file's credential twice, never a torn one |
| `ServedWithinTtl` | search cache: no copy, overlap, torn file or restart makes an answer too old or mixes two |
| `LastVersionLoaded` | configuration reload: the last edit becomes the configuration |
| `ViewersMissNothing` | dashboard: every result that was offered is covered by the catch-up or comes through the channel, in order there and once, unless a full channel had no room; the history ends with the newest |
| `StrictFailsClosed` | proxy pool: no unconfirmed proxy enters a strict, verifying pool |
| `PoolKeepsServing` | refresher: whatever fails, only a refresh that was carried through touches the pool; what it lets in answered and parses, none twice, from the US if any is; nothing is left only if a preferred candidate does not parse |
| `BoundedResends`, `CallsEnd` | upstream client: requests are not sent more than once per attempt and path; a deadline ends every call |
| `NothingFoundIsLost` | deep research: what any query found is in the report |
| `VerdictIsTold`, `PumpsEnd` | relays: a client that stays gets one verdict, last, up to the write deadline and a streamed research's own; no goroutine stays behind |
| `StaleShields` | status caches: a report somebody has got is not taken away by builds that overlap or fail |

**Bounds, and why they are enough to see the interesting cases.**
Sessions: three clients give a leader, a waiter and a third that arrives after
the bootstrap ended; two models give the mismatches; two faults let a leader be
cancelled and its successor fail.  Calls are bounded because the code lets
callers come for ever; liveness is about the calls made, and a third model or
an endless stream of callers CAN starve one (each ends the other's session), so
`EveryCallReturns` rests on `MaxCalls`.
Evals: overlap needs two requests; two rounds are needed for a partly marshalled
slice and for an append that moves the array while the old one is being saved.
Labels: one model label and the empty label tell everything the code branches on.
Leaderboard: the third client waits while the second refreshes for the other
category.
Chat: four deltas fill a buffer of two, with one in the producer's hand and one
at the writer; capacity 2 stands for 16, no guard compares it with anything but
fullness.
Token pool: two tokens and two holders make every pass of Acquire happen, the
third session replaces one of the first two.  Run cache: three keys for two
entries; one late deletion is enough, deletions of two getters commute.
Rate limiter: two clients for a map of one bucket purge each other, two
requests race between the tiers, four calls empty the global bucket (4 per
minute; 3 per account, 1 per client) and two minutes refill it.
Credentials: a login and a logout (or two logins) over two seconds of a
one-second cache; one call already reads twice.
Search cache: two writers, a life of one tick, two ticks.  Configuration
reload: three versions, so that an edit comes during the reload of the one
before.  Dashboard: four probes for a channel and a history of two (4 and 60 in
the code; only fullness is compared).  Proxy pool: two hosts, two refreshes,
two failures (3 in the code).  Refresher: two candidates for a pool of one, and a third
that does not parse.
Upstream client: two calls of any model, one of each kind (through the sidecar
with a deadline, streamed past it without one), two attempts as in the code;
recoveries are unbounded.  Research: two queries, two pages, both kinds of
backend, a report with room for one.  Relay: a channel of two, four frames.
Status caches: two askers, a life of one tick, two ticks.

Deadlock is not checked in the runs where every caller has made its calls (the
system may stop there) and is in `eval`, where a restart is always possible.

--------------------------------------------------------------------------

## 4. Fairness

Weak fairness of each goroutine's steps (the Go scheduler runs what can run,
and a mutex is not held for ever), and of the waiting room's admission
(`Admit`: without it a queued session waits for ever, and so does the code,
which polls without limit).  Nothing makes callers call, contexts end, entries
expire, files go stale or processes restart.  In `ChatStream` the upstream may
stall for ever: only the gateway's goroutines are fair, plus the heartbeat by
which a writer finds that its client has gone (`Stop`); `EndsWithUpstream` is
therefore conditional on the upstream having ended.  HTTP requests in
`SessionManager` and downloads in `Leaderboard` are answered eventually, or time
out: the clients the code builds have timeouts.

In `gateway` three components have a liveness property and state their own
fairness.  `ReloadFair`: the debounce timer fires, and the reloader's goroutine
goes on when its `select` has something to receive; edits are not fair.
`UpstreamFair`: the steps of a call (an attempt is answered or fails: the
transports have timeouts) and the deadline of a call that has one; which calls
have one is `Timed`, from the contexts and connection limits of `server.go` and
`handlers.go`.  `CallsEnd` speaks of these only, as a call without a deadline can
recover for ever.  `RelayFair`: the pump and the writer of a response run, and
what the pump waits for ends by its own timeout; clients need not leave.

--------------------------------------------------------------------------

## 5. Proofs

58 theorems are listed in `PROJECT.json`.  They hold for any number of clients, models,
rounds, categories, deltas, tokens, proxies and faults; the constants' assumptions
(`SessionAssumption`, ...) are named in the modules that declare them.  They ask that
bounds be natural numbers, and positive where nothing could happen otherwise (the capacity of
the backend's channel, 16 in the code; the seconds and versions a model counts).

Every safety property that a passing run checks is stated by a theorem; the
type invariants of `MCGateway`'s components are proved one by one and, as `AllTyped`,
for the composition.  Liveness is out of the prover's reach, but what a liveness property
rests on besides fairness is not: for five components a pair of theorems says that

* *nobody is stuck*: until the work is done the guard of some step holds (written out as
  a state predicate, since ENABLED cannot be expanded), and
* *the work runs out*: a measure in `Nat` falls with every step the code takes by itself and is
  raised only by named steps of the outside.

| property (TLC) | nobody is stuck | the work runs out |
|---|---|---|
| `EveryGetReturns` | `NobodySleepsForNothing` | `GetsRunOut` |
| `EndsWithUpstream`, `LeavingFreesGateway` | `AnswersAreNeverStuck` | `AnswersRunOut` |
| `CallsEnd` | `CallsAreNeverStuck` | `RoundsRunOut` |
| `PumpsEnd` | `RelaysAreNeverStuck` | `RelaysRunOut` |
| `LastVersionLoaded` | `NoVersionIsForgotten` | `ReloadsEnd` |

**SessionManagerProofs.**
`FlightInv` = types + "the clients between `startBootstrap` and
`finishBootstrap` are exactly the one `bootstrap` names" + "a waiter's leader is
leading".  The first half is what makes the second inductive: `Finish` can only
release all waiters because there is no other leader they could wait for.  From
it: `OneLeader`, `WaitersHaveALeader`, and `ImplementsSingleFlight`, whose
refinement mapping takes the owner from the leaders and the waiters from `pc`
(`OwnerIsBootstrap` shows the mapping is the variable itself).
`StartInv` adds `StartsOnlyWhenGone`, which is inductive relative to `FlightInv`:
only the leader starts, and until a fault happens nobody but it changes a session
that is gone.  `ModelInv` for `RightModel` follows the model of a result from the
reply that carried it to its return; it assumes `HonestUpstream`.
`DedupIsInvisible` (`OneModelNeverFails`: as long
as nothing fails, calls for a single model do not) needs `SeenInv`, that `seen` has
recorded every model asked for and the session's own, and `CalmInv`: while these are
all one model and no fault has happened, nobody is about to end a session, nobody
has had a refusal, and whoever polls polls a session that is still there.
`OneModelCachesTruly` rests on the same two: while they hold nothing ends the session,
so every reply that leads to an entry of the cache, and the entry, stay true
(`FreshInv`).

**EvalStoreProofs.**
`Shape` has the types and the layout of slices and arrays; `Pasts` says that
every copy, every partly marshalled buffer and the file are pasts of the index
(`Before` per round), hence `FileLags`: `Before` is transitive and every
operation moves the index forward (`StepsThatGrow`), so a save may be late but
never wrong.  `Hidden` gives `StaysBlind`; `Alone`, for `LoneSavesAreDurable`, says
that unless two saves have overlapped the one in flight carries everything
told so far.

**LeaderboardProofs.**
`OneRefresher` (whoever refreshes owns the flag, and is alone) makes
`NoSecondDownload` and `ImplementsSingleFlight` inductive; `CachedInv` says that a
category whose caller found a snapshot keeps a whole file except while the
refresher holds the mutex to rewrite it, which gives `CacheShieldsCallers`.
`MutexInv` (the mutex is held by whoever writes, and nobody sleeps unless a refresh is in
flight) gives `NobodySleepsForNothing`; `GetsRunOut` counts the steps ahead of a caller
(`Ahead`), which only the landing of a refresh can send back, and a refresh begins with a
call of Get.

**ChatStreamProofs.**
`Wiring` and `Relaying` say what the state of a channel tells of the goroutines
at its ends: a closed channel has no sender, an error in flight means that the
producer has ended and nothing is in the forwarder's hand, a reader that is done
with a channel will find nothing in it.  `Flow` places every delta: what was
read is on the wire, in the buffer or in one of two hands, in this order, as long
as nobody has stopped for its context (`Intact`).  None of the three is needed by
a reader of the code, but without them no property is inductive: `InOrder` rests
on `Flow`, `EndsComplete` on `Flow` and the closing order in `Wiring` and
`Relaying` (`NothingLeft`), and `ChatErrorsAreTold` on `Pending`, which says where
an untold failure is.  `FlowKept` covers the twenty kinds of steps that move no
delta; `FlowStep` proves the three that do.
`Settled` adds that a goroutine that has ended has closed what it sends on, and that a
failure is in one place only; with `Wiring` and `Relaying` it shows that a writer that waits
is served by somebody (`WriterServed`).  `AnswerLeft` weighs what the three goroutines hold,
what is in the channels and what is still open: only another delta of the upstream adds to
it.  The native producer of an answer that is over is not claimed to end (finding 5).

**PoolProofs.**  `OneHolder` becomes inductive with `UsedIsInUse`: the object
a caller uses is the one the map has for its token, marked in use, unless the
token was misused.  Reuse, round robin and eviction only hand out tokens that are
not in use, so nobody else can hold the pointer (`GivenToOne`, `NobodyGains`).

For the rate limiter `RateTypeCorrect` has the types, and `RateInv` prices what an owner
has been granted: together with what its bucket holds it is paid by the capacity and the refill up to the bucket's
last use.  What an idle bucket leaves unused between that and its purge pays for
the full one that follows it, and `OwnBuckets` (no two identities share a bucket, a
request points to its identity's) keeps the accounts apart; `NoTierExceeded`.

For the egress proxies `ProxyTypeCorrect` has the types; `KeptIsConfirmed`: past its
check, a refresh of a strict, verifying pool only carries hosts that are in `confirmed`;
this gives `StrictFailsClosed`.  `RefresherInv` types the cycle and says that something
has answered by the time countries are looked up, and that what is US is up; with
`RankingsAreFair` (a ranking has no repetition) and `TheFastest` (those that are kept are
no more than the limit, and some) it gives `PoolKeepsServing` in `OnlyTheUnparsedEmptyThePool`:
if nothing is left, one of those that were kept does not parse.

**CacheProofs.**  For the search cache `SearchInv` follows a response from the
search through memory, file and worker: every copy is whole or known to be torn,
and its expiry is its time of storage plus `Ttl`; no copy changes either.  For
the status caches `StatusInv` says that a cache that has held a report holds one for
ever, so who has seen one, or read one before building, knows that there is one.  For the run cache `RunInv` is `EntriesCanBeEvicted` with the types;
the work is in the lemmas about `RemoveOrder` and `Append` on sequences without
repetition (`WithoutPosition`, `RemoveOrderRemoves`, `AppendAdds`).
For the dashboard `DashInv` says that at most one probe is under way, newer than all that
is in the history, in a channel or on a page, and that no result that was offered has
passed a viewer by (`Served`): an offer covers its own result (`OfferIsTold`), by room in the
channel or by the older ones that fill it, and keeps what was covered (`StillBrought`);
the catch-up covers all before it.  This gives `NoResultFallsThrough`.  For the credential `CredInv` says
that a cached value other than the file's is no younger than the last upset, and
that while a calm call lasts nobody carries a value other than the file's: the
cache has the file's or has expired, and what is read is what is there.
`WiredCommandsKeepTheirWord` shows that finding 6 is the missing Store and nothing else:
with `StoreWired` what run `login` refutes holds.

**ClientProofs.**  `UpstreamInv` bounds what a request may have been sent by the
path that is tried next (on the direct one there is room for one more, on the
sidecar's for two), and says that a chat's run is of its round.  `RelayShape` and `VerdictInv`: a verdict is the last frame of
whatever holds it, the channel or the response; there is none in the channel before
the pump has ended, the channel is empty once the writer has taken it, and a pump that
has ended in time has left one in one of the two.  `ClientsAreTold` follows for a writer that has
returned before the write deadline and, in a streamed research, before the run's own.  `ResearchShape` and `EvidenceInv`: queries
work in phase "search" only, never more than there are places, evidence belongs to
queries that are over, and a query that is over and not lost has all its items
in the evidence, its own or those of the query that came first.

`PathInv` says which path and attempt each request of a call may be at; from it
`CallsAreNeverStuck`, and `RoundsRunOut`: each step leaves less of the call's round, only
a session found or started anew begins another (recoveries are unbounded), and once
the context is over the next change of the call is its end.  `RelayPairs` joins what the pump
waits for to what the writer has done: a writer that leaves a full channel has ended
the context the pump also waits for, which gives `RelaysAreNeverStuck`.

**GatewayProofs.**  `ReloadInv` says that what was loaded is never ahead of the file and
the newest never overwritten by an older, and that a version that was noticed and is not
the configuration is being loaded, or an event or the timer will have it loaded.
`GatewayImplementsItsParts`: each step of the composition is a step of one component and leaves
the others' variables alone, and its fairness is theirs, so that every behaviour
of `MCGateway` is one of each component and what is proved of a component holds there
(`GatewayTypeCorrect`).

**Only model-checked**: liveness itself (`EveryCallReturns`, `FlightsLand`,
`EveryGetReturns`, `EndsWithUpstream`, `LeavingFreesGateway`, `LastVersionLoaded`,
`CallsEnd`, `PumpsEnd`), of which the table above has the parts that are safety.  Of
`EveryCallReturns` and `FlightsLand` not even these: two models can take the session from
each other for ever, and what bounds that is only the number of calls.

--------------------------------------------------------------------------

## 6. Findings

The first six are runs that end in a counterexample; `PROJECT.json` "findings" quotes
the text the code disagrees with.

1. `session_cache`, manager.go:109. The manager ends a session to switch models
   and leaves its entry in the 30 s cache: the next caller of the old model is
   given a session that no longer exists.  It takes a switch of models: with one model and
   no fault the cache is right (theorem `OneModelCachesTruly`).
2. `eval_durable`, store.go:226. Saves happen after the unlock, so an older copy
   can be renamed over a newer one; a restart then loses an acknowledged change.
3. `leaderboard_wait`, leaderboard.go:187. A caller that waits for the refresh
   of another category fails with "refresh produced no cache" although nothing
   failed.
4. `chat_lost`, research.go:629. A failed `/v1/responses` stream may end with
   `[DONE]` and no error event.
5. `chat_leak`, client.go:349. A disconnect can leave the goroutine that reads
   the upstream blocked for ever, with its connection.

6. `login`, flow.go:155. As `main.go` wires it the login flow has no Store: a login
   that the server has granted panics before anything is saved, and a logout
   that the server confirms before anything is cleared.

Two more are what a property excepts, and its run goes through:

7. `PoolKeepsServing`, usproxy.go:85. "Keep the current pool rather than emptying it"
   (refresher.go:361) is guarded where nothing answers; but what answers need not parse.
   The lists may have any line with a colon (refresher.go:180-190), the sidecar's
   `parseInt` reads "1080 US" as a port (service.js:88-90), `url.Parse` does not, and
   `Replace` installs what is left: perhaps an empty list in place of a pool that
   serves, after which requests leave directly.
8. `VerdictIsTold`, server.go:86. A long answer is to be kept alive by heartbeats "until
   it finishes" (handlers.go:428-429, research.go:717-719), but no heartbeat outlasts the
   server's write deadline: past 310 s a client that stays gets neither result nor
   error, and its completion is cancelled (handlers.go:468, 489-496).

Smaller disagreements met while reading, without a run: `leaderboard.go:62-63`
says `refresh <= 0` means cache-only, the code then fetches on every call;
`handlers.go:478-480` calls the late error valid JSON, but `writeSSE` writes a
`data:` line; `ratelimit.go:57-60` says 0 is unlimited, the configured value is
replaced by a default first; `store.go:7-8` says votes are cast before the reveal,
`RecordVote` accepts them after it.
`ratelimit.go` purges a bucket that was just created, because one never used
looks idle (`WithinBudget` excepts the identities this happens to, and those
whose next bucket a delayed request seeds).
`websearch/cache.go:20` and `main.go:333` speak of files that live 24 h; they expire
with the 15 minutes of the memory entry.  `research.go`'s comment on `sortedEvidence`
says that the order of goroutines does not shuffle the numbering, but which query
gets a shared page does depend on it, and an item without content can be kept
in place of one that was read.  A configuration with SearXNG alone passes
`searchBackendConfigured`, and every query then fails for want of an extractor.
The hermes fallback is given a body the sidecar attempt may have read.
`ProxyPool.MarkSuccess` revives an entry that was taken out of use; with StrictGeo
but no GeoVerify, entries of unknown country are accepted.  An edit between
`LoadConfig` and `watcher.Add` is not noticed (`LastVersionLoaded` speaks of
edits completed while watching).  `session.Pool`'s `maxSize` and
`ProxyPoolConfig.MaxFailures` are never read; `probeBackend` caches under a trimmed
address and looks up the untrimmed one.  `Refresher` records no error for a cycle
that failed in part, and stopping it does not interrupt a refresh under way.

--------------------------------------------------------------------------

## 7. What the models leave out

* **SessionManager.** The 30 s of the cache are a nondeterministic expiry.
  `OnModelLocked` is never set by `main.go`.  `MaxPolls` is 0 in production
  (`session_live`); 1 in `session_safety` reaches the limit.  An `Active` reply to
  StartSession is not compared with the model asked for, so `ReturnsTheModelAsked`
  needs `HonestUpstream`.  `EndSession` names no session: it may end one that was
  opened after the reply it acts on; the model has that.
* **EvalStore.** Several evals are independent files.  Marshalling is per round:
  torn reads of a string, and a file system that reorders rename and data (there
  is no fsync), are outside.  Rounds with one label are never sealed, as in the
  code.  Of a round between a model and itself `ScoreOf` keeps only what side B got
  (store.go:103-121); scores are abstracted to which rounds are tallied.
* **Leaderboard.** `fetch` pages the data set in parallel; here it succeeds or
  fails.  The helper goroutine that turns a done context into a Broadcast is part
  of the waiter it belongs to.
* **ChatStream.** How a response is obtained (session, credential, agent run,
  retries, recovery) is a body or an error.  A backend error may overtake
  buffered text, which `EndsComplete` excepts.  The five-minute limit of a
  responses stream ends it with `[DONE]` whatever is missing; `EndsComplete` and
  the error properties except a context that ended by itself.  Fiber's `Done` is
  not relied on: a disconnect is seen by a failing write.  The non-streamed
  answers and the tool-call deltas are not modelled.  The branch of
  `inspectStreamStart` that finds a delta ready is unreachable: the native
  channel has no buffer and its error, if any, comes after the sender has ended.
* **UpstreamClient.** Bodies, headers and status codes are the three answers the
  code tells apart: good, "the session is gone", anything else.  Ids of runs are
  the model they were started for.  Backoff pauses have no length.
* **TokenPool, RunCache.** Ages are one bit, set at any time.  Neither is wired into
  `main.go`, nor is `ProxyPool` or `config.Reloader`: they are checked as the
  libraries they are.
* **RateLimit.** Time is in ticks; refill is linear between them in the code and
  exact at them here.  Fractions below a tick are not represented.
* **Credentials.** Contents are the number of the login that wrote them.  The
  advisory lock of `lock.go` has no caller in the store or the commands.
* **SearchCache.** One key; keys share only a mutex.  A response is the time it was
  stored at.  A failed write may leave a part, which does not decode.
* **ConfigReload.** A version is a number; validation is part of "does not decode".  Whole
  versions load: one that is whole and invalid keeps the configuration before it.
* **Dashboard.** Targets and their latencies; the page and its JSON.
* **RunCache, TokenPool, SearchCache, StatusCache.** A fresh entry lost to a late deletion, a
  token misused by its caller and an older report in place of a newer one are in the models
  and violate no property: the code promises nothing about them.
* **ProxyPool, Refresher.** Addresses, latencies (any order stands for a sorted one),
  the text of sources.  `USProxyPool.Verify` and the metrics are left out.
* **Research.** Prompts, scores and texts; the adaptive controller is the choice of a
  width within its bounds, since other runs change it at any time.  An event stream of a
  Parallel task is what `Relay` relays.
* **Relay.** What a frame contains.  How long the write deadline is: it may pass at any time
  after the response has begun.  An error after a heartbeat has turned a JSON
  answer into chunks is written as an SSE line; the model sees that it is told,
  not in which syntax.
* **StatusCache.** What a report says.

**Not modelled**, by component:

* *Routing and middleware*: no state; one request at a time passes the table, the
  authentication and a relay to a sidecar.  The rate limiter is a module.
* *Wire formats*: pure conversions of messages, best covered by the table tests they
  have; no property here depends on them.
* *Process wiring*: read for constants and for what is wired to what.  Shut down
  (main returns while `app.Shutdown` still drains) stops everything at any
  point, as the crashes and restarts of the store modules do.
* *Sidecars*: other programs; their answers are external choices.
* Of modelled components: the parsing of imported evals and the ratings of `bt.go`
  (pure), the paging of `Leaderboard.fetch`, the HTML of `ddg.go`, TLS profiles and
  header order of the stealth transport (wire data), `readyz.go` (no state).

--------------------------------------------------------------------------

## 8. Plan

Done: `SessionManager`, `EvalStore`, `Leaderboard`, `SingleFlight`, `ChatStream`, and
the thirteen components of `MCGateway`, with the proofs of section 5 (every safety
property that is checked, and the safety half of liveness for five components).

What would come next, in this order:

1. Compose `UpstreamClient` with `SessionManager` over one upstream: recovery starts
   sessions behind the manager; the one property that relates both is how long a
   caller's session stays its own.  `SessionManager`'s `Disturb` (another device
   takes over) already stands for what such a recovery does to the manager.
2. An abstract register for `StatusCache` and `SearchCache` (a read returns some write
   that is recent enough), with the refinement in place of the two invariants.
3. For `SessionManager`, what the steps of one flight are worth: a measure that a leader's
   steps lower, so that `FlightsLand` gets its two theorems like the others.
4. Pure algorithms against a reference definition: `ScoreOf`, Bradley-Terry, import
   validation.
