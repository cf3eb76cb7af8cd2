# Verification of the OpenTelemetry MCP server

TLA+ models, TLC runs and TLAPS proofs about the server in
`src/src/opentelemetry_mcp/`: an MCP server that answers questions about traces
by querying one of eight trace backends (Jaeger, Tempo, Traceloop, Datadog,
Sentry, AWS X-Ray, New Relic, Honeycomb). Paths below are relative to that
package. Everything but X-Ray's threads runs on one asyncio event loop:
concurrency is the interleaving of tasks between awaits, `asyncio.Lock` is first come, first
served, `Task.cancel()` only requests a cancellation, and `asyncio.timeout`
cancels what it encloses.

## Inventory

| Component | State it keeps | Operations | What makes it hard | What makes it correct |
|---|---|---|---|---|
| Query cache (`backends/cache.py`) | `_entries` in LRU order with expiries, `_inflight` per key, follower counts, one finisher task per computation | `get_or_compute` as hit, join or lead; the finisher's publication; abandonment; `clear` | cancellation of leader or follower at any await, a finisher cancelled before its first step, `clear()` while a finisher runs, expiry, eviction | nobody sees somebody else's cancellation, wanted work is never cancelled, no key is left unservable, one call per key, fresh answers, bounded store, every call ends |
| Retry transport (`backends/base.py`) | one budget per logical request: deadline, hops, retries, sleep; the response held | attempts, redirect hops, retry decisions, sleeps, bounded body read | the transport is entered anew for each redirect hop; 429s with any `Retry-After`; trickling and compressed bodies; cancellation | bounds on sends, sleep, time and memory over all hops; no connection leaked; origin pinned; the request ends |
| Honeycomb limiter (`backends/honeycomb.py`) | `_call_times`, the lock and its queue | `acquire(max_wait_seconds)` | the lock is held across the sleep, budgets run while queueing, cancellation of holder and waiters | at most Max slots per window, nobody waits past its budget, whoever was parked is served, every acquire ends |
| Readiness probe (`server.py`) | `_backend`, `_readiness_memo`, `_readiness_generation`, the lock | `GET /ready`: creation of the backend, memo, probe in two halves | hanging backends, requests that queue behind a probe, a cancelled prober, a backend replaced meanwhile | probes are spaced, no stale answer in either direction, bounded wait |
| Shared backends and drain (`server.py`, `backends/base.py`) | the two globals, `_client` of each backend, the shutdown task | lazy creation, `client` property, `_drain_and_close_backend`, `close` | check and creation around an await, a client replaced while `close` awaits, closes that hang or fail | one backend per slot, all closed, no client overwritten while open, bounded drain |
| X-Ray pool (`backends/xray.py`) | semaphore with its queue, executor with its threads | `_call`, `close` | a cancelled call gives its permit back while its thread works on; `close` cancels work that has no thread yet | work waits for a thread only when threads work for tasks that have gone; nothing begins after `close`; every request is answered |
| Honeycomb queries (`backends/honeycomb.py`) | the locals of each call | `search_traces` with its batched hydration, methods with one query; each query creates a spec, takes a slot, creates a result, polls it | deadlines at three levels: the transport's per request, the limiter's budget, the poll loop's, which is looked at between polls only; several calls share the slots | a call ends within a bound of its own, whoever queues; the slots taken obey the cap; the limit is spent on traces that match |
| Search, pagination, hydration (`backends/{datadog,newrelic,sentry,xray,tempo,jaeger,traceloop}.py`) | the locals of a call: cursor, rows found, traces fetched, failures | the public methods of `BaseBackend`: page loops, caps, hydration, overlay, filters applied again | a cursor that never ends, a page without rows, a lookup that fails or brings half of a trace, filters split between the service and the client | loops stop, requests are bounded, what is returned is of the service and matches, what matches is returned, an outage is not an empty answer |
| Filter engine (`backends/filter_engine.py`, queries in `models.py`) | none | queries from parameters and filters, validation, evaluation over spans and traces | missing fields, several values per field, mixed types, NaN, negated operators | a filter and its opposite split the items; parameters keep exactly what they describe |
| Span tree and triage (`tools/span_tree.py`, `tools/triage.py`) | the loop locals of the walk: stack, predecessors, depths, counters | children map, roots, walk for the deepest error chain, critical path, self time, verdict | cycles, dangling parents, reused span_ids, overlapping and skewed children, ties over several roots | every walk ends and counts each span once, the deepest error is blamed, self times are exact, no error is hidden |
| Tools (`tools/*.py`) | none | one query and an aggregation each | truncation, missing usage, ties | sums and ranks agree with the spans returned (not modelled yet) |
| HTTP gate (`server.py`) | `_buckets` and `_last_swept` of the fixed-window limiter | token check, Host/Origin check, rate limit, sweep | two bursts around the end of a window, the sweep, refused requests that count | no interval as long as a window sees twice the limit; a 429 has a cause |
| Tool handlers, CLI, configuration, observability, pricing | settings | validation, conversion, lookup | - | covered by the repository's unit tests; not modelled |

How they interact: a tool handler or `/ready` calls `_get_backend` (one backend
shared by all), then an `@cached` method of it, which goes through the query
cache; the computation is the backend's own method, which sends HTTP requests
through the retry transport (Honeycomb takes a slot of the limiter before each
*Create Query Result* call; X-Ray uses its thread pool instead). The readiness
probe goes around the cache (`list_services_uncached`). At shutdown the drain
forgets the globals and closes the backends, whose last step clears the cache.

The hazards that follow from this are listed one by one, with the line at which
each bites and the property that covers it, under `hazards` in `PROJECT.json`.

## Modules

Each component module has its state as variables, one action per stretch of
code between two awaits, and its properties at the end. Where a definition is
preceded by `X_Something` with the comment *mutant*, that is the same
definition with a plausible bug in it; it is used by nothing else, and
substituting it makes the named property fail (listed under `mutants`).

| Module | Models | Correspondence |
|---|---|---|
| `QueryCache` | `TTLCoalescingCache` | `entries`/`older` are the OrderedDict and its order, `inflight` and `comp` the registered slots and the `_InFlight` objects with their finishers, `call` the tasks inside `get_or_compute`. A value is the identity of the computation that produced it, so age and key of every answer can be traced back. `Hit`, `Join`, `Lead` are the three ways through the locked section; `Publish`, `FinisherFails`, `ComputeRaises`, `CancelledRunning`, `CancelledUnstarted`, `Settle` the ways a finisher ends; `LeaderCancelled` with `Abandon` the handler that decides whether work is still wanted. |
| `RetryTransport` | the transport and `_RetryBudget` for one logical request | `budget` is the object in `request.extensions`, `BudgetFor` finds it again on the next hop; `scope` is the end of the `asyncio.timeout` entered; `Chunk` reads and inflates one wire chunk. The environment may answer anything allowed by HTTP at any time. |
| `HoneycombLimiter` | `_RateLimiter` | `calls` and `first` are the deque (kept whole, so that windows in the past remain visible), `waiters` the FIFO of the lock. `TakeSlot`, `Refuse`, `Park` are the ways through one turn of `_wait_for_slot`. |
| `HoneycombSearch` | the queries of `HoneycombBackend`, composed with the limiter: it extends `HoneycombLimiter`, whose callers are the queries (task, number of the query) | `task` holds the step, the time its request or pause ends (`until`), the poll loop's deadline (`giveUp`); `found` and `answer` the trace ids that are hydrated and returned. `Begin` to `NotComplete` are the awaits of `_run_query`; `SingleComplete`, `SearchComplete`, `HydrationComplete` what the callers of it do with the rows. A request ends in any way, or at the transport's deadline. |
| `Readiness` | `ready_route`, `_run_backend_checks_memoized`, `_run_backend_checks` | `memo`, `generation`, `holder` are the module globals; `req` holds the locals of each request. The backend service is up, down or parked and may change. |
| `BackendLifecycle` | `_get_backend`, `_get_secondary_backend`, the `client` property, `close`, `_drain_and_close_backend` | `current` is the pair of globals, `client` the `_client` of each backend, `closer` the state of each `close()` under its `wait_for`. |
| `SpanWalk` | `build_children_map`, `find_roots`, `find_deepest_error_chain` and `..._across_roots` | a span is its position in the list of spans, which stands for `id(span)`: the code tells objects from span_ids and so does the model. `Enter` is the call for the next root, `Pop` one turn of the loop, `Conclude` the merge of a root's result. |
| `SpanTree` | the rest of `span_tree.py` and `triage_trace` | pure functions over the same trace as operators: `SubtreeIds`, `Owner`, `UnreachableErrors`, `ParentCycle`, `CriticalPath`, `SelfTime`, and `Verdict` for what `triage_trace` concludes once the walk is done; a trace without spans has no verdict. |
| `Filters` | `Filter`, `_convert_params_to_filters` (`models.py`), `FilterEngine` | a value carries what `str()`, `float()` and the boolean spellings make of it; `Normal` and `OperandsFit` are the validators, `FieldValues` and `Satisfied` the evaluation. |
| `Calls`, `SearchCall` | what the backends share (`base.py`, `models.py`) | `Calls`: the traces the service has (`store`), the call (`call`), how spans are grouped to a trace. `SearchCall`: the locals of a running call, `step`, `pages`, `found`, `todo` (traces still to be fetched), `failed`, `filters` as validated, and `cut`, a history variable that says that a cap, a page limit or a failure cut the search off. |
| `Selection` | the comprehensions with an `if` that a proof is about | `At(s, P)`: what is left of a list at some positions, as a recursive function, and `Among(s, X)` of the members in a set; used by `HoneycombSearch`, `Filters` and what extends it. |
| `DatadogBackend`, `NewRelicBackend`, `SentryBackend`, `XRayBackend`, `TempoBackend`, `JaegerBackend`, `TraceloopBackend` | the module of that name | one action per await of the backend's methods: the query with the filters it can express, a page or a batch, a lookup that succeeds or fails, the end with its re-check of filters. Each extends `SearchCall`; what it defines bears the backend's name, so that one module can extend them all. |
| `BackendSearch` | a call on any of them | extends the seven; `Next` is the `Next` of the backend called. Its `KeepsPromises` is the specification of `TraceSource` under a refinement mapping. |
| `TraceSource` | the contract of `BaseBackend` | abstract: a call ends once, with an exception or with an answer that is `Promised`. |
| `FixedWindow` | `_FixedWindowRateLimiter` | `buckets`, `lastSwept` as in the code, `served` the times of the requests let through (history). `hit()` has no await under its lock, so it is one step. |
| `XRayPool` | `XRayBackend._call`, `close` | `free`, `waiters` are the semaphore, `work` what the executor has of each task, `pc` the task. The ways a permit is given back are `Release`. |
| `RequestPath` | the way of an HTTP request to X-Ray | extends `FixedWindow` and `XRayPool`: a request that passes the limiter becomes a task that makes its calls through the pool. |
| `MC*` | - | extend the component and define symmetry sets and constants a `.cfg` cannot write down. |
| `*Proofs` | - | extend the component with its inductive invariant, lemmas and theorems. |

Calls may run during the drain: it runs in the `finally` of the lifespan, inside
the session manager whose task group ends the tool calls only afterwards.

### What is abstracted

Time is a natural number; all that is ready on the event loop happens before it
advances (`Tick` is guarded by what is due), which is what makes deadlines
meaningful. Steps that cannot suspend are one action; in particular a locked
section without an await is atomic. Payloads, URLs, header texts, log lines and
the wording of errors are left out; a `Retry-After` is its number of seconds, a
wire chunk its decoded size.

## Runs

| Run | Instance | Shows |
|---|---|---|
| `cache_races` | 3 callers, all cancellable, 1 key, 3 computations, 1 `clear()`, no time | `NoForeignCancellation`, `OnlyUnwantedCancelled`, `NoPoisonedSlot`, `SingleFlight`. Three callers are a leader, a follower and one that comes during an abandonment; three computations let an abandoned, a cut-off and a current one coexist. |
| `cache_ages` | 2 callers, one cancellable, 1 key, 2 computations, Ttl 2, 1 `clear()`, fair | `FreshAnswer`, `EveryCallEnds`: a computation as long as the TTL, one that survives a `clear()`, a leader or a follower that goes away. |
| `cache_store` | 1 caller, 3 keys, 2 entries, Ttl 2, time to 4 | `BoundedLRU`, `ExpiredReclaimed`: with three keys and room for two a hit decides which entry the next result drives out; expiry over two sweeps. |
| `retry_bounds` | 3 attempts, 2 redirects, sleep ceiling 10, deadline 16, cap 1 | `SendsBounded`, `SleepBounded`, `EndsByDeadline`, `NoLeakedResponse`, `BodyBounded`, and that no request is stuck. Retry-After values lie below, at and above the ceiling, and two of them together too. |
| `search` | 2 calls, of backends with budgets 2 and 1 that share a limiter with 1 slot per 2 time units; requests, execution and interval of 1; starts until 1, clock to 17, fair | `RateBound`, `ParkedIsServed`, `SearchBounded`, `LimitSpentOnMatches`, `EverySearchEnds`. Each call makes one or two queries: with one slot per window one query is parked while the other queues behind it or is refused, polls run into their deadline, and hydrations compete with first queries. The rows found repeat a trace and name more traces than are returned. |
| `ready` | 2 requests, 2 state changes, 2 backends, windows 4 and 1, deadline 2, requests until 4, clock to 12, fair | `WaitBounded`, `ProbesSpaced`, `NoStaleReady`, `RecoveryNoticed`, `EveryRequestEnds`. One request probes while the other queues behind it; each may ask again, so an answer of the last window, of the current one and of a probe of its own all occur. |
| `ready_route` | 2 requests | `RouteBounded` is violated: finding 1. |
| `lifecycle` | 2 calls, 2 slots, 3 backends, 5 clients | `OneBackendPerSlot`, `DrainBounded`, `CloseLeavesNoneOpen`. Three backends let one be created after the globals were forgotten; five clients allow replacements during `close`. |
| `span_tree` | every trace of 4 spans with ids of their own, every trace of 3 spans over 2 ids with parents that may be missing, and 1 parent with up to 3 children of various times | `ErrorsCounted`, `DeepestBlamed`, `TrappedInCycle`, `SelfTimeExact`, `VerdictOnItsTree`. Four spans are enough for two roots beside a cycle, for ties within and across roots, and for a chain of four; three spans over two ids for a reused id on a parent and on a leaf. |
| `backends` | eight families of cases: searches by parameters, by one filter of each kind, by a filter that names another service than the parameter, over traces of which search and lookup tell different things, over a single trace, over three traces with a limit, lookups and listings, and one filter of every operator and type over every pair of values; traces of up to 2 spans of up to 2 services, some unsound, thin, hinted or with an odd id; pages of 3, at most 2 pages, 2 traces fetched, limit 2; fair | `KeepsPromises` (the refinement), `EveryCallEnds`, `RequestsBounded`, `NothingMissed`, `OutageIsNotEmpty`, `OppositesSplit`. Three traces against a limit of two, two spans each against pages of three, let every cap, cursor and page end occur, with a trace split over pages. Values have every type and include those that only look like another: a numeric text, a NaN, an integer too large for a float. |
| `status_lists` | searches of Datadog for traces by a list of statuses | `AllFound` is violated: finding 2. `NothingMissed` of `backends` is `AllFound` without these searches. |
| `request_path` | 3 requests of 2 peers, 1 per window of 2, 1 permit, 2 calls each, clock to 3, cancellations and a `close()` at any time, fair | `PeerRate`, `PermitMeansThread`, `EveryRequestAnswered`. One thread makes a call queue behind another's and an orphan block the pool; two requests of one peer meet at the end of a window. |

The type invariants are theorems (`TypeCorrect`) rather than properties of
runs; `BackendSearch` has its types in the invariant of its proofs (`Bounded`).

`CHECK_DEADLOCK FALSE` is set where all calls of the instance may be over and
the clock has stopped at its bound, or the walk or the call is done;
`RetryTransport` and `BackendSearch` have a terminating action instead and are
checked for deadlock.
Bounds of the models are constants named as such (`MaxTime`, `LastAsk`,
`LastStart`, `MaxClears`, `MaxChanges`, `MaxBackends`, `MaxClients`,
`MaxCalls`); `LastAsk` and `LastStart` exist because a call that arrives at the
end of a bounded clock could not end for that reason alone. In `backends.cfg`
`PageSize`, `MaxPages`, `MaxHydrate`, `MaxQueryLimit`, `MaxRows`,
`MaxBatchPages` and the like are the caps of the code, made small.

### Fairness

`WF` of a task's steps is what the event loop guarantees: a ready task runs.
`WF(Tick)` says that time passes. Of the backends nothing is assumed: that
calls end although a backend stays silent follows from the deadlines, with
three exceptions, each of which rests on a timeout. In `QueryCache` the
computation is taken to end by itself (the transport's deadline guarantees it:
`EndsByDeadline`); in `BackendSearch` a request is answered or fails in the end
(each has a timeout), which is `WF_vars(Next)`, written out as `Fairness`: some
step is always possible until the call is done, which the run checks as the
absence of deadlock; in `RequestPath` a thread ends (botocore's own timeouts). Clients are
never obliged to ask, to cancel or to close.

### Findings

1. `ready_route`: `server.py:449-457` says that the route "answers 503 instead
   of hanging on a parked backend", but the request that creates the backend
   awaits its health check in `_get_backend` (line 385) before the readiness
   deadline starts; only the transport's deadline, several times longer, bounds
   it.
2. `status_lists`: `_filter_to_dd_query` names a status as Datadog does
   (`status:ok`, `status:error`) for an equality and its negation only; the
   statuses of a list are quoted as they are written (`status:"OK"`,
   `datadog.py:686-688`). Datadog's are lower-case (`datadog.py:25-26`), so the
   search finds no span, and of the traces that match returns none: applying the
   filters once more cannot bring back what was not found. The repository's tests
   name the same literal as a bug where it was fixed: `tests/test_datadog.py:225-229`
   for a negated equality, `tests/test_sentry.py:313-318` for Sentry's lists, a query
   that "would silently match nothing". For the same reason an equality with a
   status in lower case finds what the filter, applied again, then rejects.

Three more things the models show, of which no property is claimed. `_get_backend` reads the
global once more after awaiting the health check (`server.py:395`): when the
drain has reset it meanwhile the caller gets `None`, while the process is about
to end. And the walk of the span tree goes by object, but
`find_unreachable_error_spans` (`span_tree.py:101`) by span_id: an ERROR span in
a parent cycle stays hidden when a span some root reaches bears the same
span_id, which takes both malformations at once; `DeepestBlamed` asks for it
only where ids are unique. And `search_spans` of Tempo leaves service, status and
duration to the TraceQL, which finds a trace by any one span, and returns all of its
spans, as the comment at `tempo.py:299-301` says; the docstring above it speaks of
"individual spans matching the query" (281-282).

## Proofs

All are for every value of the constants that satisfies the named assumption
of the component (`CacheAssumption`, `RetryAssumption`, `LimiterAssumption`,
`SearchAssumption`, `CallsAssumption`, `ReadinessAssumption`, `TraceAssumption`,
`WindowAssumption`, `PoolAssumption`, `PathAssumption`, `LifecycleAssumption`):
any number of callers, keys, computations, attempts, hops, any window, cap or
TTL, any trace, any store and call of the shape the models of the code give
them (`IsSpan`, `IsFilter`).

* **QueryCacheProofs.** `TypeCorrect`, `CancellationIsPrivate`,
  `WantedWorkSurvives`, `SlotsStayServable`. None of these is inductive alone:
  the leader's decision to cancel is right because the follower count equals
  the number of callers that wait as followers (`CountsExact`), that needs one
  leader per computation (`SoleLeader`), waiters only on computations that
  have a finisher and were not given up (`WaitingOnLive`), and the way finisher,
  future and `abandoned` flag hang together (`Lifecycle`). The invariant is
  their conjunction with the type and slot invariants; each conjunct has a
  lemma with one step per action.
  On top of them `Coalescing`, `AnswersAreRight`, `AnswersAreFresh`,
  `StoreIsBounded` and `ExpiredAreReclaimed`. The strengthening: the wanted
  computation of the current epoch is the registered one (`Flight`), expiries
  are exact (`ExpiryExact`), a value waited for is published after the call
  (`JoinedBefore`), and the order of use is a strict total order on a finite
  set, so that a least recently used entry exists (`FirstExists`, by
  well-founded induction over finite sets) and `Survivors` leaves at most
  `MaxEntries`, each used after whatever it drops (`EvictedFirst`). For the sweep: whatever is stored was either
  published after the last call, or had not expired when that call's sweep saw it
  (`SweptThrough`).
* **RetryTransportProofs.** `TypeCorrect`, `SendsAreBounded`, `SleepIsBounded`,
  `DeadlineHolds`, `ConnectionsReturn`, `BodyIsBounded`,
  `NoSleepIsInVain`. The invariant does the accounts: every send is paid for by
  a hop or by a retry booked before its sleep (`SendsPaid`), every second of
  sleep was booked and ends before the deadline (`SleepPaid`), whatever is
  awaited is awaited under a scope that ends at the one deadline (`Timed`).
* **HoneycombSearchProofs.** Of the limiter alone: `CapIsACeiling`,
  `WaitIsBounded`, `ParkedCallersAreServed`, `TypeCorrect` (with `Queue`: a caller
  is queued at most once, and the lock is held by the one that sleeps). What was evicted is out of the window
  (`EvictedIsOld`), the deque never exceeds the cap, and a sleeping caller holds
  the lock and wakes exactly when the oldest call leaves the window (`Parked`);
  hence the slot it waited for is still there.
  Of the queries: `SearchesImplementLimiter` (they refine
  the limiter's specification, with the limiter's own variables as mapping),
  from it `QueriesKeepTheCap`, and `SearchesAreBounded`. The bound needs each
  step's own latest time (`InTime`): the request from the start of the query,
  the slot from the budget, the loop's deadline from the slot, the last poll from
  that deadline; and that no request or pause outlives its end (`Awake`).
  A limiter step of one query leaves the others' slots alone (`OneMoves`).
  `LimitIsSpentOnMatches` and `SearchTypesHold`: the rows a search keeps are
  those at certain positions, and `AtKeeps` shows that none of them is lost
  (by `SetInduction`, see SpanTreeProofs below); so an answer below the limit misses no trace
  that matches (`Answers`), and a task whose query awaits a slot is the one
  the limiter knows of (`AtSlot`).
* **SpanTreeProofs.** Of the walk: `TypeCorrect`, `WalkIsExact`. What is pushed
  is seen (`StackSound`), every child of a span popped is seen, and what is seen
  lies in every set of spans that has the root and is closed under children
  (`Reached`): when the stack is empty the spans seen are the least such set.
  A span gets its predecessor once, so its depth never exceeds the number of
  spans seen (`Shallow`), which is why cycles end; `Counted` does the same for
  errors.
  Of the rest: `DeepestIsBlamed`, `CyclesAreNamed`, `SelfTimesAreExact`,
  `VerdictIsOnItsTree`, for traces of any length. The walk's invariant is
  extended by: predecessors lead back to the root, one level at a time
  (`Linked`); the result of the root so far is the deepest ERROR popped, with
  its ties (`Blamed`); each root is walked once (`EachRootOnce`); the chain is a
  path of children to an ERROR (`Chained`); and, where ids are unique, the
  depth of the walk is the depth in the tree (`Levels`) and the overall result
  is the deepest ERROR under the roots done (`Merged`). The last two need that
  subtrees of different roots are disjoint (`TreesApart`), which fails for
  reused ids. The functions of the module are recursive over positions in the
  trace, so the proofs need induction over data: `SetInduction` has it for the
  numbers in a *set*, from the library's theorem that a well-founded relation
  has minimal elements, and `Recursion` shows from it that a recursive function
  has the value its equation says. From there: the levels of the tree
  (`DepthIs`), the chain as the predecessors of its end (`ChainIs`), the subtree
  ids as the least closed set (`GatheredIsClosed`), a walk along single links
  that meets no id twice and so is shorter than the trace (`PathIsShort`, for
  parent cycles and the critical path), and the merge of sorted intervals, whose
  sum is the cardinality of their union (`MergeIs`, `CoveredIs`).
* **ReadinessProofs.** `TypeCorrect`, `WaitIsBounded`, `ProbesAreSpaced`,
  `ReadyIsNotStale`, `RecoveryIsNoticed`. The memo is the last completed probe
  and expires counted from its end (`Recorded`); what that probe found was so
  then, or at most one probe before (`Truthful`); whoever queues with the
  current generation came after it (`Informed`), and the queue is in the order
  of the generations read (`QueueInOrder`): when a probe ends, all who had
  queued before it share its result, however old, and only later ones may probe
  again. For the wait, a request at the front gets the lock before its last
  deadline (`Patient`), where a deadline is added for each probe that was
  cancelled ahead of it.
* **BackendLifecycleProofs.** `TypeCorrect`, `OneBackend`, `DrainIsBounded`,
  `ClosesAll`. Every backend created is the one its global names until the drain
  takes it (`Named`), so two of one slot are the same. An open client is always
  the one its backend holds (`OpenIsHeld`): the property opens one only when the
  held one is closing. So a closing loop that ends with no client held leaves
  none open, whatever was opened while it awaited the network.
* **BackendSearchProofs.** `RequestsAreBounded`, `OutageIsNoEmptyResult`,
  `OppositeFiltersSplit`, `ParametersKeepTheWanted`, `PromisesKept`, over the seven backends together. Each backend's `Next`
  is first reduced to the few things its steps do to a call (`DatadogSteps` to
  `TraceloopSteps`: ask, read a page, stop, fetch the traces found, fetch one,
  fail to, end), so the invariants are argued once per thing and not per
  backend. `Bounded`: a page is asked for below the cap and never for more rows
  than the target still lacks, what is fetched, failed and still to be fetched
  came out of at most `MaxHydrate` rows, and nothing is fetched before the rows
  are read; it rests on `AtIs`, that a list filtered by positions is no longer
  than the list. `Accounted`: Tempo's failures and the traces it still has to
  try add up to no more than it attempted, which the rows read determine; so an
  answer after failures means that one lookup worked. For the filters, what a call's
  parameters and validated filters become is `Good` (operands that can be
  compared, and one for an order), and the values a trace has for a field are
  numbers where a number is asked for, its extent included (`ExtentIs`, which
  needs that a list of numbers has a greatest, by `SetInduction`); then operator
  by operator exactly one of a filter and its opposite compares
  (`OppositeCompares`). `ParametersKeepTheWanted` says that a search's parameters,
  once made filters, keep the traces they describe and no other: each kind of
  parameter by itself (`MatchesText`, `MatchesDuration`, `MatchesStatus`,
  `MatchesTags`), then the list they are joined to (`ConvertedDescribes`). A tag
  named like a field a span has of its own is left out: it means that field. What
  it states, `ParametersDescribed`, no run checks by itself; `NothingMissed`, which
  one does, uses the same `Wanted`, and the status parameter written the wrong way
  (`WhereStatus_Ok`) breaks both.
  `PromisesKept` is the refinement: `Spec => KeepsPromises`, with `over` as
  `step = "done"`. Promised is something about the answer only, so the invariant
  `Bounded /\ Faithful` carries it through the call: the rows read are spans of
  the service, in a search each once and of a trace that the service may offer
  for the filters it was sent (`Rows`, `Offered`), at most one of a trace
  where a row stands for one; what was fetched is in pieces of different traces,
  none of them of one still to be fetched (`FetchFit`); and the filters are those
  of the query. A *piece* (`Piece`) consists of copies of spans of one
  trace, each once, that differ from the service's in attributes, status and a
  lost parent at most (`Like`): what each backend's parser makes of a piece is one
  again, with X-Ray's and Sentry's stack of nested items by induction over its
  turns (`UnstackedCopies`). Whatever a step does, the call goes on with the
  invariant, or ends with nothing or with what is promised (`Goes`, one
  lemma per kind of step, one per backend). For the end, the filters that a
  backend applies again and those its service applied are together all that the
  promise asks for (`Decides`, one lemma per way of splitting them), and an
  answer that picks from items without a span twice has none twice
  (`FilteredPromised`). `Selection`'s `At` and the library's `FlattenSeq` are
  used through lemmas that say of which positions of their argument the result
  consists (`AtLists`, `FlattenIs`), by `SetInduction` again.
* **RequestPathProofs.** `RateHolds`, `RefusalsHaveCause`, `PermitsMeanThreads`,
  `ClosedIsQuiet`, `TypeCorrect`. For the limiter: the requests let through in
  the running window are exactly those counted, the last of the window before
  precede its start, and windows begin a whole window apart, so of twice the cap
  in a row at least two are a window apart; the sweep forgets only what is over.
  For the pool: free permits and holders add up to the permits, and whatever is
  pending or running without being an orphan belongs to a holder; a full set of
  threads then leaves no more pending than orphans.

Only model-checked: liveness (`EveryCallEnds` of the cache and of the backends,
`EverySearchEnds`, `EveryRequestEnds`, `EveryRequestAnswered`: the prover has no
rules for fairness and ENABLED that would carry them); and `NothingMissed`, the
converse of what `PromisesKept` says of a search for traces: besides the paths of
`Faithful` it needs that each backend's parsed and overlaid trace is *equal* to
the one the property shows, attributes and order included, which for New Relic
and Sentry is an equation between two ways through their parsers.

## What the models of the backends leave out

The service behind a backend is external. It finds a trace by a span that
satisfies all conditions sent; of a negative condition it is assumed to hold for
a span without the field. Where a service may answer in several ways, the model
lets it: any order, any prefix of the rows a page cap leaves, any lookup
failing. A span is reduced to identity, place, service, operation, time, status,
attributes, and three marks: *unsound* (one the parser rejects), *hinted* (one
whose row carries a status its span does not), *thin* (one whose lookup brings
fewer attributes than its row: New Relic, Sentry; an embedded subsegment with
X-Ray).

Differences between backends that the properties respect:

* A search that was `cut` promises no completeness (`AllFound`).
* Datadog is sent a status in the service's case by an equality and its negation
  with `OK` or `ERROR` only; any other text, and every text of a list, is quoted as
  it is (`DatadogAsked`). The model compares statuses as the service does: a quoted
  `ok` is its ok, a quoted `OK` is none (`DatadogQuoted`). `NothingMissed` leaves out
  the filters this changes the meaning of (`QuotesStatus`), `AllFound` does not.
* X-Ray evaluates conditions over a whole trace, so completeness is asked of the
  traces of which its conditions hold; a negated `OK` asks for an error there
  (xray.py:581), which a trace without a status does not have. Traceloop's
  search shows the root span only, and completeness is asked of it
  (base.py:984), with the older names its service keeps attributes under.
* Datadog, New Relic, Sentry and X-Ray apply every filter again to what a
  search for traces returns; of the others a filter may have been satisfied at
  the service by any span of the trace.
* Jaeger's service takes one name: of several equalities on `service.name`, the
  parameter among them, the last one counts (jaeger.py:106-117, and
  `tests/test_jaeger.py:296` means it so), though the filters of a query are
  joined by AND elsewhere (`filter_engine.py:64`). The contract says so
  (`Overridden`).
* A span whose lookup comes without status and attributes (New Relic, Sentry) is
  judged by what the lookup brings, unless the search found it itself
  (`Known`). A tag named like a field that spans have of their own means that
  field, and completeness is not asked of it.
* In searches for spans a filter that the service would have to apply but that
  cannot be expressed is dropped by Datadog, New Relic and Sentry; `TraceSource`
  promises only the others.
* Tempo's equality of durations (`duration = n`) is not among the cases.

In `RequestPath` the semaphore is first come, first served, as in asyncio; an
idle thread takes any pending work, which is more than the executor's queue
allows; a task has one item of work at a time.

## Not modelled, and why

Parsing of each backend's JSON, configuration and URL validation,
pricing, self-observability, tool argument validation and the CLI change no
shared state and have no order of events; unit tests reach them. The token,
Host and Origin checks compare strings and keep no state. Two backends
created by a call that comes after the globals were forgotten are modelled
(`GetCreates` while closing) but nothing is claimed about them: the process is
about to end.

## Plan

Done: the cache, the transport, the limiter and Honeycomb's queries, readiness,
the shared backends and the span tree, all with their proofs, the searches of the other
seven backends with the proof that they keep their contract, the gate and the pool. Left,
in this order:

1. A proof of `NothingMissed`, from the lemmas of `PromisesKept` about what
   parsers and filters keep, first for the backends that overlay nothing.
2. `CoalescedRead`, an abstract cache that answers each call atomically from
   some backend read, refined by `QueryCache`.
3. The limiter composed with the retry transport: a retried *Create Query
   Result* call passes the limiter once.
4. The aggregations of the tools, over the answers of `TraceSource`.
