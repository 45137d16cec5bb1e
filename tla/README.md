# A formal model of the axionvera SDK

This directory holds TLA+ modules that model the stateful parts of the
axionvera SDK (`src/`), TLC configurations that check them on small instances,
and theorems about them whose proofs TLAPS checks for every value of the
constants. `PROJECT.json` is the index: which component is modelled by which
module, which source lines every definition stands for, what each run checks,
and the hazards the properties are aimed at. Paths below are relative to the
root of the repository.

    tlc -workers 2 -config queue.cfg MCConcurrencyQueue     # one run
    tlapm QueueAndEmitterProofs.tla                        # the proofs of a module

Contents: 1. the system — 2. the modules and how they correspond to the code —
3. what the runs check — 4. bounds — 5. fairness — 6. proofs — 7. where code and
documentation differ — 8. what is not modelled — 9. plan.

## 1. The system

The SDK is a TypeScript library for dApps on Stellar/Soroban. Everything runs on
one JavaScript event loop: code between two `await`s is atomic, and everything
that is hard comes from what may happen *between* such turns: timers, answers
of the network, socket callbacks, calls of the application, a reload of the
page. So a step of a model is one turn, or one synchronous call, and every
`await` ends a step.

### Components

| Component | State | Operations | Hard because |
|---|---|---|---|
| **Request queue** `utils/concurrencyQueue.ts` | waiting queue, slot counter, throttle counter, interval start and timer, a timer for each request | `execute`, `processQueue`, `updateConfig`, `clearQueue`, `destroy`, `getQueueStatus`, timer callbacks | nested `processQueue` calls, timeouts racing dequeues, reconfiguration under load, a "read" that changes state |
| **Transaction tracking** `client/stellarClient.ts` | registry of pending hashes, a suspended polling loop for each | `trackTransaction`, cancel handles, `waitForTransaction`, `exportState` / `importState` | late answers, cancel and deadline between two awaits, a page refresh between export and import |
| **Real-time connection** `client/websocket/websocketManager.ts` | socket, flags, attempts, timer, heartbeat, subscription registry | `connect`, `disconnect`, `subscribe`, `unsubscribe`, socket callbacks | replaced sockets keep calling back, overwritten timers |
| **Reconnection backoff** `network/reconnectionManager.ts` | state, attempts, timer | `markConnected`, `markDisconnected`, `scheduleReconnect`, `reset` | a second reconnecting timer over the same connection |
| **SubscriptionService** `subscriptions/subscriptionService.ts` | owns the two above and a dispatcher | `start`, `stop`, `subscribe` | a close event after `stop` |
| **Event dispatcher** `events/eventDispatcher.ts` | handlers by id | `subscribe`, `unsubscribe`, `dispatch` | callbacks that change the Map being gone through |
| **RPC health monitor** `monitoring/rpcHealthMonitor.ts` | status of each endpoint, round in progress | `start`, `stop`, `runHealthChecks` | overlapping rounds, abandoned probes |
| **RPC endpoint manager** `network/rpcEndpointManager.ts` | enabled flags, policy, rotation index, attempts of each call | `execute`, `getActiveEndpoint`, `setPolicy`, `enableEndpoint`, `disableEndpoint` | the pool changes while a call sleeps between attempts |
| **Account sequence cache**, sequential submission `client/stellarClient.ts` | account → (sequence, expiry) | online fetch, offline increment, `submitTransactionsSequentially` | a slow fetch overwrites newer numbers; concurrent callers |
| **Environment switching** `network/environmentManager.ts`, `client/stellarClient.ts` | registered and active environment, the RPC client | `register`, `switchTo` | calls in flight during a switch |
| **Contract event emitter** `contracts/ContractEventEmitter.ts` | cursor, poll timer, listeners | `on`, `once`, `off`, `removeAllListeners`, `start`, `stop`, `close`, poll | cursor moves before delivery, listeners that change the listeners or close, close during a poll |
| **Event ranges** `client/stellarClient.ts` | none kept | range-splitting fetch | gaps and overlaps between ranges |
| **HTTP client** `utils/httpInterceptor.ts` | retries of each request | a request and its retries | an answer lost after the server has acted |
| **Plugin registry** `plugin/registry.ts`, `plugin/validation.ts` | manifests and what they depend on | `register`, `unregister`, `resolveDependencies`, cycle detection, sorting | cycles, missing and removed plugins |
| **Plugin manager** `plugin/*` | plugins, states, dependencies | `register`, `install`, `enable`, `disable`, `uninstall` | lifecycle hooks are awaited between check and change |
| **Middleware pipeline** `middleware/pipeline.ts` | ordered list | `use`, `remove`, `execute` | the list changes while a run awaits |
| **Batch** `batch/*` | operations and dependencies | validate, execute | failure handling, cycles |
| **Migrations** `migrations/*` | version, applied steps | run, rollback, path search | a step fails half-way |
| **Sessions** `session/*` | session map, statuses | create, close, expire | capacity counts closed sessions |
| **Retry** `retry/*`, `utils/httpInterceptor.ts` | attempt, elapsed time | `withRetry` | abort and elapsed cap between attempts |
| **Transaction lifecycle** `transactions/transactionLifecycleManager.ts` | state and history of each transaction | transition | re-entrant listeners |
| **CloudWatch shipping** `utils/logging/cloudwatch/*` | log buffer | log, flush | overlapping flushes |
| **Fees** `client/stellarClient.ts` | none | rational arithmetic on fees, `validateFee` | rounding |
| **Telemetry** `telemetry/telemetryService.ts` | event buffer, interval | `track`, `setEnabled`, `updateConfig`, `flush`, `destroy` | a buffer flushed from many places, a timer restarted by several |
| **Tracer** `observability/tracer.ts` | active and ended spans | traced calls, eviction, `clear`, `setLevel` | calls overlap, spans are cleared under them |
| **XDR cache** `utils/xdrCache.ts` | a Map of decoded values | `decodeXdrBase64`, `clearXdrCache` | eviction order at the limit |
| **Record and replay** `replay/*` | recorded interactions, a replay | `record`, import, export, `replay`, `validate` | recorded calls overlap, a session repeats ids |
| **Mock server** `testing/MockRpcServer.ts` | transactions, ledger, injected errors | send, poll, snapshot, restore, reset | snapshots share what polls change |
| **Errors of calls** `errors/axionveraError.ts`, `retry/errorClassification.ts`, `client/*` | none kept | an operation's error, judged by two loops | what is retried depends on how the error was dressed |
| **Offline signing** `builders/offlineTransactionBuilder.ts`, `wallet/*`, `utils/transactionBuilder.ts` | operations of a builder | build, export, import, sign, bump | several machines; an envelope does not carry its network |
| **Registries** `registry/*`, `capabilities/*`, `adapters/*` | descriptors, detections, adapters, a default | register, detect, `findAdapter` | a cache keyed by less than it depends on; a Map changed while it is searched |
| **Feature flags** `features/*` | definitions, overrides, policy | register, override, reset, evaluate | decisions that outlive their flag |
| **ABI detection** `axionvera-abi-versioning/src/registry`, `adapters` | versions of a contract, detected version | `register`, `unregister`, `detectVersion`, `resolveVersion`, `invalidate` | a detection under way when the cache is cleared |
| **Wallet provider** `packages/react/src/index.ts` | wallet shown | `connect`, `refresh`, watcher callbacks, mount, unmount | answers in any order |
| **Vault hook** `packages/react/src/useVault.ts` | step, hash, loading, error | `deposit`, `withdraw`, `reset`, polling | executions share one state |

The rest (browser wallets, building and simulating transactions, metrics and profiles,
validation, the other packages) keeps no state that interleaves; `PROJECT.json` lists
each with the reason it is left out.

### How they interact

* Every RPC call of a client configured with `concurrencyConfig` goes through
  **one request queue** below `StellarClient` (`rpcTransport.ts`,
  `wrapRpcClientWithConcurrency`). The queue knows nothing of its callers, so it
  is modelled with an arbitrary caller.
* `pollTransaction` is such a caller: each of its polls is a `getTransaction`
  which retries on its own and ends in an answer or an error. The tracker's
  model takes it as one query that the network serves at one moment and whose
  answer arrives at a later one; waiting in the request queue is part of that
  delay.
* `SubscriptionService` constructs a `WebSocketManager` and a
  `ReconnectionManager` and connects them by callbacks: `onConnectionChange`
  tells the reconnection manager, whose `connectFn` calls `connect` of the
  manager. Both run a reconnect timer. `StellarClient` uses a
  `WebSocketManager` on its own. One module composes all three.
* `RpcEndpointManager` reads the statuses the `RpcHealthMonitor` writes, at
  every attempt of every call.
* A `StellarClient` takes the middleware of the active plugins into its pipeline
  when it is constructed and, a timer later, has the `PluginManager` apply them,
  hook by awaited hook. One module composes manager, pipeline and client.
* The other parts share no state: batches, migrations, event ranges, sequence
  numbers, environments, lifecycles, sessions, retries, log shipping, event
  delivery, ABI detection, fees, plugin dependencies, HTTP retries, telemetry,
  tracing, the XDR cache, replay, the mock server, call errors, offline signing,
  capabilities, adapters, feature flags and the two React hooks each have variables
  and actions of their own, and `ClientWorkflows` puts them side by side.

### What makes each of them correct

* Queue: limit respected, slot counter exact, first in first out, no request run
  after its caller was refused, a waiting request always has something that will
  process the queue; requests that hang cost a slot each and nothing more.
* Tracker: one loop for each listed hash and conversely; deadlines survive a
  refresh; outcomes are true; every loop whose queries are answered ends.
* Real time: the server knows the subscriptions; reported states are true; lost
  connections are retried; no socket is created after `disconnect`.
* Endpoints: failover never returns to an endpoint that failed the call and
  gives up only when nothing is left; probing goes on.
* Event emitter: a listener sees its events in order, without a gap and, if it is
  there long enough, all of them; a closed emitter keeps nothing.
* Plugins: hooks of a plugin come in a sensible order; one recorded as failed comes
  into service no more, by whatever call was under way; middleware wraps a call like
  the layers of an onion.
* Workflows of many steps (batch, migration, event range, retry, the hooks that
  show a wallet or a transaction): what they report is what happened, whichever
  step fails, and each of them ends if what it asks of others is answered.
* A request that is not safe to repeat is sent once; what plugins need is found,
  once each and dependencies first; a span belongs to a call under way; a replay
  is judged by what it did; the mock server answers as it was told to.
* A call is made again for what is transient and for nothing else, and no oftener
  than the two loops allow together; an adapter that is found serves the contract;
  a flag is what was last decided of it.
* What is handed over is kept: a log entry until stored, a session until closed, a
  tracked event until flushed.
* What a transaction is made from is sound: its sequence number leaves no gap and
  is not given out twice unasked, the ABI version is the deployed one, its fees
  are the simulated ones enlarged exactly.
* Listeners that act on what they hear do not keep others from hearing it.

## 2. The modules and how they correspond to the code

Mutated forms of some definitions stand directly before them, marked `Mutant:`.
They play no part in the specifications: each is a plausible bug, and
substituting it for the definition it precedes makes a property fail, which
shows that the property depends on that code.

### ConcurrencyQueue

One action for each entry point of the class; `Next` lets any caller call any of
them at any time.

| Code | Definition |
|---|---|
| `queue`, `activeRequests`, `requestsInCurrentInterval`, `throttleTimer`, `config` | variables of these names |
| `timeoutId` of each request | membership in `timers` |
| `Date.now() - lastThrottleReset >= throttleInterval` | `intervalOver` |
| the caller's promise | `outcome[r]`, settled once (`Settle`) |
| requests whose function is awaited | `running`; not a field of the class, it is what the counter must count |
| `execute` | `Execute`: arm the timeout, push, `processQueue` |
| `processQueue`, `executeRequest` up to its `await`, `isThrottled`, `scheduleNextProcess` | `ProcessQueue`, `LoopStopsAfter`, `Throttled`, `CountAtEntry`, `Rearmed` |
| `executeRequest` after the `await` with its `finally` | `Complete` |
| timeout callback, `removeFromQueue` | `QueueTimeout`, `RemoveFromQueue` |
| throttle timer callback; the same of a timer set for another `throttleInterval` | `ThrottleTimerFires`; `StrayTimerDue` |
| `clearQueue`, `destroy`; `updateConfig`; `getQueueStatus` | `ClearQueue`; `UpdateConfig`; `GetQueueStatus` |

The `while` loop is described by the number `n` of requests it takes: each of
them found a free slot, and after the last the queue is empty or the slots are
taken. A function that throws before it returns a promise (`Throwing`) runs the
`finally` clause, and so a nested `processQueue`, *inside* the loop. It gives its
slot back in the same turn, so only the requests that hold a slot (`Holding`)
are counted; and the nested call re-arms the throttle timer if the rate is used
up by then (`Rearmed`), while the outer loop goes on. Time enters only through
`intervalOver` and `throttleTimer`, which is "due" once the interval it was
armed in has passed. `updateConfig` may change `throttleInterval` under an armed
timer: the interval may then be over earlier or later than before, and the timer,
which nobody sets anew, is "stray" and comes due when it likes.

`BoundedFifoService` is the abstract specification: what a client is promised,
without throttle, timers or counters. Requests wait in a sequence; at most
`Limit` execute; requests are served from the front; each is finished once or,
only while it waits, refused. Its fairness is that it does not leave a free slot
and a waiting request alone for ever (`Resume`); that what it executes ever
finishes it does not promise. `ConcurrencyQueue` instantiates it as `Service`, with
`waiting <- queue`, `executing <- running` and two sets read off `outcome`. The
run `queue` checks that the queue implements it, fairness included
(`ImplementsFairService`); that every step of the queue is a step of the service
or a stutter is proved as well, in `QueueAndEmitterProofs`.

### TransactionTracker

`loops[h]` holds every polling loop ever started for hash `h`, `pending[h]` the
one that `pendingTransactions` refers to. A loop's `pc` is where it is
suspended: in the `await` of `getTransaction` with the query on its way
(`asking`) or already served by the network (`NOT_FOUND`, `FINAL`, `error`), in
the sleep between polls, or ended. `Served` and `Arrive` are separate steps, so
an answer can be old when it arrives: the deadline may have passed, the loop may
have been cancelled, the transaction may have become final. `FINAL` stands for
SUCCESS and FAILED, which the loop treats alike (both resolve the promise).

| Code | Definition |
|---|---|
| `trackTransaction` up to the first await | `Track`, `NewLoop`, `TrackTransaction` |
| body of the polling loop, in two halves | `Arrive`, `Wake` |
| `finally { pendingTransactions.delete(hash) }` | `End` |
| `cancel` of a handle | `Cancel`: only raises the flag of its own loop |
| `exportState`, `importState` | `ExportState`, `ImportState` |
| reload of the page | `PageRefresh` (external): every suspended loop is lost |
| the network, the clock | `Served`, `Finalise`, `Tick` (external) |

`waitForTransaction` is `TrackTransaction` followed by awaiting the loop's
promise. `importState` hands each unexpired entry to `trackTransaction` with the
time left, so a restored loop's deadline is the saved one.

### WebSocketManager, ReconnectionManager, SubscriptionService

`WebSocketManager` keeps *every* socket ever created, because a replaced socket
keeps its handlers: `OnOpen(s)` and `OnClose(s)` may come from any of them,
while `ws` says which one `this.ws` refers to. `registered` of a socket is what
the server has been told on it. `strayTimers` counts the pending timeouts whose
handle `handleReconnect` has overwritten; nothing can cancel those.
`ReconnectionManager` is its state, counter and timer.

`SubscriptionService` composes the two. `managed` chooses the owner at the
start: a `SubscriptionService`, whose callbacks tell the reconnection manager of
every open and close (`Opened`, `Closed`) and whose reconnection manager calls
`connect` (`ServiceReconnects`), or a `StellarClient`, which calls `connect`,
`subscribe`, `unsubscribe` and `disconnect` itself. Backoff delays are not
modelled: a pending timer may fire in any later state, which includes every
order real delays allow.

### RpcHealthMonitor, RpcEndpointManager

`RpcHealthMonitor` is the interval, the flag `checkInProgress` and the probes
under way. A probe answers with a status or fails (an error, or `withTimeout`
gave it up: a late answer has no effect). Latency only decides whether an
answered probe leaves its endpoint healthy or degraded. The failure counter
saturates at the threshold it is compared with.

`RpcEndpointManager` extends it with `execute`: `call[c].pc` says whether call
`c` awaits its function, sleeps between attempts or has ended; `skipped` is the
set of endpoints that failed it. `Candidates` and `Picks` are the pool and the
four policies; a weighted choice may take any endpoint of the pool, and
least-latency any of the measured ones. Everything that changes what may be
picked (probes, policy, enabling, the rotation index moved by
`getActiveEndpoint`) interleaves with the sleep. The rotation index is only used
modulo pool sizes and is kept modulo `Period`, a common multiple of them.

### ContractEventEmitter

A poll suspends at each request (`poll`), and serving a request and receiving
its answer are separate steps, so a page may be old when it arrives and the
emitter may have been stopped or closed meanwhile; it is delivered all the same,
to the listeners there are. Delivery is one turn of the event loop, but a
listener is the application's code and may call the emitter in the middle of it.
So the turn is taken apart: `emits` holds the emissions left of the page, `calls`
the callbacks left of the current emission, and any call of the API may come in
between.

| Code | Definition |
|---|---|
| `listeners`, `interval`, `isClosed`, `lastLedger`, `lastCursor` | variables of these names (`listeners` in the order of registration, `key` the event name of each) |
| `isPolling` | `poll # "idle"` |
| `on`, `addListener`, `once` | `On`; one made by `once` is in `isOnce`; a registration is made once, a listener added again is another one |
| `off`, `removeListener`; `removeAllListeners` | `Off` (`Listed`, `Without`), `RemoveAllListeners`, `CloseCall` |
| `start`, `stop`, `close`, `unsubscribe` | `Start`, `Stop`, `CloseCall` |
| `poll` up to its first `await`; after each of them | `Tick`; `LedgerArrives`, `EventsArrive` |
| its loop over the events of the page | `NextEvent`: `answer.at` is the event taken up, `answer.cursor` the last of the page |
| `emit` | `Emit` copies the listeners, `Call` calls one (`Record`) |
| wrapper of `once` | in `Call`: removes itself, and so may close the emitter |
| `catch` and `finally` of `poll` | `Fail`, `FinishPoll` |
| the node | `CloseLedger`, `Page`, `ServeLedger`, `ServeEvents` (external) |

`off` is called with the callback the application has, never with the wrapper
`once` made of it, so it does not find such a listener. The history variable
`delivered` records the calls of listeners of one event name ("name",
"event:name"). For listeners of "event" and "*" nothing is stated: `emit` passes
every emission on to them as well, so they are called several times for an
event, and one of them added by `once` may be called twice, because the copy of
the listeners holds it twice before its wrapper runs.

### PluginManager, MiddlewarePipeline, StellarClientPlugins

A call of the manager is a stack of frames, one for each method entered, and what
the top one waits for; it runs to the next awaited hook in one step. The
operators `Begin...` are the methods up to their first hook, `AfterHook` and
`AfterCall` what follows; all of them map a world (the manager and one call) to
a world, which `Commit` makes the state. A plugin registered again under the same
id is another instance, so a call that awaits a hook of the first one can be told
from one that finds the second by id.

| Code | Definition |
|---|---|
| `transition`, `validTransitions` | `To`, `ValidTransition` |
| `register` with `autoInstall`, the `onRegister` promise, an `onRegister` that throws at once | `Register`, `OnRegisterSettles`, `RegisterThrows` |
| `setPluginError` with `onError`, which may throw at once | the outcomes of a hook (`Outcomes`) in `AfterHook`, `HookSettles`, `AfterClientInit`; `SetPluginError` |
| `install`, `enable`, `disable`, `uninstall`, `unregister` | `BeginInstall`, `BeginSwitch`, `BeginUninstall`, `BeginUnregister`, `EndUnregister` |
| `installAll`, `enableAll`, `topologicalSort` | `NextItem`, `InstallOrders` |
| `applyToClient`, `getMiddleware` | `ApplyToClient`, `AfterClientInit`, `Construct` |

`MiddlewarePipeline` follows one `execute`: its pre hooks go through the live
array by position, its post and error hooks through a copy sorted at that moment,
and `use`, the function `use` returned and `clear` change the array in between.

### The workflows

Each of the following is a module with a prefix of its own for `Init`, `Next` and
`TypeOK`; `ClientWorkflows` picks a `subject` at the start and lets that one move.

| Module | State and actions |
|---|---|
| BatchExecutor | a batch is the dependencies of its transactions; each is skipped, built (which takes a sequence number) and simulated in turn, and `stopOnFailure` ends it |
| MigrationRunner | the registry of steps, the search for a shortest path, and the runner step by step with validation, dry run and rollback; a state is what was applied to it, so an undone change can be told from one that never was |
| EventRanges | the recursion over halves as a list of ranges to read and one output; pages, repeated tokens, too-large answers |
| CloudWatchLogger | concurrent initializations, flushes with attempts, re-queueing, the interval, `destroy`; the service may store a batch and lose the answer |
| AccountSequences | fetches with a timeout and a late answer, offline increments, expiry, clearing, submissions the node takes, refuses or loses, the owner's transactions made elsewhere |
| EnvironmentSwitching | `register`, `unregister`, `switch` telling listener by listener, each of which may act; the client's `applyEnvironmentConfig` |
| TransactionLifecycle | transitions and `emit`, listener by listener, nested and throwing |
| Sessions | create with caller-given or generated ids, close by holder or manager, suspend, contracts, capacity |
| Retries | `withRetry`: attempts, backoff, two caps, a time budget, an abort signal, a hook that may throw, timers that fire late; and one HTTP request through the interceptor, of `src/` or of `packages/core`, whose server may act and its answer be lost |
| EventDelivery | the Map gone through while callbacks change it, for the dispatcher and for the WebSocket manager, whose treatment of throwing callbacks differs |
| AbiDetection | the registry in order of registration, detection tag first and then probe by probe, the adapter's cache, in-place upgrades |
| WalletProvider | reads of the wallet in two awaits, the watcher, mounting; the wallet's user changes it |
| VaultHook | executions that act, ask and sleep over one shared state, and `reset` |
| TransactionFees | `toFraction`, `multiplyAndCeil`, `applyFeeBuffer` and the limit, over multipliers in decimal notation; `validateFee` |
| PluginDependencies | the registry of manifests; its searches go depth first over the same ids in the same order, so they are one walk (`DepthFirst`) with the path of calls under way, the ids seen, the order calls ended in, and the cycles closed |
| Observability | telemetry: the buffer, the interval, a handler set late, where `intervals` counts what `setInterval` set and nothing cleared; the tracer: traced calls that overlap, with spans that are evicted or cleared under them |
| TestDoubles | record and replay: overlapping recorded calls, sessions exported and imported, a replay handler by handler, `validate`; the mock server: entries shared by the map of transactions and a snapshot, polls, injected errors |
| CallErrors | a call of the client inside `withRetry` of the application: the loop of `retry` within the operation, what each operation makes of a failure, and the classification of that error by the outer loop; tries and rounds counted apart |
| OfflineSigning | two offline builders and all transactions made of them; an envelope knows no network, so whoever parses it supplies one, and a signature is the network it was made for; packages, copies, fee bumps, and ledgers that take a transaction |
| Registries | the registry of descriptors and the cache of the detector; adapters as the places of a Map gone through by `findAdapter`, which awaits each; feature flags with overrides, policy and resets; the keys of the XDR cache's Map in order |

## 3. What the runs check

| Run | Module, configuration | Checks |
|---|---|---|
| `queue` | MCConcurrencyQueue, `queue.cfg` | `TypeOK`, `ConcurrencyLimit`, `SlotsAccounted`, `LiveRequestsUnsettled`, `NoLostWakeup`, `ThrottleOvershoot`, `EveryRequestAnswered`, `ImplementsFairService` |
| `queue_reconfigured` | MCConcurrencyQueue, `queue_reconfigured.cfg` | `NoDeadQueue`, `StartsWithinLimit` |
| `queue_throttle_rate` | MCConcurrencyQueue, `queue_throttle_rate.cfg` | violation of `ThrottleRateRespected` |
| `tracker` | MCTransactionTracker, `tracker.cfg` | `TypeOK`, `RegistryMatchesLoops`, `OutcomesHonest`, `HydrationFaithful`, `NoQueryAfterStop`, `EveryLoopEnds` |
| `tracker_cancel` | MCTransactionTracker, `tracker_cancel.cfg` | violation of `CancelRejectsNobody` |
| `realtime` | SubscriptionService, `realtime.cfg` | `SUTypeOK`, `SubscriptionsRegistered`, `ReconnectsSurvive`, `OneConnection`, `ConnectedIsTrue`, `NoSocketAfterDisconnect` |
| `realtime_cleanup` | SubscriptionService, `realtime_cleanup.cfg` | violation of `CleanupReleasesSockets` |
| `endpoints` | MCRpcEndpointManager, `endpoints.cfg` | `EMTypeOK`, `EachEndpointTriedOnce`, `GivesUpOnlyWhenExhausted`, `EveryCallEnds`, `ProbesContinue` |
| `emitter` | ContractEventEmitter, `emitter.cfg` | `CETypeOK`, `ListenersServed`, `EventuallyDelivered` |
| `plugins` | MCPlugins, `plugins.cfg` | `TypeOK`, `FailedStaysOut`, `OnionOrder`, `HookOrder` |
| `plugins_unregister` | MCPlugins, `plugins_unregister.cfg` | violation of `RemovedIsUninstalled` |
| `workflows` | MCWorkflows, `workflows.cfg` | `TypeOK`, `OutcomesTruthful`, `DependenciesResolved`, `NothingLost`, `TransactionInputsSound`, `OperationsEnd` |

Most of the last run's properties are conjunctions with one part for each module it
composes, named there: `OutcomesTruthful` is `BatchTruthful`, `MigrationTruthful`,
`RangeTruthful`, `RetryKeepsLimits`, `WalletShown`, `HookTruthful`,
`RequestsRepeatSafely`, `ReplayJudged`, `MockDeterministic`, `SpansOfRunningCalls`,
`FailuresJudged`, `CapabilitiesCurrent`, `AdapterFound` and `FlagsFollowDecisions`;
`NothingLost` is
`EntriesKept`, `SessionsKept`, `EventsAccounted`, `ClientFollows`, `TransitionsHeard`
and `DeliveredOnce`; `TransactionInputsSound` is `NumbersUsable`,
`VersionCurrent`, `FeesBuffered`, `FeeValidated`, `CacheKeepsLatest` and
`SignedForItsNetwork`.

What they show:

* **queue.** With a fixed configuration the queue is a first-in first-out
  service of `maxConcurrentRequests` servers, whatever mix of synchronous
  throws, queue timeouts, throttling and clearing happens. Requests wait only
  because every slot is taken or because a throttle timer will process the
  queue (`NoLostWakeup`). The rate is tested once for each `processQueue` and
  not in its loop, so an interval can admit more than `throttleRate` requests;
  `ThrottleOvershoot` says how many more at most: the larger of the rate and
  `maxConcurrentRequests`, next to requests that throw synchronously. The
  reason is not obvious: a backlog longer than the free slots builds up only
  while the queue is throttled, and is drained when the count starts afresh.
  `EveryRequestAnswered` says for every set of requests smaller than the number of
  slots that, if these hang and the others settle once started, every other
  request is answered; once as many hang as there are slots, nothing is promised.
* **queue_reconfigured.** `updateConfig` does not process the queue and may put
  the limit below the number in flight. Slots are handed out within the limit in
  force at that moment all the same, and a waiting request always has a
  completion or a timer ahead of it. `NoLostWakeup` does not hold here (a raised
  limit leaves slots idle until the next completion), which is why the two
  configurations check different properties.
* **tracker.** The `finally` clause deletes by hash, not by loop, and cancel leaves
  the entry in place. `RegistryMatchesLoops` shows that these fit together: a second
  loop for a hash never exists, since re-tracking a cancelled hash returns the
  cancelled entry. A caller that joins a loop (`:1487`) has that loop's deadline, so
  `NoEarlyTimeout`, a part of `OutcomesHonest`, is about the deadline of the loop and
  not about the timeout of each caller (documented at `:1480`). `EveryLoopEnds` is
  about loops whose own queries are all answered. `HydrationFaithful` and
  `OutcomesHonest` cover export, refresh and import in any order, a snapshot imported
  twice or long after it was taken included.
* **realtime.** With repeated connects, replaced sockets and two timers, what
  the server knows equals the local registry while the current socket is open,
  and after `disconnect` no timer, caller or late callback creates a socket,
  even though stray timers do fire and a close event re-arms the reconnection
  manager after `stop`. `OneConnection` states what an owner gets that connects
  once and leaves reconnecting to the manager: one live socket and no stray
  timer; it does not hold otherwise.
* **endpoints.** A call tries an endpoint at most once, gives up only when it
  used its attempts or when every enabled endpoint that is not unhealthy has
  failed it *at that moment*, and always ends; probing continues in spite of
  overlapping starts, stops and rounds asked for by the user.
* **emitter.** The cursor moves before a page is delivered and the page is not
  fetched again; nothing is lost by that, because delivery cannot be
  interrupted: a listener that throws is caught, and one that closes the emitter
  or removes listeners only ends what those would still have got. Failed
  requests, stops and restarts leave neither gaps nor repetitions for a listener
  of one event name, and it gets every such event as long as it stays
  registered and the emitter is not stopped. A closed emitter holds neither a
  timer nor listeners, whatever is called on it later.

* **plugins.** Whatever two callers do to two plugins while hooks are pending, the
  hooks of a plugin come as `onInstall`, then `onEnable` and `onDisable` in turn; a
  plugin recorded as failed, even by a hook that settles late, does not start a hook
  of these again, ends at most as uninstalled, and is not taken up by a client
  (`FailedStaysOut`). What a client had taken up before it still registers, be it that
  the failure is that of `afterClientInit`, and what a pipeline has it keeps; so a
  failed plugin's middleware may go on serving (section 7). Post and error hooks of a
  call run in the reverse of the order of its pre hooks, whatever `use`, removal and
  `clear` do meanwhile.
* **workflows.** Nothing in a batch succeeds on what did not; a migration that
  says it rolled back has the state it began with, and a completed one was applied
  whole; a range of events comes in order and without duplicates; an entry of the
  log is in one place until stored, though flushes and initializations overlap; the
  cache of sequence numbers never skips one and repeats one only after asking the
  node, though a late fetch may overwrite a newer number; a client that is told
  of switches follows the active environment, unless a listener switches inside a
  switch, and its RPC client is that of its configuration, unless the new one was
  refused; every listener of
  a lifecycle hears of transitions made inside listeners; a delivery reaches
  whoever was subscribed all the time exactly once; a cached ABI version is the
  deployed one unless something changed since its detection began; fees are
  rounded up exactly and stay within the limit; a request of a method that is not
  to be repeated is carried out once at most, however answers are lost; what a
  plugin needs is what every set closed under dependencies contains, a cycle is
  found if and only if the plugins cannot be ranked, and installation puts
  dependencies first whenever it can; an event of the telemetry is flushed once, in
  order, and exactly one interval is set while the service collects; the XDR cache
  holds the inputs used last; a recorder holds each call that settled once, and a
  replay passes exactly what it repeated; the tracer holds more than `maxSpans`
  only if more were active at once; the mock server finds a transaction pending as
  often as it was told to; through two nested loops a failure that is not transient
  is not repeated, unless the operation dresses it as one that is, a transaction is
  sent again only after an error that speaks of a timeout, and a read is given up on
  an overloaded server only when all attempts of both are used; a transaction that
  nobody took to be of another network is signed for its own alone, however it
  travelled, and of all that one builder builds a network takes one; a detection by
  default is about the ABI at hand; a search that finds no adapter passed over none
  that was registered all the while; a flag that was unregistered comes back with
  nothing left of it; what wallet and vault hooks show
  is true as far as section 7 says; and each workflow ends if what it asks of others
  is answered (section 5). Each statement says
  itself where it stops being true (`nested`, `cut`, `quiet`, `dropped`, `alone`
  and the like are such histories); section 7 lists these cases.

## 4. Bounds

* Queue: four requests, one of which throws synchronously, two slots, a rate of
  one. Two slots and four requests are the smallest instance in which two
  requests run while two wait, so that order, a nested `processQueue` and a
  throttled backlog exist together; a rate below the number of slots is what
  makes the overshoot possible. Reconfiguration moves between one, two and three
  slots, with and without throttling and queue timeouts, and between two throttle
  intervals. Requests are alike but
  for throwing, so `queue_reconfigured` uses symmetry, and so does `plugins` with its
  callers; runs with liveness do not.
* Tracker: two hashes, timeouts of 0 (ends at once) and 2, a clock that stops at
  `MaxTime = 2`, so that a deadline can pass before a refresh, between export and
  import, and after the import. `MaxLoops` lets one hash be tracked twice (again after
  it ended, or by an import) and the other once. A loop refused by this bound is one
  the model does not start; nothing else depends on it.
* Real time: five sockets (`MaxSockets`), two connects by the owner
  (`MaxConnects`), two attempts for each of the two timers, two
  subscriptions. Five sockets are two connects, one automatic reconnect after each
  of them and one more.
* Endpoints: two endpoints of different priority, one call with one retry,
  `UnhealthyAfter = 2`, `Period = 2`. Other calls affect this one only through
  the rotation index, which `GetActiveEndpoint` and `SetPolicy` move in the same
  way, and through nothing else.
* Emitter: two listeners for "event" (which stands for "*" too) or one event
  name, pages of one event, two events of the contract in two ledgers. A page
  limit of one makes every second event a page of its own and lets two events of
  one ledger fall on different pages; two listeners are what one needs to
  remove another in the middle of an emission. An event is of four kinds, told
  apart by what is emitted for it.

* Plugins: two plugins, one requiring the other, everything done by hand or at once
  (`MCConfigs`; the options by default, which install by hand and enable at once, are
  met in the latter where `onRegister` has thrown and a call installs the plugin), two
  callers of the manager alone and one next to a client (`MaxClientCalls`), two
  instances (`MaxInstances`, so that one id can be registered again), three entries of
  the pipeline (`MaxUses`), one change of the array during a call. With
  `RunsAfterFailure = FALSE` the pipeline is not run once a plugin failed: nothing of
  the manager reaches the pipeline afterwards that did not before.
* Workflows, each the smallest instance in which its hazard occurs: batches of up to
  three transactions with every choice of dependencies; versions 1 to 3 and five
  steps, two without rollback; six events in four ledgers, pages of two; two log
  entries, batches of one, two attempts, two flushes at once; two fetches and numbers
  up to three; two environments, registrations and switches; two events of a
  lifecycle, the second in or after the call of the first; three sessions with room
  for two; caps up to three and budgets of two and three units; two places of a
  subscription Map; two ABI versions, two calls and one change; two accounts, two
  reads and one change of the wallet; two executions of a hook with two polls;
  multipliers 1, 1.15, 2.5, 1.001 and one with an exponent, fees from 0 to 2000 (a
  behaviour prepares one transaction or validates one fee); three plugins, each
  depending on up to two ids, its own and missing ones included, which is every graph
  of three nodes that has no node with three successors; three retries and delays from
  one to the cap of eight; buffers of one and three and four events; a cache of three
  and five inputs, one undecodable; two recorded calls and sessions of two, which is
  what an import needs to repeat an id; three traced calls and room for two spans; two
  transactions of the mock server, pending for one poll, and one injected error;
  failures of six statuses (one for each way they are judged, and 302, which no list
  knows) or of none, an inner loop of one or two tries and two rounds; two networks,
  two builders, two transactions, one package, and a signature of each kind; two
  registrations and two detections; two adapters of two names; two flags, one built
  in, and every policy. In `TestDoubles` the recorder rests while a replay goes on: a
  replay reads a session of its own.

Deadlock is checked for `endpoints`. The other systems may stop: all requests
answered, the clock at its bound, the connection given up, the emitter closed, no
workflow under way.

## 5. Fairness

Weak fairness but for one case, and in the specifications of the queue, the tracker
and the workflows only of what the code does by itself: timers that are set, and code
that goes on. Nothing is assumed of callers, of cancel, of clearing, of a queue
timeout ever firing, or of an answer of the network. For a request may hang:
`rpc.Server` is constructed without a timeout (`src/core/serviceContainer.ts:20`), the
queue has "No timeout for executing requests" (`CONCURRENCY_CONTROL.md:148`), and
`pollTransaction` and `useVault` test their deadline between two awaits only. The two
limits there are belong to the HTTP client (`src/utils/httpInterceptor.ts:65`,
`packages/core` at `:97`), which `rpc.Server` does not use, and to the fetch of an
account, which races a timer (`src/client/stellarClient.ts:817`). What a liveness
property needs of others is a premise of that property, where a reader sees it.

* Queue: a due throttle timer runs, the throttle interval passes, a timer set for an
  earlier `throttleInterval` comes due. Premise of `EveryRequestAnswered`: fewer
  requests hang than there are slots. `ImplementsFairService` has no premise.
* Tracker: the clock advances, a served answer arrives, a sleep ends. Premise of
  `EveryLoopEnds`: the loop's own queries do not hang; those of other loops may. The
  network is not obliged to finalise a transaction: loops end by their deadline.
* Endpoints: the interval's callback runs while the monitor is started, a probe
  ends (`withTimeout`), a retry delay ends; and the function given to `execute`, which
  is the caller's, settles. Without that a call ends only in so far as its function does.
* Emitter: the poll timer fires while it is set, a turn that began goes on, and
  strong fairness of `Serve`: a node asked again and again answers at some time.
  Without that the emitter could poll an unreachable node for ever, and no code
  could deliver anything.
* Workflows: loops go on and timers fire, the timeout of an account fetch, that of
  the HTTP client and the telemetry interval included. Nobody need begin a workflow.
  `OperationsEnd` has three parts. `TimedOperationsEnd` has no premise: account
  fetches and HTTP requests end, and telemetry does not keep what its timer is there
  for. `AnsweredOperationsEnd`: batches, migrations, ranges of events, sequential
  submissions, retries, calls, replays and searches for an adapter end if the node,
  the migration's steps, the handlers or the adapters they await answer in the end,
  well or badly. `OverlappingOperationsEnd` says the same of ABI detections, reads of
  the wallet and executions of `useVault` one by one: another one that hangs does not
  hold them up.
* Real time and plugins: only safety is checked; a connection may stay as it is,
  and a hook of a plugin, which is the application's code, may never settle.

## 6. Proofs

Eight modules hold theorems and lemmas:

* `CommonLemmas`: lemmas on numbers, sequences and recursive functions, cited by all
  others. `LeastNatural` is the least number of a set; `RecursionExists` and `LoopExists`
  show that a recursive definition along a number, and one that goes from state to state
  as long as a measure falls, define functions.
* `QueueAndEmitterProofs`, `ClientRequestsProofs`: two and three components that share
  nothing, the request queue and the event emitter, and the tracker, the endpoints and
  the real-time connection. Where the names of two specifications would be the same, the
  second has a prefix (`CE`, `EM`, `SU`).
* `StellarClientPluginsProofs`: plugin manager, pipeline and client.
* `WorkflowOutcomesProofs`, `WorkflowInputsProofs`, `WorkflowKeepingProofs`: the
  invariants of the workflows, each module extending those it is about: what is
  reported; what transactions are made from, and the order of plugins; what is kept and
  heard, and migrations.
  `ClientWorkflowsProofs` puts them together and derives their types.

Nothing is assumed
but the `ASSUME`s of the modules (finitely many requests, hashes and registrations, at
least one slot, a priority for every endpoint, natural numbers as bounds) and what a
theorem itself states, so the results hold for any number of requests, slots, loops,
endpoints, sockets, attempts, listeners, events, plugins, callers, layers of
middleware, entries, sessions and calls nested in one another. TLC checks the same
properties on the instances of section 4, but for `ImplementsService`, which is the
safety part of `ImplementsFairService`.

| Module | Theorem | States |
|---|---|---|
| `QueueAndEmitterProofs` | `TypeCorrect` | `TypeOK`; in particular the slot counter is never negative |
| | `SlotsAreAccounted` | the counter equals the number of requests in flight |
| | `LiveRequestsStayUnsettled` | no request runs after its caller was refused, none is in two places, timers live only while their request waits |
| | `StartsAreWithinLimit` | a slot is only handed out within the limit in force |
| | `LimitHolds` | with a fixed configuration the requests in flight never exceed `maxConcurrentRequests` |
| | `QueueNeverDead` | under any reconfiguration a backlog has a request in flight or an armed throttle timer |
| | `WakeupsAreNotLost` | with a fixed configuration no slot stays free while a request waits, unless throttled with the timer armed |
| | `ThrottleIsBounded` | what one interval admits is bounded as `ThrottleOvershoot` says |
| | `ImplementsService` | with a fixed configuration, `Spec => Service!Spec` without fairness |
| | `EmitterTypeCorrect`, `ListenersAreServed` | types; a listener of one name gets every event of it once, in order and without a gap, one added by `once` a single event, and a closed emitter keeps nothing |
| `ClientRequestsProofs` | `TypeCorrect`, `RegistryIsExact`, `OutcomesAreHonest` | types; one live loop for each listed hash and conversely; outcomes are true |
| | `HydrationIsFaithful` | an imported loop has the deadline of a loop from before the refresh |
| | `StoppedLoopsStayQuiet` | no query is sent after cancel or deadline |
| | `PoolTypeCorrect`, `FailoverIsFresh`, `NoEarlySurrender` | types; no endpoint is tried twice by a call; a call gives up only when nothing is left to try |
| | `ConnectionTypeCorrect`, `SubscriptionsStayRegistered` | types; the server knows the registered subscriptions |
| | `ReconnectsDoSurvive`, `ConnectedIsHonest` | a lost connection can come back; "connected" is true |
| | `NoLateSocket`, `OneConnectionOnly` | no socket after `disconnect`; one live socket for an owner that connects once |
| `StellarClientPluginsProofs` | `TypeCorrect`, `FailedStayOut` | types; a plugin recorded as failed starts no hook but `onUninstall` and is taken up by no client, which registers only what it had taken up before |
| | `HooksComeInOrder`, `LayersInOrder` | the hooks of a plugin come in a sensible order; post and error hooks run in the reverse of the order of the pre hooks |
| `WorkflowKeepingProofs` | `ResolvePathFinds` | whatever steps are registered, the search for a path between two versions ends, returns one that is applicable and shortest, and nothing only if there is none |
| `ClientWorkflowsProofs` | `WorkflowsTypeCorrect` | the types of all workflows |
| | `NothingIsLost` | log entries until stored, open sessions while open, tracked events until flushed; and listeners of environments, transitions and contract events hear what they asked for, whatever listeners do |
| | `OutcomesAreTruthful` | what batches, migrations, ranges of events, retries, requests, wallet, hook, replays, the mock server, spans, capabilities, adapters and flags report is what happened |
| | `DependenciesAreResolved` | whatever plugins are registered, the searches over their dependencies end and find what they are to find, and no dependency goes before its dependent |
| | `InputsAreSound` | what a transaction is made from: account numbers, ABI version, fees, network and decoded values |

Each follows the same line: an invariant `IInv` that holds initially and is kept
by every action, one lemma or one step for each action, and then what it implies.
What makes the invariants inductive:

* **Queue.** The counter stays a natural number only because it counts `running`;
  it goes on counting `running` only because a request taken from the queue is not
  running already and is taken once; and this holds because the queue has no
  repetition and is disjoint from `running`. So `IInv == TypeOK /\ SlotsAccounted
  /\ LiveRequestsUnsettled`. `ProcessQueueSound` proves once what a `processQueue`
  call with arbitrary arguments yields (it is called from three actions), by lemmas
  on suffixes of a sequence without repetition and on the cardinality of `Holding`.
  `LimitHolds` adds that a loop which starts at or below the limit stops at or below
  it. Work conservation rests on `ProcessQueueDrains`: after any `processQueue` the
  queue is empty, the slots are taken, or the throttle timer is armed; other
  actions do not disturb that (a completion, which frees a slot, processes the
  queue itself).
* **Throttle.** `ThrottleOvershoot` alone is not inductive: a loop that met a
  backlog, free slots and a rate used in part would go past the bound. The
  strengthening is `BacklogMeetsFreshCount`: requests wait while slots are free
  only if the count is fresh, or will be because the interval is over, or the rate is
  used up. Then a loop either takes one request (the one just queued, or the one for
  which a slot became free) on top of a count below the rate, or starts from a count
  of zero and takes no more than there are slots, in both cases next to those that
  throw.
* **Refinement.** With the invariant at hand each action maps to one step of the
  service, which may serve several requests from the front at once as one
  `processQueue` loop does, or to a stutter (timers, the passing of an interval).
* **Tracker.** To `TypeOK`, `RegistryMatchesLoops` and `NoEarlyTimeout` come two
  facts about what is under way: an answer FINAL was served after the transaction
  became final (`FinalAnswersTrue`), and a saved snapshot has deadlines that loops
  of that hash have (`SavedFaithful`), which a page refresh does not change since
  the loops that ended are kept.
* **Endpoints.** Of each call (`CallOK`): the endpoints it tried are those that
  failed it, none twice; a call that sleeps holds no endpoint and has attempts
  left. The pool, which is read anew after the sleep, may be anything.
* **Connection.** To the checked properties come: a connecting socket has nothing
  registered (`ConnectingIsClean`), a closing one means `disconnect` was called
  (`ClosingIsDestroyed`), and without a service the reconnection manager never moves
  (`UnmanagedIsIdle`). `OneConnectionOnly` has an invariant of its own on top, that
  every socket but the newest is closed (`OnlyNewestLives`), which is why a timer
  can only fire with nothing open.
* **Emitter.** Between the copy `emit` makes and the call of the last listener in it,
  every listener may be removed and the emitter closed; so `EmitterInv` follows what
  a listener was called with through the turn. Up to the event taken up, a listener
  that is still listed has every event of its name since its first, but for the
  current one while it waits for that call or its name is yet to be emitted
  (`NoGap`). It waits for one such call at most: a registration is listed once and
  under its own name (`ListsSound`), an event is emitted once under each name
  (`EmitsSound`), and what is emitted afterwards is another name (`CallsSound`). What
  it waits for it was not called with yet (`OwedSound`). The page itself starts where
  the cursor stands (`TurnSound`, `PageSound`). That a listener was removed is no reason
  for a gap, only for an end.
* **Plugins.** Every method of the manager runs from one await to the next, and
  whatever it does in between, it either comes to a hook by a transition
  `lifecycle.ts` allows or has at most recorded failures and removals (`Leaves`,
  proved of each method and of each return to one that awaited another). `HooksMatch`
  relates the state of a plugin to the hook last started for it, so that a transition
  allowed is one between hooks in a sensible order. `FailedStayOut` rests on
  `FailedAreOut`: a plugin that failed is in state Error or Uninstalled, of which no
  allowed transition leads to a hook; so no hook that switches a plugin starts for it,
  and the instances the manager hands to a client, which are active, have not failed;
  an entry that comes to the pipeline is of such an instance or of one taken up before
  (`HandsOver`). The pipeline's array is strictly ascending (`ArraySound`: sorting
  keeps it so because no two entries have the same sequence number); the pre hooks of
  a call have run of entries before all those it has yet to come to, unless one was
  added (`PreSound`); its post and error hooks go through a copy in descending order
  (`BackSound`), which reverses what the pre hooks went through if nothing changed
  (`LayersMatch`). `SortOrders` shows what the sort returns is there and is ordered;
  it exists by induction on the length.
* **Log entries and sessions.** An entry is in its call, in the queue or in exactly
  one batch: the queue has no repetition, batches are pairwise disjoint and
  disjoint from the queue (`Placed`), calls are disjoint from both (`HeldIsLogged`)
  and nothing is missing (`NoneMissing`). Every open session is the one managed
  under its id (`OpenIsManaged`), and the registry, closed ones included, has no
  more than `Room` entries (`RegistryFits`).
* **Telemetry.** `EventsAccounted` needs one more fact (`TMInv`): before a handler is
  set nothing has been handed over. So a flush without a handler discards only
  events that come before every other one, and `FlushAccounts` and `TrackAccounts`
  show once, for any buffer, that flushing and tracking keep the account.
* **Listeners.** The parts of `NothingLost` about listeners speak of the moment when all
  calls have returned, so the invariants say what calls under way still owe. Transitions
  (`TLInv`): a listener has heard of an event, or some call of `emit` has it yet to
  call (`HeardOrDue`); each call has an event of its own, and those it has yet to call
  are subscribed and have not heard of it (`EmitsSound`), so nobody hears twice. The
  first listener hears in order because it is called before anybody can act on the
  event: only the innermost call can still owe it, and only before it has called
  anyone (`FirstInOrder`). Environments (`ESInv`): unless listeners switch, one call
  at most is under way, with the active environment, and the client is there or
  will be told (`OnTheWay`). Delivery (`EDInv`): of the places visited, those still
  untouched have heard exactly if their filter matches.

* **Account numbers.** `NumbersUsable` needs what is under way (`ASInv`): an answer of
  the node is of now or of before (`AnswersPast`), and what is cached was given out
  last (`CachedLast`); so a number given out is the node's, or one past the last. That
  one is new among those given without the node follows as the numbers given since
  it was last asked rise (`OfflineRises`).
* **ABI versions.** A detection that no change has outdated goes backwards through
  the order, and none of the versions behind it tells (`LeftSound`), nor does any of
  the methods found so far speak against the one it probes (`ProbingSound`). A change
  of anything it reads outdates it (`ChangeOutdates`), which is what
  `detectedAfter = changes` in the property excludes.
* **Fees.** Here the invariant is simple: what was prepared is what `applyFeeBuffer`
  makes of the request. The work is arithmetic: numerator, denominator and worth of a
  multiplier are recursive functions of its digits, which `RecursionExists` shows to
  be functions on numbers; `WorthIsFraction` relates them by induction on the digits;
  and `SameRatio` carries the comparison from one denominator to the other.
  `RoundedTogether` shows that two roundings cost one stroop more than one at most.
* **Signing.** Packages carry signatures from one signer to another, so `OSInv` says
  of packages what it says of transactions; and each builder hands out one sequence
  number only, so that a ledger which accepted one of its transactions refuses the
  others (`LedgersMoveOn`).
* **XDR cache.** `decodes` has no repetition and the cache is its end, as long as
  there is room for. `MoveLastElements` says what moving to the end does, to either: a
  hit moves the same input in both, at places that correspond.

* **Plugin order.** The depth-first walk is a function over its own states, which
  exists by `LoopExists`: a call takes one id from those unseen, an end one from the
  path, so twice the unseen plus the length of the path falls. `DepthInv` says that
  ids whose call has ended have nothing left to call (so what was seen is closed under
  dependencies, but for the path), that the registered ones among them are `sorted`,
  once each, that each id of the path needs the next, and that whatever is seen is in
  every closed set that holds the roots. As long as no cycle was closed, nothing on
  the path needs what lies before it, and what is in `sorted` comes after what it
  needs (`CallKeepsOrder`, `EndKeepsOrder`). So a search finds the least closed set. A
  cycle refutes every rank, because the lowest of its ids needs a lower one
  (`CycleHasNoRank`); and an order without a cycle is a rank (`SortedIsRanked`). Of
  the registry (`PDInv`), pairs once met are met now, unless the dependent has left.

What the parts of `OutcomesTruthful` rest on:

* **Batches.** What the executor knows of each transaction when it comes to it
  (`ResultsSound`): one that succeeded has what it depends on, one that was not tried
  stands on a failure, and in a batch that stops, one that was built comes after
  successes only. Sequence numbers are at most one per transaction, so they rise.
* **Migrations.** The breadth-first search is a function over its own states, a queue of
  paths and a set of visited versions. That there is such a function follows by
  `LoopExists`: a step either visits a version for the first time or shortens the queue.
  `SearchInv` says that paths in the queue are made of registered steps, start at the
  beginning and lead to visited versions, differ in length by one at most and are ordered
  by it; that no visited version can be reached by fewer steps; and that from a visited
  version which is not the end of a queued path every step leads to a visited one
  (`WalkGrows`, `WalkShrinks`). So the first path that arrives is a shortest, and an empty
  queue means that nothing else can be reached. Of the runner (`MGInv`): the path is a
  suitable one (`PlanSound`); what was applied is what the executed steps apply, in
  order; and while no rollback is missing or fails, the changes are those of the completed
  steps followed by the last of them undone, newest first (`BackBy`), which comes to
  nothing once all are undone (`NetOfRollback`).
* **Ranges of events.** The ranges yet to read follow one another to the end of the
  request (`RangesFollow`), and every event before where reading goes on is in the
  output or on the page, or was lost by a split (`ReadSoFar`); pages
  come in order, so the output rises and no event is in it twice (`AnswerSound` says it
  of one answer of the node).
* **Retries.** A sleep is followed by an attempt that every limit leaves room for
  (`RTInv`). Of the HTTP client (`HRInv`): a request was sent once more than it was
  repeated, and each wait lies between what the server asked for, up to the maximum, and
  the maximum; the exponential delay is a recursive function of the repetition.
* **Failures.** Within round `r` a call was sent at least `r - 1` times and once for each
  try, and at most as often as the rounds before it allow (`RoundsCounted`); what a
  call waits for or was given up for is its last answer (`WaitsAndRejects`); and each
  repetition was of a failure it is made for (`RepeatsJudged`). TLC had checked this
  with too few statuses: the proof of `FailuresJudged` failed at 501, which is on no
  list of retryable statuses but becomes a `NetworkError`, and so is retried.
  `Kind` and the statuses of the run now include it.
* **Wallet and hook.** Reads began no later than now and what is shown was read no later
  either (`WPInv`), so a change in between can be told. Executions of the hook begin in
  order, and one that has the hook to itself is the last (`VHInv`).
* **Replays.** Interactions tell of calls that have settled (`Told`), and the results of a
  replay are those of the first interactions of its session, one by one (`Replays`);
  `ReplayJudges` shows that a comparison by id is then one of equals, unless two
  interactions have the same id.
* **Mock server.** Of each entry, the polls that found it pending and those left are as
  many as it was given (`EntryCounted`); a hash made by the server tells how many entries
  there were, so that the next is new (`MapSound`).
* **Spans.** Every span is active or ended or was dropped as one of the oldest;
  `OldestLeaves` says what the limit takes away.
* **Registries.** A name of a descriptor stands for the last one registered under it
  (`RegistrationsSound`), and what is cached was detected for the first one asked under
  the key (`DetectionsSound`); `KeyTells` shows what a default key tells apart. An adapter
  name has one place (`PlacesSound`), the default is there (`DefaultSound`), and what a
  search has passed does not support the contract or was not there throughout
  (`SearchSound`). Of a flag, the override is the last decision (`FFInv`).

* **Types.** Most of these invariants have the types of their module as a conjunct;
  `WorkflowsTypeCorrect` adds those of the others. Four of them are not inductive by
  themselves: that a snapshot of the mock server is typed, that spans are counted, that
  listeners of a lifecycle nest no deeper than the bound, and that a range read is one of
  the ranges asked for.

Every safety property of a passing run is a theorem, for every value of the constants.
Induction over data is there only as far as it can be led back to the least
counterexample among the natural numbers (`LeastNatural`, which takes a set instead of a
predicate), as was done for the searches of migrations and plugins.

Only model-checked: the properties the violating runs refute, which are false, and
liveness under fairness, which is out of the prover's reach (`EveryRequestAnswered`,
`EveryLoopEnds`, `EveryCallEnds`, `ProbesContinue`, `EventuallyDelivered`,
`OperationsEnd`, the fairness part of `ImplementsFairService`).

## 7. Where code and documentation differ

Four runs expect a violation; each shows what the code does against a sentence
of the repository.

* `queue_throttle_rate`: `src/utils/concurrencyQueue.ts:5` calls `throttleRate`
  "Requests per second when throttling is enabled"; one interval can admit
  more, because the rate is tested at the head of `processQueue` only.
* `tracker_cancel`: `src/client/stellarClient.ts:152` says that cancel ends the
  polling loop "without rejecting outstanding awaiters"; a cancelled loop throws
  and rejects the promise all of them share.
* `realtime_cleanup`: `src/client/stellarClient.ts:2122` says of `cleanup`
  "Cleanup all asynchronous resources owned by this client"; it relies on
  `disconnect`, which closes the current socket only, and a `connect` while a
  socket is open has replaced, not closed, the old one.
* `plugins_unregister`: `src/plugin/pluginManager.ts:97` says "Unregister a
  plugin. Uninstalls first if needed."; `unregister` deletes by id after an await,
  and so may delete another instance registered under that id meanwhile.

Met while modelling, described by the models and stated where they limit a
property, but given no run of their own:

* Requests that hang. A request of the queue that hangs holds its slot for ever, and
  as many as there are slots block the client. A polling loop whose `getTransaction`
  hangs (`stellarClient.ts:1518`) runs past its deadline and past cancel, although
  `:1707` promises a "TimeoutError if the transaction doesn't reach a final state within
  timeoutMs"; and so does `useVault` with its 60 seconds. An event emitter whose poll hangs
  polls no more, since `isPolling` stays up.
* Tracker. A second caller for a hash joins the loop there is (`:1487`, documented
  at `:1480`), whose deadline may come before the timeout it asked for.
* Plugins. `applyToClient` registers the middleware of a plugin whose
  `afterClientInit` has just failed (`pluginManager.ts:507-518`), so the plugin is in
  state Error and serves calls all the same. An `onRegister` that throws at once
  (`:80`) throws out of `register`, after the plugin was entered: it stays
  Registered, is neither recorded as failed nor installed by `autoInstall`, and can be
  installed afterwards. `setPluginError` says "don't throw" (`:525`), but an
  `onError` that throws at once throws out of it (`:527`): `uninstall` then rejects and
  leaves the plugin in state Error, and `applyToClient` stops before the rest.
  The middleware of an active plugin is registered twice with a client,
  by the constructor and by `applyToClient`. Uninstalling does not take it out
  again, though a comment of `uninstall` (`pluginManager.ts:224`) announces it;
  nor does disabling. `unregister` of a disabled plugin skips `onUninstall`. An
  `onRegister` that fails late moves an uninstalled plugin to the error state,
  though `lifecycle.ts:14` calls the former terminal. Dependencies that are missing fail
  `install` before the loop that would install them. The function `use` returns
  removes the first entry *of that name*.
* Batches. `types.ts` documents `stopOnFailure` as true by default; the executor
  stops only if it is given as `true`. `success` of a transaction means that its
  simulation succeeded, for the executor submits nothing, while `batch/types.ts:58` says
  "executed successfully". A transaction whose simulation fails has
  taken a sequence number.
* Migrations. A step that throws a falsy value ends a migration as completed.
  Rollbacks after one that is missing or failed meet a state of a later version.
* Event ranges. When a later page is too large, pages read before are dropped, and
  the second half ignores the cursor the caller gave.
* Sequence numbers. `submitTransactionsSequentially` (`stellarClient.ts:926`) waits
  for each transaction to be sent, not to succeed; the cache survives a switch of
  the environment.
* Environments. A listener that switches leaves clients told afterwards by the
  outer switch on the older environment; one refused by `rpc.Server` leaves the
  new passphrase with the old server.
* Lifecycle. A listener that throws keeps later ones from hearing of a transition
  that has been made, and makes the transition throw.
* Sessions. One closed by its holder counts against the capacity until the manager
  closes it too.
* Dispatcher. `generateId` (`eventDispatcher.ts:74`) uses an undeclared name, so
  subscribing without an id throws. A callback that unsubscribes itself leaves its
  count behind.
* ABI detection. A detection under way when `invalidate` is called, to force
  "re-detection on the next call" (`abiCompatAdapter.ts:98`), caches the version it
  began with. A cached version that is unregistered refuses every call.
* React. Overlapping executions of `useVault`, or a reset, can show "confirmed" for
  another transaction's hash; an `onSuccess` that throws shows an error for a
  confirmed transaction. A read of the wallet that ends last shows its account,
  however old; loading ends with any read; a watcher that fails to load wipes a
  read's error.
* Telemetry. `setEnabled(false)` leaves what was buffered unflushed, `updateConfig`
  flushes it, and gives a running timer no new interval. After `destroy` the
  service is still enabled and collects into a buffer no timer flushes. `metrics`
  is a field and a method, and the field hides the method.
* Plugin registry. Two plugins that depend on each other, or one on itself, can
  never be unregistered. Optional dependencies count for cycles and for removal.
* Replay. Results are matched by id, so in a session that was imported twice each
  interaction is judged by the last replay of its id; a recorded Map and a recorded
  Set are alike in JSON.
* Mock server. `snapshot` copies the map of transactions and shares the entries, so
  polls after it show through `restore`, of which `testing/MockNetwork.ts` says
  "Restore server state from a previously taken snapshot". `pollCounts` is cleared
  and never written.
* Fees. `validateFee` may recommend a fee above the maximum it was given. A fee
  bump, and a transaction without Soroban data, is prepared whatever
  `maxFeeLimit` says. A multiplier from 1e21 on passes the constructor and fails
  every preparation.

* Errors of calls. A 408 becomes a `ValidationError`, which is not retried, though
  `RETRYABLE_STATUS_CODES` (`errorClassification.ts:14`) lists it. `getNetwork` and
  `getLatestLedger`, and `getHealth` asked for metadata, make an `AxionveraRPCError`
  of whatever they meet, so the outer loop repeats a 401. A 503 is not retried when a
  transaction is simulated or sent, whose errors have lost it, nor a lost
  connection to the faucet, which has no status.
* Offline signing. However often a builder builds, the transactions have one
  sequence number. A package names the network and the sequence number of the
  builder that exports it, not those of the transaction. The field `wallet` of
  `StellarClient` is assigned nowhere, so `sendTransaction` never signs.
* Registries. A detection is cached under the contract and its ABI, so a descriptor
  declared differently is answered as before; a cache key of the caller stands
  for whatever was asked first under it. A descriptor stays under an id that its
  type no longer has. `findAdapter` may return an adapter that was unregistered
  while it was asked. Once the default adapter is unregistered there is none,
  whatever is still registered; one given to the constructor need not exist.
* Feature flags. `resetAll` forgets the configured policy and overrides.
  `defaultValue` is read by no flag of the four stabilities. `isOverridden` says
  that there is an override, where `features/types.ts:64` says that the value differs
  from the default.

## 8. What is not modelled, and why

* Message contents, parsing, filtering and formatting: no property depends on
  them. Latencies and weights, beyond what routing can tell apart.
* The dispatcher part of `SubscriptionService.subscribe`: its id generator uses
  an undeclared name, so the call throws before any state changes.
* Of the plugin manager: versions, validation of manifests, services. Of batches:
  the builder and checks of labels, fees and configuration. Of logging: the
  formatting logger. Of the mock server: accounts, simulations and events, which
  only its caller changes. Of the tracer and of telemetry: tags, anonymization and
  metrics.
* Of wallets: browser extensions and the search for required signers, a pure
  function. Of the registries: the registry of metadata, a table by name, discovery,
  a view of the descriptors, and the cache of reflection, which holds what an ABI
  parses to. Of call errors: delays, which `Retries` has, and middleware.
* Everything with status `not_modelled` in `PROJECT.json`, and of the `partly` ones
  what their notes name. Validation, transaction building, simulation and
  history are conversions or lookups of one turn; metrics, profiles
  and diagnostics are counters no decision reads; `codegen` and
  `create-axionvera-dapp` generate code. None has an order of events a model could
  get wrong. They, tests aside, are by far the larger part of the implementation's
  lines, which is why the map covers a small share of all lines and most of those
  that keep state across an `await`.
* `packages/core` repeats sources of `src/`, in part byte by byte, in an older
  state; its `transaction/transactionSigner.ts` does not compile. The parts of
  `axionvera-abi-versioning` other than ABI versioning are one more copy.

## 9. Plan

Done: the queue with its abstract specification; tracking; the real-time
connection; endpoints and their monitor; the event emitter; plugins and pipeline; all
six with proofs of their safety properties; the workflows, with proofs of all they
promise but that they end. What is left, most valuable first:

1. The tracker over the request queue, composed, so that a queue timeout becomes
   an error of a poll.
2. A sequence allocator as an abstract specification, and under which callers
   the cache implements it.
3. A signer over a switch of the environment, once `StellarClient` is given its
   wallet: `sendTransaction` reads the passphrase again after the wallet answered.
4. Plugin versions, the batch builder, the simulator and signers of `packages/core`.
