# bald: a TLA+ verification project

bald is a Go framework for micro-services: an application container
(`pkg/appkit`) that starts and stops servers, components and registrations, and
around it libraries for configuration, registries, brokers, caches, circuit
breakers and rate limiters. This directory holds TLA+ models of its core logic,
TLC configurations that check them, and TLAPS proofs.

How to run, from this directory:

    tlc -workers 2 -config MCAppServers.cfg MCAppLifecycle
    tlapm AppLifecycleProofs.tla

`PROJECT.json` lists runs, mutants, the source lines each definition stands for,
findings, hazards and theorems.

## 1. Inventory

| Component | Source | State | Operations | What makes it hard | What makes it correct |
|---|---|---|---|---|---|
| App lifecycle | `pkg/appkit/appkit.go`, `effect.go` | slot `running`, `done`, `runErr`, effect ledger, cancelable context, errgroup | `Run`, `stopAll`, `abortStartup`, `startupOutcome`, `UndoEffects`, `register`, `deregister` | five failure windows, cancellation or a signal at any step, servers that fail or ignore their context | stop order, truthful outcome, `Run` returns and leaves nothing behind |
| Component engine | `component.go`, `mount.go` | `started`, `disposed` | `startComponents`, `disposeComponents`, `MountComponent`, `UnmountComponent` | `Start` and `Dispose` run outside the lock, mounts race with the stop sequence | every live component is disposed exactly once, declared ones in reverse |
| Reconcilers | `reconcile.go` | ownership table `reconItems` | `runReconcilers`, `reconMount`, `reconUnmount` | run from `Run` and from the watch goroutine at once; unmount by name | the table agrees with what is mounted |
| Drift and hot reload | `drift.go`, `bootstrap.go` | plan, applied hashes, cleanup slots, logger cleanup | `applyPlanChange`, `hotReload`, `cleanupSlots.replace` | a reload against assembly and against the undoing of effects; nodes that fail to reconcile | every product is released once and never in use; Drift lists what is not as desired |
| Key watch | `keywatch.go` | `keyWatchers` | `armKeyWatchers`, `dispatchKeyWatch` | a change before the watchers are armed | each change of a watched key is seen once, in order |
| Configuration store | `bootstrap/config/config.go`, sources in `bconfig` | layer caches, merged tree, streams of the sources | `Load`, `MountEnv`, watch goroutines, `Close` | several watch goroutines, broken streams, changes during an outage, close from a callback | no change is lost unnoticed; snapshots are published in merge order; nothing after `Close` |
| Plan order | `plan_order.go`, `teardown.go`, `plan_compile.go` | none (pure) | conflict resolution, order of application, order of the teardown | phases, priorities, dependencies and teardown constraints together; any order of declaration | one canonical order; a node is released late only if something makes it wait |
| Providers and domains | `provider.go`, `domain.go` | built resources | build with rollback | one of several builds fails | what was built is cleaned up |
| etcd registry | `registry/etcd/registry.go` | lease handle, heartbeat cancel function | `Register`, `Deregister`, `heartBeat`, `Close` | late or failed RPCs, concurrent calls | the heartbeat keeps the entry; no entry outlives its deregistration |
| In-memory registry | `registry/inmemory/inmemory.go` | instances, watchers | `Register`, `Deregister`, `Watch` | pushes to slow watchers | a watcher sees the last state |
| RabbitMQ connection | `broker/rabbitmq/connection.go`, `subscriber.go` | connection, `connected`, signal channels, channels | `Connect`, `reconnect`, `Close`, `resubscribe`, `Publish` | reconnect loop against `Close`; fields written without the lock; channels that are closed to signal | a drop is noticed, subscribers resume, everything ends after a stop |
| Kafka subscriber | `broker/kafka/subscriber.go` | batch, offsets | batch processing | commit past a failure | at least once |
| Caches | `cache/loadable`, `cache/local` | entries, merged loads, striped locks | `Get`, `Set`, `Delete`, `SetNX` | a write-back against a newer write; `SetNX` is a check and a set | readers never see less than what was settled; one `SetNX` wins |
| Hystrix breaker | `circuitbreaker/hystrix/hystrix.go` | ring of buckets, Closed / Open / HalfOpen, trial flag | `Allow`, `Mark*`, `Execute`, `State`, `Close` | Marks of earlier calls, panics, window arithmetic | the window counts what it should; no lock-out |
| Other breakers | `circuitbreaker/vegas`, `sres`, `sentinel` | as above | as above | stale Marks | as above |
| Rate limiters | `ratelimit/bbr`, `tokenbucket` | window, inflight, tokens | `Allow`, `Done` | window arithmetic | bound on admitted calls |
| SSE streams | `transport/sse` | streams by id, subscribers, count, replay log | subscribe, publish, leave, remove | slow clients, a request's end against the stream's, concurrent creation | a client gets every event from where it asked up to the moment it is cut; requests end |

The remaining parts (other transports and brokers, consul / nacos / kubernetes
registries, health, middleware, stores, authentication, audit, generated
configuration types, logging, metrics, encoding, contrib adapters) are I/O,
generated code or adapters of third-party libraries; they are listed in
`PROJECT.json` as not modelled.

Interactions. `Run` calls `config.Load`, which starts the watch goroutine; its
callback runs the reconcilers, which call `MountComponent` and
`UnmountComponent`; request handlers may call them too. Before the reconcilers
the same callback dispatches to the key watchers. `Run` starts server
goroutines in an errgroup whose context it and they share, and talks to the
registrar. The breaker is called by request middleware from any goroutine.

## 2. Modules

| Module | Role |
|---|---|
| `Components` | the component engine: one action per lock region and per `Start` or `Dispose` outside the lock; `CompIInv` |
| `ComponentContract` | abstract specification: a component is brought up once and down once, adopted only by an open App |
| `AppLifecycle` | extends `Components` with `Run`, the ledger, servers, contexts, registry entry and watch lifetime; properties; `IInv` |
| `MCAppLifecycle` | instances for TLC |
| `ComponentsProofs`, `AppLifecycleProofs` | proofs |
| `Hystrix`, `MCHystrix` | the breaker and its instance |
| `Reconcile`, `MCReconcile` | extends `Components` with the ownership table and the passes of `Run` and of the config watch; its instance |
| `ReconcileProofs` | its proofs, on top of those of `Components` |
| `ConfigStore`, `MCConfigStore` | the configuration store, its sources, its watch goroutines and a key watcher |
| `ConfigStoreProofs` | its proofs |
| `HotReload`, `MCHotReload` | assembly of what the configuration describes, its hot reload, the cleanup slots and what Drift lists |
| `EtcdRegistry`, `MCEtcdRegistry` | the registrar of one instance, its heartbeats and the entry in etcd |
| `EtcdRegistryProofs` | its proofs |
| `RabbitConnection`, `MCRabbitConnection` | the connection, its reconnect loop, a subscriber and a publisher |
| `PlanOrder`, `MCPlanOrder` | conflicts, order of application and order of the teardown of the planned nodes |
| `ProviderPlanProofs` | proofs about the providers' nodes: `PlanOrder` and `HotReload` |
| `SseStream`, `MCSseStream` | the streams of one id, their clients and the stream manager |
| `MessagingProofs` | proofs about messaging: `RabbitConnection` and `SseStream` |
| `LoadableCache`, `MCLoadableCache` | the read-through cache over the local backend, for one key |
| `CallGuardProofs` | proofs about what guards a call: the breaker and the cache |

### Components

`comp[c]` is the status of an instance; `started`, `disposed` are the fields of
`App`; `disposeQ` is the local snapshot of `disposeComponents`, `nextComp` the
loop index of `startComponents`. A mounter `m` is a goroutine that calls
`MountComponent` or `UnmountComponent`: `at[m]` says before which of its steps
it stands, `arg[m]` which instance it holds. Lock regions are single actions
(`MountCommit`, `MountRefuse`, `UnmountTake`, `BeginDispose`); the `running`
check, `Start`, `Dispose` and each iteration of the disposal loop are actions
of their own, so every interleaving of them occurs. In `StartComponent` the
`Start` call and the append are one step: no mounter can see the difference,
since before the append nobody but `Run` knows the component, and the stop
sequence is run by `Run` itself.

Simplifications: a declared instance is declared once and mounted instances
are fresh; names need not be unique (unmounting takes the newest of a name).

### AppLifecycle

`pc` is the program point of the Run goroutine; every branch of `Run` with its
`cancel`, `UndoEffects`, `deregister`, `stopAll`, `abortStartup` and
`startupOutcome` is an action or a chain of actions in the order of the code.
`path` records why effects are undone, because three exits share that loop.
A step's error is `"error"` or `"canceled"` (`errors.Is(err,
context.Canceled)`), the only distinction the code makes. `fault` is a history
variable: something failed for a reason of its own rather than by cancellation.

A server is `off`, `launched` (its goroutine runs, it has not listened yet),
`serving`, or has returned an outcome. `CtxServer`, `FixedServer` and
`StrictServer` say which servers watch their context, have a fixed endpoint, or
return an error from a `Start` that follows `Stop` (grpc-go). `inflight` and
`stopTimedOut` model requests and a `Stop` whose timeout expires.

Not modelled here: a nil registrar (its calls are no-ops); a second `Run` after
a completed one, which the comments call misuse; two concurrent callers of
`Run`; a panic in a `beforeStart` hook, which ends the process. A component's
`Start` and `Dispose` are assumed to return, since their contexts are bounded.

### Hystrix

Every method holds one mutex, so each is an action. Time is counted in ticks and
advances between any two calls. `call[c]` remembers how caller `c` was admitted.
The error rate comparison, in floats in the code, is a comparison of products.
`truth` is the history the ring is compared with: the samples recorded in each
absolute bucket length, cleared by a recovery as the ring is. `Sum` is the loop over
the buckets. A bucket is at
least one tick long (the code would divide by zero below one nanosecond).
`now` is read once by a Mark; the second `time.Now()` in `evaluateLocked`,
under the same lock, is taken to be the same tick.

### Reconcile

`items` is `reconItems`; `pass[m]` is the pass goroutine `m` is in: its snapshot
of the settings, the index of the reconcile function that runs, what that
function has still to mount and to unmount, and the entry it holds. The two
goroutines that run passes are mounters of `Components`, so a mount is the same
chain of steps there, with the entry in the table made by one more step after
the append to `started` (`Records`), and the removal of the entry before the
unmount (`Disowns`), as in the code. `clean` is a history variable: the last
pass that ended logged no error.

A reconcile function is the user's; the one modelled is `convergeFn` of
`reconcile_test.go`: it reads what it has mounted once, mounts what is missing,
then unmounts what is not wanted, and returns at the first error. The order
within each group is left open. `Change` is the merge and the publication, which
one mutex (`notifyMu`) keeps, together with the callback, to one at a time;
`WatchPass` is the moment the callback reaches `runReconcilers` and takes its
snapshot. The watch is alive from `config.Load` on, so both may happen at any time:
before the store is assigned (`stored`), when the snapshot is empty and the pass
takes every name for unwanted (`NoSettings`), before Run's first pass, during it or
after it. `overlapped` is a history variable: two passes were under way at once,
which nothing in the code excludes.

Assumptions: names are distinct between reconcilers and from declared
components; `ErrNotRunning` cannot happen to these two goroutines, since `running`
is given back only after both are done. A new instance of a name is any one that was
never started (`NewInstance`): its factory makes one for each mount.

### ConfigStore

`doc[l]` is what the source of layer `l` holds, as the value it gives one watched
key. A notification goes from `events` (in the source's library) through `held`
(the source's forwarding goroutine) and `chan` (the channel of capacity one that
`WatchValue` returns) to the watch goroutine `w[l]`. `Rereads` and `Greets` say
how a source behaves: the file source and the etcd prefix source read the
content again when notified, the single-key etcd source forwards the value in
the notification; the prefix source also sends its content when a watch begins.
There is at least one layer, and no two share a name (`ConfigAssumption`).
`Feed` has several members for a `FallbackReader`, which merges the watches of
its readers. `at` is the program point of `loadConfig`: `Load` layer by layer,
the merge, `setupWatch` layer by layer, the assignment of `cfg.store`,
`armKeyWatchers`, and later `Close`. `notify` is the holder of `notifyMu`; the
merge, the user's callback and the dispatch to key watchers are three steps
under it. `gap` is a history variable: why a change of a layer may never be
seen.

Simplifications: environment and flags never change and are left out;
`MountEnv`, `StrictContract` and deep merging of trees are not modelled (one key
is enough to tell which layer wins); a callback does not call the store.

### HotReload

A configuration is abstracted to the desired hash of each node. `at` says where the
two goroutines stand: `"run"` goes through `syncBootstrap` (`sync`, `install`,
`rebuild`, `flush`, `store`, `logged`), `runProviderNodes` with `storeProduct`
(`build`, `put`, `write`, `mark`), `serve`, the effects (`undo`) and
`closeStore`; `"watch"` through `hotReload` and `applyPlanChange`, with the same
names for the same code. `rebuildLogger` is one set of actions for both. Each
access to something both share (contract, plan, `applied`, resource, slot,
`curCleanup`) is an action of its own, since no lock spans two of them. A `product`
is numbered in the order of the builds and remembers the hash it was built from,
which is what lets `DriftTruthful` compare what is in use with what is recorded.
`early` and `late` are history variables: a reload overlapped with the
assembly, or with the undoing of effects.

`todo[p]` are the nodes a process has still to build, visit or undo. The order (stage
B of the plan, the sorted keys of the diff, the teardown) is left open: every
order the code may take is among the behaviours, and the properties hold in each.
`slot[n]` is the set of products the cleanup of a slot releases (`fill` chains the
new cleanup to the one it finds, `replace` does not), `hold[p]` the ones a process
has read from it.

Simplifications: the providers are those whose node is reconciled (in the code
the auditor and the logger; pools of connections ask for a restart); all of
them are in the configuration the App is assembled with, as a node that appears later has no
reconciler; components and domain nodes are left out; what happens between the
assembly and the undoing is module `AppLifecycle`.

### EtcdRegistry

etcd holds one entry, attached to a lease. A `Put` on its way is in `puts`; when
it takes effect while somebody waits for it, it is in `landed` until it is
answered; the client may give up first, and an abandoned `Put` may still land,
at any time. `hb[h]` is the `h`-th heartbeat goroutine: `stream` (calls
`KeepAlive`), `steady` (consumes answers), `try` and `putting` (registers again,
at most `MaxRetry` times), `first` (waits for the first answer of the new
stream). `hbCancel` is the heartbeat the field cancels, `handle` says that
`r.lease` is set. `Register` and `Deregister` take the cancel function under the lock
and call it after: between the two the heartbeat is `Taken`. Neither asks whether the
registrar was closed, and neither does the model. A lease nobody renews expires in the end (`RunsOut`), one that
is renewed may be lost by a fault (`CutOff`). `overlap`, `deleted`, `gone` and
`late` are history variables.

Simplifications: one instance; delays of the retreat policy are untimed; closing
an old lease handle stops only its keep-alives, which the heartbeat does not
use (it calls `client.KeepAlive`); the watcher and `GetService` are left out.

### RabbitConnection

Connections are numbered in the order of the dials; `conn` is `r.Connection`,
written without the lock. The channels that are closed to be waited for are
numbered too, so a goroutine inside a `select` keeps waiting for the one it
found there although the field holds another: `close` and `closeDone` for
`r.close`, `wait` and `waitDone` for `r.waitConnection`. `user` is where `Start` of the
transport server stands, and after it the `Stop` that found it done. The App runs `Start`
in a goroutine of its own, so its `Stop` may come at any time; one that finds `started` not
set returns without an effect (`StopMisses`, recorded in `missed`). `loop[l]` is the goroutine of
`reconnect` the `l`-th connect started, `sub` that of `resubscribe`, `pub` a
publisher. The subscriber reads `connected` (`SubConsumes`) and uses `r.Connection`
(`SubOpens`) in two steps: the lock it holds there is the broker's, not the one of the
connection, and a loop may see a drop and fail a dial in between. `crashed` names the panic
that ended the process. A consumer channel
is `cut` when `Unsubscribe` closed it; `Unsubscribe` that comes between
`Consume` and the store of the channel finds none to close.

Simplifications: one subscriber, made by the first `Start`; declaring exchanges
and queues fails only with the connection; acknowledgements, confirms and
handlers are left out. A data race on `r.Connection` is taken as a read of the
last value written.

### SseStream

Streams are numbered in the order they are created, so two streams of one id can
be told apart; `current` is the one in the manager. An iteration of the event
loop is one action (it never blocks): `Dispatch`, `Register`, `Deregister`,
`LoopQuits`. `Publish` and the loop's taking of the event are merged, in the
order of the event channel; a stream closed in between still may dispatch.
`req[r]` is a request: `at` is where `ServeHTTP` stands, `closer` the goroutine
that waits for the end of the request, `queue` the connection channel, `read`
what was written to the client. `subs[s]` is the set of subscribers (their order
decides nothing a client can see). `Serve` is the write to the client, which may block for
ever; every other step of `ServeHTTP` is in `AnswerStep`. `Since` is the loop over the log that selects what is
replayed. `sent[s]` is a history variable.

Simplifications: every event has content; `TTL` is zero; authorization,
preflight, formatting and user callbacks are left out; `Notify` and
`TryPublish` are publications like any other; one id, so `Clean` is
`RemoveStream`; after a client has left, the draining of its channel is not
observed.

### PlanOrder

`decl` is what the providers planned, in the order they were declared, `nodes` what
`resolveNodeConflicts` leaves, `group` the sorted nodes of the phase `topoPhase` is
in, `waits` the `indeg` of the loop that runs, `ordered` its result, `applyNodes` the
logger, then stage B, and `released` the result of
`teardownOrder`. `stage` says how far `newProviderPlan` is; the three errors are three
ends. `Kept` is the loop that filters a list, `Sorted` the one arrangement of a phase's
nodes that `(Priority, Key)` allows. An iteration of a loop is one step. Keys are
numbers, in the lexical order the code compares them by; `override` with and without a
`Reason` are two flags.

`OrderCanonical` compares the result with a definition that knows neither loop
nor declaration order: the least of all permutations that respect phases and
dependencies. Not modelled: how a provider plans its node (`normalizeNode` and the
checks before it), the node lists of the full plan, which the same functions
order, and the diagnostics.

### LoadableCache

`cached` is the entry of the backend, `flight` what the load of `singleflight` has
read so far, `nxLock` the stripe of `nxLocks` the key falls on, `caller[c].at` where a
caller stands: a reader between its miss and its write-back (`missed`, `leads`,
`waits`, `loaded`), a writer between its two steps (`wrote`), a taker inside
`SetNX` (`absent`), whose set may fail (`NXFails`). A value is the version of the data source it stems from. A
hit returns the entry and changes nothing, so it is no action: what it returns is
what the properties say of `cached`. Everybody merged into a load writes back on
its own, as in the code (the write-back follows `group.Do`, it is not inside it).
`floor`, `settled`, `crossed` and `wins` are history variables.

The data source and the writer who changes it and then sets or deletes the entry
are the application's; the module takes the usual order, source first. Simplifications: one key (a stripe shared with another key only
makes a taker wait longer); `GetMulti` and `SetMulti`, the slice and map helpers
and the Redis backend are left out; expiry, eviction and `Close` are one action,
`Expire`.

## 3. Runs

| Run | Instance | Shows |
|---|---|---|
| `components` | 2 declared components, 1 mountable under the name of the second, 2 mounters, 1 effect of assembly, 2 hooks that may each add an effect, 1 failed load, no server | `SingleOwner`, `EffectsReversed`, refinement of `ComponentContract` (`ContractKept`, with its liveness), `StopsInReverse` |
| `servers` | 2 servers (one stops only by `Stop` and errs when it is stopped before it listens, as grpc-go does; one on a fixed port watches its context), 1 component, 1 effect, 1 hook that may add an effect, 1 failed load | `IInv` (which contains `TypeOK`), `OrderlyStop`, `OutcomeTruthful`, `CancelIsClean`, `NothingRunsAfterReturn`, `RunReturns` |
| `hystrix` | 2 callers, window of 2 buckets of 2 ticks, sleep 2, volume 2, rate 1/2, 8 ticks, 5 calls | `NoSampleLost`, `NoLockout`, `TripsOnFreshSamples`, `TrialEnds` |
| `reconcile` | 2 reconcilers, of 2 names and of 1, 3 instances of each name, 3 configurations, 2 changes at any time | `TableTruthful`, `Settled`, `StopReturns` |
| `config` | remote layer that carries values, below a file that is read again; 2 changes, 2 faults | `NoSilentLoss`, `CallbacksAgree`, `QuietAfterClose`, `Converges` |
| `etcd` | 2 callers, 2 calls, 3 leases, 2 retries, 2 faults, `Close` at any time | `EntryKept`, `OneHeartbeat`, `DeregisterSticks`, `CloseStopsAll` |
| `rabbit` | 1 start, a stop at any time, 3 faults | `PanicsExplained`, `DropNoticed`, `SubscriberResumes`, `EndsAfterStop` |
| `sse` | 2 requests, 3 events, connection of 1, 1 removal, 3 settings | `Delivery`, `CountExact`, `RequestsEnd` |
| `reload` | the auditor and the logger, 4 configurations, 2 changes, 1 failed build | `CleanedOnce`, `NothingReleasedInUse`, `DriftTellsAll`, `UndoEnds` |
| `loadable` | 3 callers (symmetric), 2 changes of the source, 2 calls of `SetNX`, 1 fault | `StaleExplained`, `OneWinner` |
| `plan` | 62,480 declarations of 3 or 4 nodes, in families | `OrderCanonical`, `TeardownExplained` |
| `leak` | as `components`, without effects and failed loads | counterexample, section 5 |

`TypeOK` of a module is checked by its run: in `servers` as part of
`IInv`, in `hystrix`, `reconcile`, `config`, `etcd`, `rabbit`, `sse`, `reload`,
`loadable` and `plan` as the first conjunct of `NoSampleLost`, `TableTruthful`,
`CallbacksAgree`, `EntryKept`, `PanicsExplained`, `CountExact`, `CleanedOnce`,
`StaleExplained` and `OrderCanonical`.

Why the bounds suffice. Ownership of a component involves at most the stop
sequence and two goroutines; two declared components are what an order needs;
the third shares a name so that unmounting by name can take the wrong one. Two
servers are what "first error of the group" and "one stops, the other does not"
need. Of two `beforeStart` hooks the first may add an effect before the second fails,
which is what `EffectsReversed` is about; a load that fails comes before both. The split
of components and servers over two runs keeps each below 300,000 states, and
the properties of one do not read the state of the other
except for `disposed` and the ledger, which both have (`IInv` in `servers` contains
what `EffectsReversed` rests on). `MaxLoadFailures = 1` reaches one
retry. In `hystrix` two laps of the ring (8 ticks) let a slot be reused, a
bucket of two ticks lets a sample fall into its middle, and 5 calls suffice for
trip, trial, recovery and a second trip. In `reconcile` two changes let a name
come, go and come back, or a failed mount be repeated; three names tell a
failing function from the one after it. There are three passes, and each mounts a
name at most once, so three instances of each suffice.

In `config` two layers are what priority and `notifyMu` need, two changes let one
fall into an outage and one after it, two faults let a stream break and its
reload fail. In `etcd` an overlap needs two callers; two calls are Register
after Register, or Deregister after Register; the third lease is the one a
heartbeat takes when the two of the calls are lost; two faults let both attempts
of a heartbeat fail. In `rabbit` three faults are a drop, a failed redial and a
second drop; the first two in between its two steps are what a consumer needs to meet
a nil connection. In `sse` a connection of one with two retained events overflows at
replay, with one retained event leaves a gap behind; three events let a client
read, be cut and come back with the id of what it read; the third stream number
lets a stream be removed and made again. In `reload` one node that is
reconciled and the logger are the two kinds there are; two changes let a node
fail and be left alone, go and come back, or be replaced twice; the four
configurations change one node, both, or take the node away. In `loadable` three
callers are a leader, a reader merged into its load and a writer or taker beside
them; two changes let a load carry a version that is already behind, two takers
compete for the key; one fault degrades a Get or loses a write-back or a write.
In `plan` three nodes, one with an unknown key to name, vary phase, priority and
dependencies; four nodes in one phase have every graph with at most two edges
out of a node, diamonds and cycles included; teardown constraints come alone and
with dependencies; duplicate keys come in threes.
`CHECK_DEADLOCK FALSE` stands in the
`reload` run because a returned App does nothing more, in the
`rabbit` run because the process may panic or stop for good, in the `etcd` run
because nobody has to call again, and in the `sse` run because clients, events
and removals run out.

`OrderlyStop` is two named parts, each with a mutant. Each property of a passing run has a mutant in the module it is about: a form of
one action with a plausible bug, standing just before the action it replaces.

## 4. Fairness

`AppLifecycle`: weak fairness of the Run goroutine, of each server goroutine and
of each mounter that is inside a call. The code justifies it: hooks and
component calls get bounded contexts (`runHook`), `Stop` returns within
`stopTimeout`, a `Start` returns after `Stop` by the contract of
`transport.Server`, and the Go scheduler is fair. Nothing makes the caller run,
cancel or send a signal, no request has to end, and no server has to crash.
In the main wait `Run` moves on only when its context is done or a signal came.

`Hystrix`: a call that was let through is marked in the end, weakly fair per
caller: the contract of `circuitbreaker.CircuitBreaker`. A panic competes with
the Mark; `TrialEnds` names that exception.

`Reconcile`: weak fairness of the end of the load, of the first pass, of every pass and of the stop
sequence once begun, for the same reasons; no change and no stop is forced.

`ConfigStore`: weak fairness of `Load`, of each source's forwarding and of each
watch goroutine (its back-off is a bounded delay). Faults are bounded, so a
broken stream is rebuilt in the end, as it is when the outage is over. No source
has to change and nobody has to close the store.

`HotReload`: weak fairness of the goroutine of `Run` and of a reload once begun
(builds and cleanups have bounded contexts or time limits of their own). Nothing
makes the App stop or the configuration change.

`EtcdRegistry`: calls and heartbeats run on (every attempt has a limit of three
seconds), a request on its way lands or is lost, an unrenewed lease runs out.
`Close` and the calls are never forced.

`RabbitConnection`: the loop, the subscriber and a begun `Start` or `Stop` run
on; a dial succeeds in the end because faults are bounded. Nobody has to call `Stop`,
and it may come when it has no effect. The `select` of the
subscriber is not fair between two ready channels; no property needs it.

`SseStream`: each ready case of the event loop's `select` is taken in the end (Go
chooses at random among those that are ready), each handler and each closing
goroutine runs on. A client need not leave, and need not read: the write to it
(`Serve`) is not fair. The `http.Server` of `transport/sse/server.go` sets no
`WriteTimeout`, so a handler that writes to a client which has stopped reading, but
is still connected, may block for ever.

`ComponentContract`: a closed App brings every live component down.

## 5. What the runs found

The run `leak` ends in a counterexample; `PROJECT.json` has the lines involved.
`MountComponent` succeeds from the first line of `Run` on (`running` is claimed
there, and the config watch is alive before `Resolve`), but a failing `Resolve` or
`beforeStart` hook returns without `stopAll`: a component mounted by then is never
disposed.

Known deviations without a run of their own. The modules state the property that
fails; a configuration with that property alone, on the instance named, shows
the counterexample.

| Property | Module, instance | What the code does |
|---|---|---|
| `ErrIsLastOutcome` | `AppLifecycle`, as `servers` with `FixedServer = {}` | `runErr` is never cleared: after a failed load and a successful retry `Err()` reports the failed load |
| `ServerFailureReported` | `AppLifecycle`, as `servers` with `FixedServer = {}`, `MaxLoadFailures = 0` | `errgroup` keeps the first error: a server that returns `ctx.Err()` first hides the real failure of another |
| `CancelIsClean`, without its exception | `AppLifecycle`, as `servers` | cancelled during start-up, a gRPC server may reach `Serve` after `Stop`; its `ErrServerStopped` turns a normal stop into an error of `Run` |
| `NoSampleStale` | `Hystrix`, as `hystrix` | a gap just short of the window can cross as many boundaries as there are buckets; the count modulo the ring is zero and a full lap of stale samples stays |
| `TrialInFlight` | `Hystrix`, as `hystrix` | `Execute` marks without `defer`; a panic during a trial locks the breaker |
| `TrialsAlone` | `Hystrix`, as `hystrix` | the Mark of an earlier call decides a half-open breaker, so two trials can be in flight |
| `NoSilentLoss` | `ConfigStore`, one re-read layer with `Feed = {first, second}`, `MaxFaults = 0` | two readers of a `FallbackReader` forward independently: an older document can overtake a newer one and stays |
| `TableTruthful`, without `~overlapped` | `Reconcile`, as `reconcile` | the first pass of `Run` and a pass of the config watch overlap and both mount the same name; `reconMount` has no check for it, although its comment calls it idempotent ("a name mounted already returns an error") |
| `Settled`, without `~overlapped` | `Reconcile`, as `reconcile` | of two passes that overlap, the one with the older snapshot (or with the empty one taken before the store was assigned) may be the last to end, without an error; the wrong set stays up until the next change |
| `NothingLeaks` | `HotReload`, as `reload` | the effects of the cleanup slots are undone before `closeStore` ends the watch; a reload in between puts its cleanup into a slot that was honoured already, and nobody runs it |
| `OneStream` | `SseStream`, as `sse` | `StreamManager.Add` asks and stores in two lock regions, and `CreateStream` returns the stream it made in any case; two first subscribers of an id get a stream each, and one of the two gets no events |
| `DependenciesApplied` | `PlanOrder`, as `plan` | the logger is taken out of the order and applied first, whatever it depends on |
| `NextChangeMakesGood` | `HotReload`, as `reload` | the plan is replaced before the nodes are visited, and the next diff compares plans; a node that failed is left alone by a next change that does not touch it, although the comment says that change makes it good |
| `LockHolds` | `LoadableCache`, as `loadable` | `Set` and the write-back of a load do not take the stripe: one that began before a `SetNX` replaces the value its winner wrote |
| `DriftTruthful` | `HotReload`, as `reload` with `MaxFaults = 0` | a change during assembly: `Run` puts its product over the one of the reload and both record the hash of the new plan, so Drift lists nothing |
| `SubscriberEnds` | `RabbitConnection`, as `rabbit` with `MaxFaults = 2` | the loop looks at `r.close` only between two dials; after `Stop` a redial still installs a connection, and a subscriber just past its check of `closed` consumes from it for ever |
| `EarlyStopEnds` | `RabbitConnection`, as `rabbit` | a `Stop` that comes while `Start` is still connecting finds `started` not set and returns; `Start` then succeeds, and its loop and its subscriber run on for good |
| `PanicsExplained`, with `crashed # "nil in Consume"` | `RabbitConnection`, as `rabbit` | the subscriber finds `connected` set, a drop and a failed redial leave `r.Connection` nil, and `Consume` dereferences it: the lock of the broker does not hold off the loop |
| `OutageMadeGood` | `ConfigStore`, one layer, `MaxFaults = 2` | the reload after a reconnect is tried once; when it fails the change lost in the outage stays lost until the next one |
| `RollbackKeepsOld` | `EtcdRegistry`, as `etcd` | the rollback of a failed `Register` restores the lease field only: the old heartbeat was cancelled, and nobody renews the old entry |
| `PanicsExplained`, without `~Reused` | `RabbitConnection`, `MaxStarts = 2` | a `Start` after a `Stop` closes `waitConnection` again, which was closed and never replaced: a panic |

More the models show, without a property: `Publish` during an outage, after a
failed redial, dereferences a nil connection (`PanicsExplained` says when it
cannot); a dial whose channel fails leaks its connection; `connected` may stay
set after `Close`; an SSE stream's count is -1 after a late subscriber
(`CountExact` says when it is exact); the removal of an empty stream goes by id
and may close a newer stream with subscribers; replay sends the event named by
`Last-Event-ID` again (`Since` uses `>=`); the request of a client that has stopped
reading is held for ever, and the SSE server's `Start` then waits for it in
`Shutdown` without a limit.

The passing runs show how far these reach: `NoLockout` says a panic is the only
way to lose the trial's slot, `NoSampleLost` that the window errs only by
keeping samples, `CancelIsClean` that nothing but a server stopped before it listens
turns a cancellation into an error, `OutcomeTruthful` that a failed server is hidden
only behind a `Start` that returned a cancellation first, `TableTruthful` and `Settled`
that only a pass of the watch which overlaps with the first one upsets the table, `NoSilentLoss` that three reasons only make a change of the
configuration unseen, `EntryKept` that only a late `Put` or overlapping calls
part an entry from the heartbeat that renews it, `CleanedOnce` that only a reload
during assembly or stop upsets the cleanup slots, `DriftTellsAll` that Drift is
truthful after every reload once the assembly is over, `StaleExplained` that only
a change of the source which crosses a reader's miss or another writer, or a failed
write, leaves the cache behind its source.

## 6. Proofs

`ComponentsProofs` proves that `CompIInv` (types, `SingleOwner`,
`MountersConsistent`) is inductive, with one lemma per action; the lemmas
`AppendFacts`, `RemoveAtFacts` and `FrontFacts` say what the list operations do
to the set of entries and to the absence of duplicates. `SingleOwner` alone is
not inductive: it needs that an instance being started is new, is in no other
hands and is not declared (`MountersConsistent`), or a commit could append an
entry that is already there.

`AppLifecycleProofs` proves `Spec => []IInv` for all values of the constants,
from `CompAssumption` and `LifecycleAssumption` only. `IInv` adds to `CompIInv`
three parts, each preserved on its own: `StopOrder` (the disposal walk exists
only at `dispose`; `Stop` has been asked only from `stopping` on; when
components are disposed every `Stop` has returned), `GroupLifetime` (no
server goroutine before `Launch` or after `g.Wait`; a real group error decides
the result) and `Ending` (which deferred calls have run). Two more parts carry
the ledger and the blame: `EffectsFlow` says that what was put in the ledger is
what is undone, being undone or still in it, the same effects and as many, and in
which order while no load has failed; `Blame` says where the first error of the
group, the error of a step and `runErr` can come from when nothing failed of its
own accord. From `IInv` follow:

| Theorem | Statement |
|---|---|
| `Invariance` | `Spec => []IInv` |
| `TypeCorrect` | `Spec => []TypeOK` |
| `OneOwner` | `Spec => []SingleOwner` |
| `StopsOrderly` | `Spec => []OrderlyStop` (from the lemmas `DeregisteredFirst`, `RequestsFirst`) |
| `AllJoined` | `Spec => []NothingRunsAfterReturn` |
| `Truthful` | `Spec => []OutcomeTruthful` |
| `EffectsUndone` | `Spec => []EffectsReversed` |
| `CleanCancellation` | `Spec => []CancelIsClean` |
| `DisposedInReverse` | `Spec => StopsInReverse` |
| `ContractSafe` | `Spec => Contract!Init /\ [][Contract!Next]_(Contract!vars)` |

`Truthful` and `CleanCancellation` hold for any servers. What they except stands in the
formula: a server that failed behind a `Start` which had returned a cancellation, and a
server that was stopped before it listened (section 5). `DisposedInReverse` has an
invariant of its own, `InOrder`: the declared components stand in the stop sequence
in the order of their declaration, mounted ones anywhere between them, and the
disposal walks a prefix of it. `ContractSafe` is the safety half of `ContractKept`:
every step of the App maps to a step of `ComponentContract` or to a stutter. Its other
half, that a closed App brings each live component down, is TLC's.

`ReconcileProofs` proves both invariants of the reconcilers for any reconcilers,
names, instances, settings and changes:

| Theorem | Statement |
|---|---|
| `TheTableTellsTheTruth` | `NamesApart => (Spec => []TableTruthful)` |
| `PassesSettle` | `NamesApart => (Spec => []Settled)` |

The hypothesis restricts the application. Without it the unmount by name may take
the component of another reconciler, and the table of that one lists what is gone.
(Declared components are outside the module: section 2.) When the configuration changes
is not restricted. `IInv` is `Typed`, which holds in every state, and `Alone`, which holds
until two passes have overlapped (`overlapped`, a part of both properties): a pass works
for the settings of the moment unless a change is on its way to a pass of its own or
Run's first pass is still to come (`UpToDate`), which is why a pass with the empty
snapshot does no lasting harm. `Alone` is built around one pass at a time (`OnePass`): where it stands and what it holds
(`Standing`), that its table is what is wanted, less what is still to be mounted, plus
what is still to be unmounted (`Diff`), that functions already run left what they were
asked for (`Reached`), and that, until the stop, the stop sequence is exactly what the
tables list and what the pass has in hand (`Mounted`). `TableTruthful` needs
`Mounted`, an equivalence, since its own inclusion does not say what an unmount by
name will find.

The first part of `ProviderPlanProofs` proves the three invariants of the hot reload, from
`ReloadAssumption` only: any providers, hashes, configurations, changes and failed
builds, in any order of the nodes.

- `TakeTurns` and `OneReload` say who may move: unless `early`, the watch is idle
  during the assembly, and a reload has the settings of the moment in `snap`, in the
  contract once it has landed, and in the plan once it has diffed.
- `Ledger` strengthens `CleanedOnce` to an equation. A product is unreleased exactly
  if it is in the slot of its node, not yet in one (`OnTheWay`), or taken out of one
  and not yet released (`Displaced`). That a product is released at most once is not
  inductive without it: nothing else says that what a slot holds was not released.
- `InUse` says that what is handed out is in its slot or on its way there.
- `Recorded` says that the hash recorded is that of the product in use, except for
  the node just put in place and for the logger until the reload ends (`Afresh`).
  `DriftTellsAll` speaks of the time between reloads only.

| Theorem | Statement |
|---|---|
| `ReleasedExactlyOnce` | `Spec => []CleanedOnce` |
| `InUseStaysAlive` | `Spec => []NothingReleasedInUse` |
| `DriftIsComplete` | `Spec => []DriftTellsAll` |

Its second part proves both invariants of the plan, from `PlanAssumption` only: any
finite set of keys, any declarations (of any length, with any priorities,
dependencies and teardown constraints) that contain the logger's node once.

- `Resolved` says what the conflicts leave: a node for each key, overriding ones kept.
- `OrderCanonical` compares the result with all orders there are. What carries it
  through the picks is `Foremost`: wherever an order agrees with the picks so far, its
  next node is the next pick or one that `(Priority, Key)` puts after it. For a pick
  to keep it, the first node of an order that is not picked yet must be ready
  (`FirstLeftIsReady`), which needs `indeg` to count exactly what a node still lacks
  (`Picking`). The same lemma shows that a phase without a ready node has no order.
- `TeardownExplained` speaks of what waits *through others*. `Waiting(k)` is the least
  set that has what `k` names and what its own members name (`WaitingClosed`), so it is
  transitive. A node that is passed over waits for something that was applied no later
  than the one released, or, following what is not released yet, for a node that waits
  for itself: among finitely many keys each of which waits for another of them, one
  waits for itself (`Knot`, by a least `Waiting`). `Backed` keeps that alternative in
  the invariant; a complete teardown rules it out, as everything released was
  released after all that it waits for (`WaitedEarlier`). `Knot` also gives the reason
  of a refused teardown.

| Theorem | Statement |
|---|---|
| `PlanIsCanonical` | `PlanSpec => []OrderCanonical` |
| `TeardownIsExplained` | `PlanSpec => []TeardownExplained` |

`ConfigStoreProofs` proves the three safety properties of the configuration store,
from `ConfigAssumption` only: any list of layers, any sources, any number of changes,
broken streams and failed reads.

- `StoreInv`: which goroutines exist at each point of `Load`, `setupWatch` and `Close`
  (`Goroutines`), and what the holder of `notifyMu` carries (`Announced`): the merged
  tree is the merge of the caches, the snapshot in the callback is that tree, and who
  was told something last was told the current one unless a callback is under way.
  What the merge is rests on the layers being a sequence without duplicates, of which
  one is the highest that has a value.
- `PipeInv`: `NoSilentLoss` speaks of a source with nothing on its way, and is not
  inductive. `UpToDate` says of every moment that the newest document under way (with the
  forwarding goroutine, in the channel, in the hands of the watch goroutine) is the one
  the source holds, and that the cache has it when none is under way.

| Theorem | Statement |
|---|---|
| `AllAgree` | `Spec => []CallbacksAgree` |
| `ClosedIsQuiet` | `Spec => QuietAfterClose` |
| `OneFeedLosesNothing` | `Feed = {only} => (Spec => []NoSilentLoss)` |

The hypothesis of the last one is what every source but the `FallbackReader`
satisfies. With two feeds `NoSilentLoss` is false (section 5): the merged watches
may deliver in another order than the changes were made.

The first part of `MessagingProofs` proves both invariants of the RabbitMQ connection. `Shape` (the types,
with bounds that grow with the dials) holds for any constants; `Once` describes a
connection that was started once. `BeforeFirst` says there is one loop, from the
return of the first `Start` on; `Signals`, that while the loop dials the flag is
down and the channel others wait for is new to them, so that the loop does not
close it twice, and that the connection is there once a dial has succeeded, so that
neither the loop nor anybody who saw no drop meets a nil one; `ClosedOnce`, that only `Stop` ends the loop. `DropNoticed` and
`Explained` follow from these.

| Theorem | Statement |
|---|---|
| `DropIsNoticed` | `Spec => []DropNoticed` |
| `FirstStartPanics` | `Spec => [](~Reused => Explained)` |
| `OneStart` | `MaxStarts = 1 => (Spec => []PanicsExplained)` |

`PanicsExplained` is `TypeOK` and what `FirstStartPanics` says. `TypeOK` bounds the
number of dials by the faults, a bound for TLC; `DialsPaid` proves it for a single
start. That is the only reason for the hypothesis of `OneStart`: the statement about
panics needs none.

Its second part proves both invariants of the SSE streams, from `SseAssumption` only,
for any number of requests, events and removals, and every setting.

- `CountExact` says too little about what happens between a request's arrival and its
  registration. `Members` says that the subscribers of a stream are exactly the
  requests it has registered and not cut; `Counted`, that a running stream's count is
  those and the ones about to register, and that after the loop has ended it may be too
  low by one for each request answered late, never too high.
- `Delivery` rests on `Logged` (what was sent is ascending, and the log is its trimmed
  end) and `Begun` (a subscriber's replay ends within what was sent). A lemma about the
  loop `Since` says what it selects (`SinceFilters`); trimming what was trimmed already
  changes nothing (`TrimAgain`).

| Theorem | Statement |
|---|---|
| `CountIsExact` | `SseSpec => []CountExact` |
| `DeliveredInOrder` | `SseSpec => []Delivery` |

`EtcdRegistryProofs` proves the three invariants of the registrar, from
`EtcdAssumption` only, for any number of callers, calls, leases, retries and
faults. The invariant has three layers, each relying on the ones before:

- `Typed`: `TypeOK`, and whatever names a lease names one that was granted
  already. The second half is what makes a lease that is granted next new to
  every heartbeat, call and request (`NewLease`).
- `OneInv`: `OneHeartbeat` is not inductive, since a `Register` that is answered
  starts a heartbeat without looking at `hbCancel`. It is safe because the
  `Register` cancelled the old one when it began and nothing else begins before it
  ends: without overlap at most one call is under way (`CallsAlone`), while it
  registers `hbCancel` is nil (`NoneMeanwhile`), and the heartbeat it has taken and not
  yet cancelled is the only one (`Taken`).
- `EntryInv`: `EntryKept` speaks of a heartbeat that streams; the entry is in
  place earlier, from the moment the `Put` takes effect, before the heartbeat
  (`HbFollows`) or the call (`CallFollows`) knows. A `Put` that lands moves the
  entry; by `OneInv` nobody else relied on it.

| Theorem | Statement |
|---|---|
| `RegistryTyped` | `Spec => []TypeOK` |
| `OneHeartbeatOnly` | `Spec => []OneHeartbeat` |
| `EntryStaysKept` | `Spec => []EntryKept` |

The first part of `CallGuardProofs` proves the safety of the breaker, from `HystrixAssumption` only:
any window, any number of buckets (the bucket length is rounded down, so the
ring may span less than the window), any callers and sleep window.

- Arithmetic comes first: quotient and remainder are unique (`DivUnique`), a
  multiple of the divisor goes through (`DivShift`), two numbers less than a lap
  apart share a slot only if they are equal (`ModSeparates`), and the count
  `rotateLocked` takes modulo the ring never exceeds the boundaries really
  crossed (`ModMinus`).
- `NoLockout` is inductive with the types: only `AllowTrial` raises the flag, and
  it leaves a call to be marked; a Mark that does not decide the breaker happens
  outside half-open, where the flag is down.
- `NoSampleLost` needs `SampleIsLast`: `lastIdx` is the slot of `lastSample`,
  which lies in the past, and nothing was recorded in a later lap. Then a
  rotation clears no slot of a lap still in the window (`ClearedIsStale`: after a
  whole window the ring has gone round, `WindowIsRound`; before it the cleared
  slots belong to the laps after the last sample), so the rotated ring still
  covers the window (`RotatedCovers`) and the new sample is counted on top.
- `TripsOnFreshSamples` needs `CountsInv`: the samples the window counts are among
  those that were recorded and are still in force. It speaks of sums over
  sequences: `SumMonotone` and `SumPlusOne` say what the loop `Sum` makes of a ring
  whose slots are not above another's, or of one with a sample more.

| Theorem | Statement |
|---|---|
| `BreakerTyped` | `Spec => []TypeOK` |
| `TrialIsGivenBack` | `Spec => []NoLockout` |
| `OpenStaysShut` | `Spec => SleepsFullWindow` |
| `WindowKeepsSamples` | `Spec => []NoSampleLost` |
| `TripsAreFresh` | `Spec => TripsOnFreshSamples` |

Its second part proves both invariants of the cache, from
`LoadableAssumption` only, for any number of callers, changes, `SetNX` calls and
faults. `StoreInv` is inductive with the types: who found the key absent holds the
stripe, and nobody does so once somebody has won (`StripeHeld`). `FreshInv` is what
freshness needs beyond its statement: a load has a leader (`Led`), so a change of
the source while a load is under way always meets a reader and is recorded in
`crossed`; until then every load, every value about to be written back and the one
writer there can be agree with the source (`SourceAsRead`), and so does the entry
(`EntryFresh`).

| Theorem | Statement |
|---|---|
| `TakersExclude` | `CacheSpec => []OneWinner` |
| `StaleByCrossingOnly` | `CacheSpec => []StaleExplained` |

Induction over data. The theorems of the library that state induction take an
operator as a parameter, which the provers cannot instantiate. For numbers the
modules prove it anew, for sets: a set of numbers that is not empty has a least
element (`Least`), because the finite sets `0..x` are well founded under strict
inclusion, so a set that contains 0 and is closed under successor is `Nat` (`Inducts`).
The recursive functions are shown to exist and to satisfy their equation
(`LoopDefined`, `TotalDefined`), and what the loops `Sum`, `Since` and `Kept` compute
is proved that way, as is that the nodes of a phase can be sorted (`Sortable`).

Only model-checked is everything temporal: `RunReturns`, the liveness of
`ContractKept`, `TrialEnds`, `StopReturns`, `UndoEnds`, `Converges`,
`DeregisterSticks`, `CloseStopsAll` and the others that end in `~>` or `<>[]`.
Liveness under fairness is out of the prover's reach.

Every invariant of a passing run is stated by a theorem. `SleepsFullWindow` is proved
only: it is the guard of one action, carried along by the others.

## 7. Plan

Written: `Components`, `ComponentContract`, `AppLifecycle`, `Hystrix`,
`Reconcile`, `ConfigStore`, `HotReload`, `EtcdRegistry`, `RabbitConnection`,
`SseStream`, `LoadableCache`, `PlanOrder`.

To be written, in order:

1. `InMemoryRegistry` and the etcd watcher; `KafkaSubscriber`.
2. Vegas, token bucket and BBR beside `Hystrix`.
3. Domains beside `HotReload`.

Theorems worth adding: the safety part of each of these as it is written.

## 8. Not modelled

Of the modelled parts: a second concurrent caller of `Run`; components whose
name is shared between reconcilers; `MountEnv` and strict contract checks of the
configuration; the etcd watcher; message handling of RabbitMQ; several SSE
stream ids and `Last-Event-ID` values no client was ever given; several keys of a
cache at once. Each is named in
its module's subsection or in the note of its component.

Of the rest: most of the repository is generated protobuf code, contracts that
carry settings into third-party clients, and adapters of those clients. Their
behaviour is that of the library behind them, so a model of the adapter would
say nothing the code decides. `PROJECT.json` lists each such part with its
reason.
