# WAFER: a TLA+ verification project

WAFER runs streaming pipelines of WebAssembly plugins: sources, processing
nodes (transform, filter, router) and sinks, each a tokio task, joined by
bounded queues, and replaceable one by one while messages flow. This directory
holds TLA+ models of the parts in which tasks, timers, requests and failures
interleave, of the algorithms that are hard to get right, the TLC runs that
check them on small instances, and TLAPS proofs. Paths below are relative to
`src/crates/wafer-core/src/` unless they start with `plugins/`, `wafer-*` or
`docs/`.

## 1. Inventory

| Component | State | Operations | Interacts with | What makes it correct |
|---|---|---|---|---|
| Wasm runners (`runner/{transform,filter,router}.rs`, `runner/mod.rs`) | message in hand, held message, rollback replay, canary, pending progress | wait for input, call the guest, forward, recover, roll back, adopt, exit | input queue, watch slot, error policy, next queues, node state | every dequeued message is settled once; a replacement takes effect at a message boundary; the task ends when asked |
| Error policy (`runner/error_policy.rs`) | retry buffer, retry counts | handle, try_retry, next_ready, flush_to_dlq, record_condemned | DLQ channel, counters | bounded retries, no message settled twice or never |
| Replacement protocol (`runner/mod.rs` HotSwapProgress, `SwapReceiver`) | watch value and version, claim, adoption mark, first outcome, oneshot, replaced hash | publish, claim, withdraw, retract, mark, report | API handlers on one side, runner on the other | exactly one side owns a payload; what is reported happened |
| Canary (`runner/mod.rs`, `runner/transform.rs`) | snapshot, success count, window | open, count, expire, roll back | guest instance, hash registry | a rollback returns exactly to what was replaced |
| Node state (`node/state.rs`) | Starting, Running, Error, Recovering | transitions | API | shows what the runner is doing |
| API handlers (`api/handlers.rs`) and `PipelineHandle` (`orchestrator/pipeline.rs`) | per-node mutation guard, hash registry | hot_swap, reconfigure, verify hash, shutdown | replacement protocol, cancellation token | one request per node at a time; the answer is true and always comes |
| Delivery (`runner/mod.rs` send_downstream) | queues, queue counters | reserve, try_send per overflow policy | all node tasks, DLQ | every offer has one outcome, counted |
| Source and sink loops (`runner/source.rs`, `runner/sink.rs`) | poll-error budget; drain phase | poll, collect, drain, flush, close | adapters, queues, token | EOF and cancellation propagate; queued output is drained |
| Orchestrator (`orchestrator/pipeline.rs`) | JoinSet, failures, running flag | spawn, join, stop, abort, wait for the DLQ | all tasks, token | a run ends, and reports every failure |
| DLQ task (`orchestrator/pipeline.rs`) | channel, file or MQTT client | write, end when all senders are gone | all nodes | no counted record is lost |
| Builder, DAG (`orchestrator/builder.rs`, `dag/`) | none after start | wire queues, validate | all of the above | one receiver per destination, no stray sender |
| Launcher (`orchestrator/launcher.rs`), validation (`wafer-config`) | hashes and timings of the launch | validate, build, load each node, start all | builder, registry, engine | all nodes start or none; what is accepted can be wired |
| Wasm node (`node/wasm.rs`), engine (`engine/loader.rs`, `engine/state.rs`) | Store (fuel, epoch deadline, buffers, grant), cached InstancePre, config | call, recover, reconfigure, hot-swap; epoch ticker | runner, Wasmtime | each call has its own budget; a failed exchange leaves the old instance whole |
| Compile cache (`engine/cache.rs`) | memory map, artifact files | lookup, compile, insert, save | launcher, hot-swap preparation | one component per binary for all callers |
| Outbound HTTP (`engine/http.rs`, `engine/capabilities.rs`) | frozen grant; request in flight | authorise, resolve, connect, read | guest, resolver, peer | reaches what was granted and nothing else; ends |
| Registry (`registry/`) | cache directory | parse, look up, pull, store, sweep | launchers that share the directory | whole bytes of the reference asked for, fresh enough |
| Sources (`node/source/`) | reader threads, event loop, connections, channels | poll, subscribe, accept, close | source loop, the outside | order, whole messages, honest answers, end |
| Sinks (`node/sink/`) | batch buffer, writer, client queue, in-flight set | collect, flush, acknowledge, close | sink loop, the outside | success means delivered; bounded loss; bounded wait |
| Bench source and sink, sequence tracking (`node/{source,sink}/bench.rs`, `wafer-types/src/sequence.rs`) | schedule, grids, tracker | pace, stamp, record, export | pipeline | open loop; an artifact is exact or refused |
| Load generator (`wafer-loadgen`) | schedule, client queue, recorder, artifacts | publish, trigger, drain; subscribe, record, write | broker, runtime API | the summary tells what happened; the run ends |
| Runtime binary (`wafer-runtime`) | boot stage, samplers, adoption task, control plane | boot, timed swap, signals, flush, exit | all of the above | exit code and artifacts tell the run |
| Plugins (`plugins/`) and native baselines (`node/native/`) | configuration; accumulators of anomaly-detector | init, process, output-ports | node, launcher | what their documentation says of each message; twins agree |
| Read-only routes, `waferctl`, plugin SDK, numeric plugins | see `PROJECT.json` | | | not modelled, reasons in section 8 |

The hard behaviours are concurrent: a signal arrives between a dequeue and a
guest call; a timeout races the adoption it waits for; a client leaves; a
guest traps under a canary after further requests were adopted; nodes flush
retries while others have already gone; the shutdown deadline fires while
tasks fail. `PROJECT.json` lists them under `hazards`, each at its line.

## 2. Modules

| Module | Models | Extends |
|---|---|---|
| `NodeRunner` | one Wasm node task with its error policy, watch slot, progress handles, canary, state | |
| `Replacement` | abstract: what a node promises those who ask it for another plugin or configuration | |
| `HotSwap` | the hot_swap and reconfigure handlers, the guard and client disconnects, composed with the runner; implements `Replacement` | `NodeRunner` |
| `Pipeline` | a whole run: node tasks, queues, overflow, DLQ task, cancellation, supervision | |
| `HotSwapProofs` | TLAPS proofs about `NodeRunner`, payload ownership and `HotSwap` | `HotSwap` |
| `PipelineProofs` | TLAPS proofs about `Pipeline` | `Pipeline` |
| `Launcher` | validation, DAG checks and wiring of a configuration as operators, and its launch step by step, with its clock | |
| `WasmNode` | Store, budgets, lifecycle calls, exchange and recovery of one node's guest, and the epoch ticker | |
| `WasmNodeProofs` | TLAPS proofs about `WasmNode` and `OutboundHttp` | `WasmNode` |
| `OutboundHttp` | grant, policy hook and connector of a guest's HTTP | |
| `CompileMemo` | abstract: one component per binary | |
| `ComponentCache` | memory and disk tiers, shared by threads; implements `CompileMemo` | |
| `ComponentCacheProofs` | TLAPS proofs about `ComponentCache` | `ComponentCache` |
| `PluginRegistry` | references, resolution, the shared cache directory | |
| `PluginRegistryProofs` | TLAPS proofs about `PluginRegistry` | `PluginRegistry` |
| `SourceLoop` | `run_source_loop` around an adapter | |
| `LineSource`, `MqttSource`, `HttpSource` | file and stdin, MQTT, HTTP sources | `SourceLoop` |
| `AdapterSink` | sink loop, batch buffer and the file, stdout, HTTP and MQTT sinks | |
| `Adapters` | sources and sinks side by side; `adapters.cfg` gives the small instance | |
| `AdapterProofs` | TLAPS proofs about the sources and sinks | `Adapters` |
| `SequenceTracker` | sequence accounting, as operators | |
| `BenchSchedule` | due times, phases and stamps, as operators | |
| `BenchSource` | pacer thread and polls | `BenchSchedule` |
| `BenchSink` | what is recorded and exported | `BenchSchedule`, `SequenceTracker` |
| `LoadShapes` | load profiles and offsets, as operators | |
| `LoadProfile` | flags and profile file to a schedule | `LoadShapes` |
| `Publisher` | publisher tasks, client queue, broker, swap trigger | `LoadShapes` |
| `Subscriber` | the recorder as operators; event loop, channel, recording, shutdown, artifacts | `SequenceTracker` |
| `ToolProofs` | TLAPS proofs about `SequenceTracker`, `Subscriber`, `Publisher`, `LoadProfile`, `BenchSource` and `BenchSink` | `Subscriber` |
| `Runtime` | the runtime process from boot to exit code | |
| `RuntimeProofs` | TLAPS proofs about `Runtime` and `Launcher` | `Runtime` |
| `JsonText` | the hand-written scanners, as operators on tokens | |
| `ThresholdFilter`, `JsonParse`, `ContentRouter`, `ResultFormat` | these plugins (and native twins) | `JsonText` |
| `CayenneDecoder`, `AnomalyDetector` | these plugins | |
| `MCNodeRunner`, `MCHotSwap`, `MCPipeline` | small instances of the core | each its module |
| `MCStartup` | compile cache, registry, launcher, process side by side | `ComponentCache` |
| `MCGuests` | node, outbound HTTP and plugins side by side, with the payloads, tables and reconfigurations the plugins are run on | `JsonText` |
| `MCTools` | bench nodes and load generator side by side | |

An operator whose comment begins with "Fault:" is a plausible bug. No
specification uses it; `mutants` in PROJECT.json names the definition it
stands in for and the property that must then fail, which shows that the
property depends on that line of code.

### NodeRunner

`pc` follows the loop: `top` (canary expiry, pending swap), `init` (validate
and init of a claimed payload), `recv` and `select` (the input wait),
`got` (the second look at the slot), `process` (the guest call), `send`,
`rollback` and `recover` (lifecycle calls), `exit`, `done`. The places are the
await points and the points where another task's step can be observed; code
between two of them is one action. `Role` selects the loop: filters and
routers have no canary, and drop messages in their own way.

A message is an identity. Instead of counters the model keeps, per message,
the counter that recorded it (`fate`), so that the conservation law printed
above `export_per_node_metrics` becomes a statement about each message. A
plugin is the request that brought it, or `Initial`; `inst` is the live guest,
`pre` and `config` are what a recovery would build, `hash` is the registry.
The guest is arbitrary: each call may succeed, drop, fail in each category,
exhaust its budget, trap or be unrecoverable. The DLQ may be full at any time.
Time is three environment steps: a backoff expires, the canary window elapses,
and (in `HotSwap`) a wait times out. `dequeuedAt`, `canary.was` and
`canary.failedAt` are history for the properties and guard nothing.

### HotSwap

One handler per request: `preparing`, `ready`, `waiting` (5 s),
`unfinished`, `retract`, `settling` (30 s), then `answered` or `gone`. The
handler's steps are separated where it awaits or where it touches an atomic
shared with the runner. The runner is `NodeRunner`'s own `Runner`, so every
interleaving of two handlers and the runner is explored. `Disconnect` is the
web server dropping the handler's future; it is external to this repository
and modelled from the handler's use of a guard local to its future.

### HotSwap implements Replacement

`Replacement` has no signal, message or clock: a request is admitted one at a
time, offered, decided once, and an adopted plugin may be undone by going back
to exactly what it replaced. The stage of a request is read off its claim, its
adoption mark, its first outcome and the replaced hash; the plugin and
configuration in use are the live guest's where it may be called and what a
recovery would build otherwise; the fallback is the canary's snapshot. Watch
versions, timeouts, disconnects, messages and lifecycle calls map to nothing:
what remains is who decides what, and that an answer is so when it is given.

### Pipeline

Messages are anonymous here: the state is where they wait (`queue`, `hand`,
`parked`, `dlqQueue`) and the counters of the code (`queueStats`,
`nodeStats`). Each loop waits in a biased `select!`; its arms are polled in
order, and another task may act in between, so the two arms are two places,
`first` and `second`. Sources and processing nodes look at cancellation
first, sinks at their input. A task owns its channel ends until it exits, so
`Closed` and `Eof` are functions of `task`. A Wasm node is reduced to what
others can see: it forwards (a router to some of its ports), consumes,
retries once, dead-letters, or tears down; `NodeRunner` has the details.
Adapters and guests may panic; adapters and the DLQ's I/O may never return.

A counter and the channel operation it records are one step: only samplers
read between them. Node states and message contents are left out.

### Launcher

A configuration is a record; `validate`, the DAG and the wiring are operators
on it, and `Launcher` takes the accepted ones through the launch step by step,
each of which may fail. The graph properties are stated with the community
module's paths, not with the code's own search.

### WasmNode

A Store and the bindings in it are always exchanged together and are one
record. Epochs are relative: a Store keeps the ticks left, and a tick takes
one from every Store that exists, the one waiting in the watch slot included.
Transform, filter and router repeat the same code in `node/wasm.rs`; `map`
points at one of the three copies of each method.

### ComponentCache implements CompileMemo

`CompileMemo` knows which component a binary has and what each caller was
given. The mapping reads it off the memory map; a component that was compiled
and not yet inserted, or thrown away because another thread was first, does
not exist in the abstract state. Disk files map to nothing: whatever is in
them, a caller gets the component in memory. A restart of the process is the
abstract one's.

### Adapters

The three sources extend the loop that polls them, so cancellation meets them
at each of their waits. `AdapterSink` keeps, for files, the tokens that a
buffered writer holds and those on disk, which is where a line can lose its
end. Brokers, peers, clients and disks are arbitrary; the MQTT client library
is modelled from its use: a bounded request queue, a window of unacknowledged
publishes, and a link that fails with what is on the wire. A publish that is
written arrives later or never; a link that breaks sets aside the whole
window. A read that fails inside a line leaves any part of it: none, a rest
that is text, or a rest that is not UTF-8, as `read_line` may. An HTTP client
may hang up at any of its waits.

### Load generator and bench nodes

Time is discrete with a few ticks to a second, so the truncations of the
code's nanosecond arithmetic occur. Of a latency only the count is kept;
histograms and file layouts are left out. The recorders are compared with
history variables that hold every message as it arrived. Any write of a
receipt, trace, summary or artifact may fail, which ends the run with the
error and without what comes after it.

### Runtime

The pipeline and the node under a timed swap are what `main.rs` can see of
them: running, ended, adopted, refused. That they end when cancelled is
`Pipeline`'s `CancelEndsRun`, that a swap is settled is `HotSwap`'s
`RequestsAnswered`; `Runtime` assumes both as fairness.

### Plugins

A text is a sequence of tokens: a quoted string is found by its content
whether it is a key or a value, and a number keeps what scanners disagree on
(sign, digits, exponent, trailing characters). `ThresholdFilter` runs the
plugin and its native twin on the same messages. In `AnomalyDetector` alpha is
one half, which makes the arithmetic exact; scores in `ResultFormat` are
multiples of 1/100000, one digit more than is printed.

### Components side by side

The components that `Adapters`, `MCStartup`, `MCGuests` and `MCTools` put
together share no variable in the code: what one hands to another is a value
(a message, component bytes, a handle), and each module lets that value be
anything the other may hand over. A product of their state spaces would
repeat the states of one for every state of the others and reach nothing new,
so a behaviour of these runs is a behaviour of one of them, picked in the
initial state (`part`); the variables of the others keep the value `Off`.
Each part has its own constants, and the properties are guarded by `part`.

## 3. Runs

| Run | Instance | Distinct states | Shows |
|---|---|---|---|
| `runner_transform` | transform, DLQ, retry buffer of 1, 2 messages, 2 requests, canary of 1 | 1,075,998 | conservation, final fates, consistent registry, exact rollback, barrier, honest state |
| `runner_liveness` | filter, the same policy, 2 messages, 1 request | 133,016 | EOF ends the task, an idle node takes a replacement |
| `hotswap_api` | 2 concurrent requests of either kind | 643,516 | guard, truth of every answer, disowned payloads never run, `Replacement` is implemented |
| `hotswap_liveness` | transform with a teardown policy, 2 messages, 1 request | 341,159 | every request is answered though the node may hang or end; a cancelled node ends |
| `pipeline_safety` | source, Wasm node, sink in a chain, dead-letter and drop edges, queues and DLQ of 1, 2 messages | 1,238,147 | counters reconcile, DLQ complete, clean runs lose nothing silently, failures surface |
| `pipeline_liveness` | source, router, sink, no DLQ, with a second edge from source to sink; slow and drop edges | 160,377 | runs end after cancellation, failure and EOF |
| `adapters` | lines (3 with 3 faults), MQTT (3 messages, 3 breaks), HTTP (2 connections, 3 requests), sinks (19 configurations, 4 messages, an in-flight window of 2, a broken link) | 249,455 | what adapters emit, acknowledge, deliver and lose; they end and recover |
| `startup` | cache (2 threads, shared directory, restarts), registry (1 and 2 runtimes, crashes, failing writes, repositories of one and of two segments), every topology of 2 nodes and many of 4, every feature of a path, process with and without a timed swap | 558,862 | `LaunchSound`, `BytesAreRight`, `RunReported`, the cache implements `CompileMemo`, the steps that must not happen, the ends |
| `guests` | metered and timed node, 3 HTTP instances, 6 plugins | 172,606 | containment, exact plugin output and verdicts, no guest or peer holds a node |
| `tools` | bench source, 2 bench sinks, profiles, 4 publishers, 3 subscribers | 666,785 | `BenchExact`, `LoadgenExact`, the ends |

Two more runs, `runner_retry_swap` and `hotswap_rollback_told`, check
statements of the repository that the code does not keep; TLC finds both
violated (section 6).

The properties of the side-by-side runs are conjunctions of the named
properties of the modules, which carry the comment for each conjunct:

| Property | Conjuncts |
|---|---|
| `SourcesFaithful` | `LineSource`, `MqttSource`: `EmittedInOrder`; `LineSource`: `EofIsComplete`, `BadDataIsNoError`; `HttpSource`: `AnswerIsTrue`, `LossAtClose` |
| `SinksFaithful` | `AdapterSink`: `CleanEndIsComplete`, `InOrder`, `BufferAgeBounded`, `AcceptedIsKept`, `LossAtClose` |
| `LaunchSound` | `Launcher`: `LaunchTypeOK`, `RunningMeansConnected`, `DeliversOnce`, `BuilderAgrees`, `AllOrNothing`, `DeadLettersKept`, `HashesAreEligible`, `PhasesTile` |
| `BytesAreRight` | `PluginRegistry`: `OwnContent`, `FreshEnough`, `HitIsWhole` |
| `RunReported` | `Runtime`: `ExitTellsTheRun`, `ArtifactsWhole`, `ProvenanceNamesLive` |
| `StepsKeep` | `PluginRegistry`: `SweepExact`; `Runtime`: `TimedSwapKept` |
| `GuestContained` | `WasmNode`: `BudgetHonoured`, `InstanceIsCurrent`, `GrantKept`, `BuffersReturned`; `OutboundHttp`: `ConnectsAsGranted`, `ReachesPermitted`, `GrantUsable` |
| `PluginOutputExact` | `JsonParse`: `AcceptsExactlyJson`, `OutputIsTheDocument`; `CayenneDecoder`: `DecodedIsPrefix`, `EmittedIsComplete`; `ResultFormat`: `NamesTheBest`, `PrintedClose`; `AnomalyDetector`: `BaselineExact` |
| `VerdictExact` | `ThresholdFilter`: `WasmVerdictExact`, `NativeVerdictExact`; `ContentRouter`: `PortExact`, `WiredDelivers`; `AnomalyDetector`: `Caused`; `OutboundHttp`: `ReadTimeoutMeansSilence` |
| `BenchExact` | `BenchSource`: `OpenLoop`, `NoneLost`, `PhasesFollowClock`; `BenchSink`: `SequenceExact`, `GridExact`, `IntervalsComplete`, `IntervalsRefusedForCause`, `BurstAccounted`, `FineWindowComplete`, `PauseExact` |
| `LoadgenExact` | `LoadExact` and `SubscriberExact` |
| `LoadExact` | `LoadProfile`: `PopulationExact`, `SecondsFollowRate`, `OperatorWins`; `Publisher`: `Reconciles`, `WholePopulation`, `TraceIsSchedule`, `SwapDecidesRun` |
| `SubscriberExact` | `Subscriber`: `MetadataMeansComplete`, `ShutdownLosesNothing`, `SequenceExact`, `RowsExact`, `RowsRefusedForCause`, `BucketsExact`, `StepNoticed` |
| `AdaptersEnd`, `AdaptersRecover`, `StartupEnds`, `GuestsEnd`, `ToolsEnd` | one leads-to each, from `Awaited` (or its like) to `Ended`, which say by part what is waited for |

The invariants also hold the type invariant of each module.

Deadlock is not checked where the system may stop: the processes of the
side-by-side runs exit.

Bounds of the core. Two requests are the least with which one replacement is
chained on another's canary and two handlers compete; a third only repeats
the pair, since a snapshot is taken from the current state. Two messages
suffice for one being held, replayed or buffered while another arrives; a
buffer or queue of one entry makes "full" reachable with two. `CanarySuccess`
of 1 or 2 separates an open canary from a completed one. `MaxPollErrors` of 2
separates a tolerated poll error from the last one (the code's 20 repeats the
first), and one retry per message in `Pipeline` stands for any bounded
number. The theorems do not depend on these bounds.

Bounds of the others. Three messages make a loss, a repetition and a
reordering around a neighbour; channels and client queues of one entry are
full with the second. An in-flight window of two and a fourth message keep
apart what a broken link loses from what waits in the channel. Two connections or threads are the
least that meet; a cache made twice is the race. Clocks have one to three
ticks per second and run a tick past the last deadline, which reaches both
sides of every comparison; a schedule of 60 ticks per second keeps the
rounding of 60/7. Addresses come from both sides of the edge of each special
block, and `MCGuests` gives every plugin the payloads on which its
scanner has to decide: the key absent, twice, and as the value, or at the end
of the value, of a member before or after its own; numbers with sign, exponent
or trailing letters, and NaN; nested documents with an edit anywhere, strings
with escapes, bad escapes, control characters and characters beyond ASCII, and
strings that never end; scores on both sides of every rounding, infinite ones
included.

## 4. Fairness

`NodeRunner`: the runner's own steps and its timers are weakly fair, since
tokio polls a woken task and a timer fires; for liveness a lifecycle or
guest call returns because fuel and epochs bound it. Arrivals, EOF, requests
and cancellation are never assumed. `HotSwap`: only handler steps are fair;
nothing at all is assumed of the node, so `RequestsAnswered` holds with a
guest that never leaves `init`; `CancelEndsNode` needs the fairness of
`NodeRunner` and has it as its premise. `Pipeline`: loop steps, guest calls and the
orchestrator (with its deadlines) are fair, adapters and DLQ I/O are not.
`EofEndsRun` alone needs adapters that return, and says so in its premise.

A guest without fuel or epoch limit can keep a worker thread and defeat the
abort; `docs/learn/shutdown-and-failure.md` says so, and the models assume a
limit.

The other modules, in the same spirit:

- Sources: the source's task is polled and its sleeps end; the MQTT client
  connects and sends its requests in the end; an HTTP client sends its body
  or hangs up. Nobody need type a line on stdin.
- Sinks: the task is polled, its timer expires, an endpoint answers (the
  client has a timeout), the broker can be reached in the end, and what is
  written while the client lives and the link holds arrives.
- `WasmNode`: the epoch ticker is a thread of its own, and a guest over its
  budget traps at its next check. A guest need never return.
- `OutboundHttp`: time passes, the resolver returns, the guest that waits
  polls. The peer owes nothing.
- `ComponentCache`, `PluginRegistry`: the blocking pool runs its threads; a
  compilation, the disk and a pull return.
- `BenchSource`: the pacer thread and the clock run; a waiting poll that
  finds a message again and again returns it (strong, since the runner may
  drop the poll in between).
- `LoadProfile`, `Subscriber`: their own steps. `Publisher`: its own steps,
  its timers, and a broker that serves the link in the end; without that its
  disconnect waits for room for ever (section 6).
- `Runtime`: its tasks run; that nodes end once cancelled is `Pipeline`'s
  `CancelEndsRun`, that a request is answered `HotSwap`'s
  `RequestsAnswered`.

## 5. Proofs

All theorems hold for every value of the constants that satisfies the
module's named assumption: `RunnerAssumption`, `ApiAssumption`,
`PipelineAssumption`, `CacheAssumption`, `AdaptersFit` (that the constants of
the sources and sinks satisfy the assumption of each module), and, as
hypotheses of the theorems because the modules are instantiated with several
sets of constants, `RuntimeAssumption`, `WasmNodeAssumption`,
`RegistryAssumption`, and `TrackerAssumption`, `RecorderAssumption`,
`SubscriberAssumption`, `PublisherAssumption`, `ProfileAssumption`,
`SecAssumption`, `SourceAssumption`, `ScheduleAssumption`,
`HttpAssumption` and `LauncherAssumption`, which `StartupFits`, `GuestsFit` and `ToolsFit` assert
of every instance that TLC runs. They give the types of the parameters, a
positive budget, bound or capacity, and an absent value that is no value.

`HotSwapProofs`, of the runner alone:

- `TypeCorrect`. `TypeOK` is not inductive: an action that takes `current`
  out of hand needs to know that there is one. `Hands` says at which places
  `current`, `payload`, `canary` are present; `TypeInv` is both.
- `MessagesAccounted`, `FatesAreFinal`. `Inv` adds `Accounted`: a pending
  message is in exactly one of hand, held, replay or buffer. Finality is
  the action property that follows from it: an action settles only messages
  it holds, and those are pending.
- `RegistryTracksGuest`, `RollbackIsExact`, `StateIsHonest`. `GuestInv`
  relates guest, cached instance, config, hash and node state at each place,
  and says of an open canary that its snapshot is what `was` records and that
  its request's `replaced` hash is that plugin, which is what makes a
  restored hash right even after chained requests.
- `OldInstanceBarrier`. `BarrierInv` bounds the version at which the message
  in hand was dequeued by the version the runner has seen.

`HotSwapProofs`, of payloads and of the runner with its handlers:

- `DisownedNeverRun`, of the runner alone and (`ApiDisownedNeverRun`) of the
  runner with its handlers. The property looks at what runs and at what a
  rollback would restore; `OwnerInv` says why neither can be a disowned
  payload: nothing is on record of a request before the runner has claimed it
  (`HonestProgress`), everything in use or kept for a rollback was adopted and
  not reported rolled back (`OnlyAdopted`), and the request that a rollback
  reports is not among what it restores (`Tracked`).
- `ApiTypeCorrect`, `GuardAlwaysProtects`, `AnswersAlwaysHold`. Each step of
  the composition is a step of the node or leaves it alone
  (`ApiStepIsNodeStep`), so what holds of the node carries over. `Told` says
  what each handler knows of its payload at each place; no step of anyone else
  takes it back, because a claim leaves "pending" once, a oneshot is used once
  and an adoption stays on record (`Kept`). The answers then follow from
  `Told` and `OwnerInv`. `ApiAssumption` says only that the absent value is
  none of the outcomes and answers.
- `NodeImplementsReplacement`. `ApiSpec => ImplementsReplacement`: every step
  maps to a step of `Replacement` or a stutter. A step can be a decision only
  if what the mapping reads off the state is what the service says:
  `ServiceInv` adds that a payload is of the kind its request asked for and
  was sent (`Carried`), that a claimed request without a decision is the one
  whose payload the runner has in hand (`InHand`), and that the request of an
  open canary replaced just what the canary would go back to, while one that
  is being or was reported rolled back is on record as undone (`CanUndo`).

`PipelineProofs`:

- `CountersReconcile`, `PipelineTypeCorrect`. `FlowInv` makes `Conserved`
  inductive: the types of tasks, queues and counters, the fact
  (`HandsMatch`) that a task has a message in hand exactly at the places that
  work on one, and the error budget of a source that is still polling
  (`WithinBudget`). One lemma per way a message moves (taken, sent, settled,
  parked for retry, flushed) covers the actions; queue capacities follow from
  what `Offer` answers.
- `NoFailureLost`. `FailuresSurface` speaks of the end only; `Supervised` says
  what run_until_complete knows at each stage. It is preserved because a task
  that has ended takes no step and no failure is taken off the record.
- `NoDeadLetterLost`. `DlqComplete` speaks of a DLQ task that has ended;
  `DlqInv` says of every moment that what the nodes have counted is what was
  written and what waits in the channel. The counters of all nodes are added
  up by the size of a set of numbered records, `DlqRecords`, so that one
  counter going up by one is one element more and no sum over the nodes needs
  an induction.
- `SuccessDelivers`. `Orderly`: as long as nobody has cancelled, a task leaves
  its loop only after its senders have ended, and with empty hands and queue.
  `ByKind` (who parks, who drains, who is sent to) and `DlqOutlives` (the DLQ
  task ends after its senders) close it; `Supervised` brings it to the report.

`ComponentCacheProofs`:

- `CacheTypeCorrect`. `CacheInv` adds to the type that a thread on its way to
  the map holds a component that was made (`Ready`).
- `CacheRefinesMemo`. `Spec => ImplementsMemo`: the initial states map to
  initial states and each step to a step of `CompileMemo` or a stutter. One
  step per action; `Insert` is the one that matters, because the thread that
  finds another's component in the map answers with that one. Disk reads,
  evictions, compilations and writes are stutters (`Silent`), so no content
  of the directory can change what callers get. No bound on threads,
  binaries, files or restarts.

`RuntimeProofs`:

- `RunTellsItself`. `RunReported` looks at an exited process; `RtInv` follows
  it there: the run's result and the exit code (`RunInv`), who may have
  cancelled and whether the timed swap is on record (`SwapInv`), the samples
  of a joined recorder, which no longer change (`ArtInv`), and the plugin the
  shutdown provenance names, which nothing replaces any more (`ProvInv`).
- `GuardProtectsTimedSwap`. `GuardInv`: the guard is the adoption task's from
  the dispatch on, and that task outlives the adoption, so no API request can
  change the plugin in between.

`RuntimeProofs`, of the launch:

- `LaunchIsSound`, all of `LaunchSound` at once. The invariant `StartInv` says
  that every node that is in no list any more has an implementation of its kind
  (`Fitting`, `Filled`), that the hashes are those of the Wasm nodes and of the
  one about to be instantiated (`Hashed`), that a loaded router declares what
  its edges use (`Routed`), and that the durations add up to no more than the
  clock, and to no more than its last stamp while a phase is being timed
  (`Stamped`). `RunningMeansConnected` speaks of sets: one with all sources
  that no edge leaves is the whole pipeline, and likewise from the sinks. The
  nodes outside such a set would each have a predecessor outside (`Wired`, from
  the checks of validate), which `NoCycle` excludes: `PeeledAway` unfolds the
  recursive rounds of `Toposort`, and a least round at which such a node goes
  cannot exist.

`WasmNodeProofs`:

- `HostContainsGuest`, the node's part of the run's property. `Current` says
  of each of the three Stores a node can have at once (in use, fresh, saved
  for a rollback) which component, configuration and grant it has, by place;
  `Budgeted` that what is left of a budget and what was used of it are the
  whole, from the moment an export is armed.
- `NeverStarved`: in a metered engine a node without fuel of its own never
  runs dry, however many calls share its Store.
- `HttpReachesPermitted`, `HttpConnectsAsGranted`, `HttpGrantsUsable`,
  `HttpTimeoutMeansSilence`, `HttpTypeCorrect`, from one invariant, `HttpInv`.
  Its parts: the grant is what the configuration lists make of it and does not
  change (`Frozen`); what a request in flight is for was granted and is named
  by it (`Asked`); its address is the literal or a permitted answer
  (`Reached`). `BlocksAre` shows that the comparisons of octets in the code
  (`is_private`, `is_link_local` and their like) and the registered prefixes
  are the same ranges. `HttpGrantsUsable` is an equivalence: the code denies
  every IPv6 literal whatever is granted (section 6), and of what is granted
  nothing else.

`PluginRegistryProofs`:

- `PathsDiffer`: two references with one cache path are the same reference.
  With a tag in one piece, the last "/" of the path stands where the last ":"
  of the text was. The proof found the hypothesis, `PlainTags`, without which
  this is false: `h/a:b/c` and `h/a/b:c` share a file. `OciReference::parse`
  accepts both; the registry library refuses the first, but `resolve_oci`
  asks the cache before it (`registry/client.rs:93`, `:121`). So an entry of
  the second would answer a request for the first; that request could never
  be answered from the registry, and no theorem here speaks of it.
- `ResolvedBytesAreRight`. The invariant is one statement about each
  resolution (`JobGood`) and one about each file (`FileGood`): a whole file
  holds a version of the one reference with its path that was the tag's
  `OpTime` before the file's time, whoever wrote its halves; a resolution
  that found its file young enough may read a later one, which is younger.
  That a hit is complete holds of a file that its last writer finished with
  nobody else at it (`Untorn`: such a file is whole, or has one writer whose
  first part is its own pull). Any other file may be torn in place, and the
  history field `risk` marks its readers (section 6).
- `SweepsAreExact`: whatever was written, pushed or cut short before, a sweep
  leaves of the one-segment repositories exactly the entries a lookup accepts,
  and touches nothing of a deeper one. The depth of a cache path is derived
  from the reference's text, by its first "/" and its last ":"; that a lookup
  and a sweep agree needs the invariant (no file is from the future). With
  `GuardProtectsTimedSwap` the whole of `StepsKeep` is proved.

`ToolProofs`, of the subscriber:

- `RecordFits`. The tracker compares a window of its population, a bitset, a
  highest number and five counters with any log of numbers. Exactness alone is
  not inductive: `TrackerFits` says of every field what function of the log it
  is (the bitset holds just the numbers in range that arrived, an entry is late
  if a higher one in range came before it), and one lemma per kind of entry
  (outside, repeated, late, new) shows that the next entry keeps it.
  `FitsIsExact` draws the missing count from it, by counting the population.
- `SequenceAlwaysExact`, `NothingLostAtShutdown`, `MetadataVouches`,
  `StepsAlwaysNoticed`, `SubTypeCorrect`, from one invariant, `SubInv`. Its
  parts: every message heard is with the event loop, in the channel or with the
  recorder, in order (`InFlight`); which artifacts are there at each place of
  the end, so that the metadata, which is the last, vouches for all (`OnDisk`);
  the tracker fits what was counted, and a run for a number of distinct
  messages is still short of it while it records (`Tracked`); the two clocks of
  a message differ by the step or not at all, and the recorder has counted the
  step once it saw it (`StepsSeen`). `StepsAlwaysNoticed` has the hypothesis
  that the steps of the wall clock exceed the tolerance: smaller ones are
  accepted by design. Of the intervals and buckets only their places are in the
  invariant; their rows stay with TLC so far.

`ToolProofs`, of the publisher and its schedule:

- `PubTypeCorrect`, `SummaryReconciles`, `TraceAlwaysSchedule`,
  `SwapAlwaysDecides`, from one invariant, `PubInv`. Its parts: where each task
  is (`Places`); what the broker acknowledged, what is in flight and what is
  queued is never more than was handed over, though a lost link puts messages
  back (`AckBound`); the channel holds the messages that follow the one in hand,
  one by one, and the pacer works on the next (`Ordered`), so the trace is the
  schedule (`Traced`); the summary is of the counters that no longer change when
  it is collected (`Summed`); and what the swap task has come to at each place
  of the end (`SwapFlow`).
- `WholePopulationOffered`. `Covered` says that no message before the pacer's is
  due after the end, and that the loop is left as completed only after the
  pacer passed the end. That the schedule then has no further message needs its
  times to rise: each is defined from the one before (`Offset`), and what the
  definition computes is shown by least counterexample. The hypothesis `Rates`,
  from one message a second to one a tick, holds of every shape the flags
  resolve to within that range (`ResolvedRates`); beyond a message a tick the
  model's clock cannot tell two messages apart.
- `PopulationAlwaysExact`: for a constant rate the offsets are derived from the
  index, not added up (`Scheduling`), so the count is exact for every rate and
  duration, a rate that does not divide the second included.

`ToolProofs`, of the bench source:

- `SourceIsOpenLoop`, `SourceLosesNone`, `PhasesAlwaysFollowClock`,
  `SourceTypeCorrect`, from one invariant, `SourceInv`. Its parts: the clock is
  past the due time of whatever the pacer handed over (`Clocked`); numbers
  emitted, in the channel and next at the pacer are one row (`InTurn`); what
  was emitted has the stamps of the schedule, and the tallies count it by phase
  (`Tallied`). That due times rise, across the phases too, is `OffsetsRise`,
  and that a number's phase is the one its due time lies in is `Windows`: the
  source takes the phase from the number and the time from truncated
  intervals, and the proof shows that the truncation never moves a message
  across the edge of a window.

`ToolProofs`, of the bench sink:

- `SinkSequenceExact`, `SinkGridExact`, `SinkIntervalsComplete`,
  `SinkRefusesForCause`, `SinkBurstAccounted`, `SinkFineComplete`,
  `SinkPauseExact`, `SinkTypeCorrect`: every conjunct of the sink in
  `BenchExact`, from one invariant, `SinkInv`. It says of each recorder what
  function of the measured arrivals it is: the tracker fits their numbers
  (`TrackerTold`, with `RecordFits`), each closed second of the grid and the open
  one count theirs (`GridTold`), so do the interval rows unless the recorder
  overflowed, and then there is a reason to point at (`IntervalsTold`), each
  population of a burst has the arrivals of its zone and the buffer those of its
  window (`BurstTold`), and the timeline has a pause per change of version
  (`SwapsTold`). The properties speak of the files, so `close()` is where they
  begin to hold: one lemma for each of its three parts (`CloseGrid`,
  `CloseIntervals`, `CloseFine`) takes the open form to the closed one, and
  `CloseIntervals` has to add the rows up. An arrival is one lemma per recorder.
- The sink's definitions recurse: an arrival closes as many rows as seconds went
  by, and a file is valid by the sum of its rows. That such a loop has one result
  for any number of rounds is `Runs` and `RunIsOne`, and a sum over rows, which
  the model folds over a set, is unfolded one row at a time by `IsSum`, whatever
  the order the fold takes them in.
- The assumptions are those of the module and of its schedule, and that the
  tracker's window is a positive number. `OffsetsRise` is needed once more: no
  message of a burst is due before the origin the sink counts its zones from.

`AdapterProofs`:

- `SourcesStayFaithful`. For lines, `InTransit`: the lines of text read so far
  are downstream or with the reader thread, in the channel or in its hand, in
  their order, but for those a failed read cut, at most one per failed read; `AtEnd` and `ErrorsAreFaults` carry this to the end of the file
  and keep the error budget for reads that failed. For MQTT one sequence, what
  was emitted, the channel, the event loop's hand and the wire, rises, so a
  broken link loses from it and never reorders it. For HTTP, what was answered
  200 is what went downstream or waits in the channel, until the receiver is
  dropped (`ReceiverIs`), and a busy connection has one request of its own that
  is not answered yet (`Unanswered`); the loss at close is then at most what
  the channel holds (`QueueCount`).
- `SinksStayFaithful`. The theorem is about all five sinks and their loop at
  once. `SinkControl` says where the messages are from phase to phase; those in
  no batch and no call are `Handed`, and everything else is about them. While
  nothing has erred the text of a file is `Lines(Handed)`, and what an HTTP
  endpoint got is the first `Handed` messages; after errors both still rise
  (`LocalWritten`, `HttpTaken`). With an acknowledging broker they are with
  the broker or with the client; what is set aside and what is in flight
  together grow by at most `RequestCap` with each broken link, from
  `MaxInflight`, and that is what `close()` may lose (`BrokerTaken`). `BatchWaits` bounds the
  age of a batch by one timeout per message that restarted the timer, which is
  what an age bound alone does not preserve. One lemma per kind of step: calls
  into a sink, their return, ticks, the event loop, publish, disconnect.

Inductions over the naturals (the order of positions in a text, the loop that
writes a batch line by line, the times of a schedule, the rows of a sink's files,
the rounds of a topological sort) are done by least counterexample (`Least`, from
the library's `WFMin`, which takes a set), since the induction rules with an
operator parameter cannot be used.

Only model-checked:

- Liveness: fairness and ENABLED are beyond the prover.
- The rows of the subscriber's intervals and buckets (`RowsExact`,
  `RowsRefusedForCause`, `BucketsExact`): they could be proved as the bench
  sink's are, and are not yet.
- What the plugins print and decide (`PluginOutputExact`, `VerdictExact`): it is
  computed by recursion over the input, where the value at each step would need
  an induction rule with an operator parameter.
- That a profile's rates in each second are those its flags describe
  (`SecondsFollowRate`): the schedule is added up by recursion, and the count of
  a second would need the same kind of induction over every second.

## 6. Divergences between documents and code

Two are runs:

- `runner_retry_swap`: a retry popped before the signal is held and reaches
  the replacement (ADR-0012 says it never does).
- `hotswap_rollback_told`: in its second wait a caller is told of the
  adoption though the rollback was reported.

The others are stated as properties of their modules, which TLC finds violated
on an instance like those of section 3 (a cfg that names one reproduces the
counterexample), or, where a property is checked that allows for the
divergence, named with the part of it that does.

| Property | The code | The statement |
|---|---|---|
| `NodeRunner!CanaryNeedsConsecutive` | failures do not restart the count (`runner/mod.rs:364`) | "consecutive successful" (`wafer-types/src/config/engine.rs:170`) |
| `NodeRunner!RollbackInsideWindow` | the window is looked at between messages only (`runner/transform.rs:121`) | "Maximum wall-clock milliseconds" (`wafer-types/src/config/engine.rs:175`) |
| `HotSwap!PendingNotOverwritten` | a client that disconnects frees the guard with its payload pending (`api/handlers.rs:174`) | ADR-0012: a second request does not overwrite a pending value |
| `HotSwap!ExitedRunnerIs500` | a runner that ends with the payload unclaimed is answered 504 (`api/handlers.rs:446`) | `docs/interfaces/http-api.md:149` |
| `HotSwap!ReconfiguresExpected` | the expected hash is compared before publication, not at adoption (`api/handlers.rs:421`) | `docs/interfaces/http-api.md:180` |
| `Pipeline!CleanExitsAreOk` | the deadline is polled before the joins, and may fail a run whose tasks ended well (`orchestrator/pipeline.rs:725`) | `orchestrator/pipeline.rs:704` |
| `Publisher!ExitBounded` | disconnect and swap are awaited without a timeout of their own (`wafer-loadgen/src/publish.rs:869`) | the comment at `publish.rs:593` |
| `Publisher!TriggerReported` | a trigger that a signal cancelled is reported (`publish.rs:930`) | the field's comment, `publish.rs:967` |
| `Runtime!QueueDepthWritten` | queue-depth.csv is not written without the bench directory (`wafer-runtime/src/main.rs:783`) | `docs/architecture` |
| `Runtime!SuccessMeansSwapped` | a dispatched swap that is refused or never adopted exits 0 (`main.rs:662`) | `main.rs:586` |
| `OutboundHttp`: IPv6 literals under `GrantUsable` | a bracketed literal is taken for a name and refused, though it was granted (`engine/http.rs:57`) | ADR-0016, line 61 |
| `AdapterSink!FlushedByTimeout` | every message restarts the batch timer (`runner/sink.rs:63`) | `node/sink/stdout.rs:19` |
| `AdapterSink!OnePerLine` | payload and line end are two writes (`node/sink/file.rs:166`) | `node/sink/file.rs:24` |
| `LineSource!WholeLines` | a read error drops what was read of a line (`node/source/file.rs:109`) | `node/source/file.rs:16` |
| `PluginRegistry!HitIsWhole` without its `risk` | the cache file is written in place: a failed or killed write, or two at a time, leave a torn file that is a hit (`registry/cache.rs:64`) | ADR-0005, line 99 |
| `PluginRegistry!SweepExact`, its `ELSE` | the sweep is three levels deep and never enters the directory of a repository with several segments, such as `ghcr.io/pedroklein/...` (`registry/cache.rs:88`) | `registry/types.rs:175` |
| `PluginRegistry!ReadCached` | an entry removed between lookup and read is an error (`registry/client.rs:99`) | ADR-0005, line 100 |
| `ComponentCache!CompileOnce` | concurrent misses compile twice (`engine/cache.rs:85`) | `docs/learn/wasmtime-in-context.md:38` |
| `ComponentCache!DeserializesOwnOutput` | the artifact is written in place (`engine/cache.rs:167`) | the comment at `engine/cache.rs:138` |
| `ThresholdFilter!TwinsAgree`, `SchemaShared`, `MalformedDrops` | plugin and native twin differ on exponents, missing keys, malformed payloads | `tests/native_threshold_filter.rs`, `orchestrator/launcher.rs:510` |
| `JsonParse!NativeMatchesPlugin` | the native node emits the temperature only (`node/native/mod.rs:487`) | `node/native/mod.rs:64` |
| `ContentRouter!EdgesDeclared` | ports are compared with edges at launch only (`orchestrator/launcher.rs:221`) | `launcher.rs:219` |
| `ResultFormat!IndexNamed` | an index beyond the labels prints as unknown (`plugins/result-format/src/lib.rs:86`) | `lib.rs:82` |
| `AnomalyDetector!FirstIsNormal` | without warm-up the first value is critical (`plugins/anomaly-detector/src/lib.rs:61`) | the comment at `lib.rs:62` |

Of the plugins five more are inside the properties that the `guests` run
checks, each with the inputs it is confined to: the threshold filter and the
router find their key as another member's value and judge by the member after
it (`Held`, `RoutedBy`; `plugins/threshold-filter/src/lib.rs:119`,
`plugins/content-router/src/lib.rs:126`); json-parse lets unknown escapes and
raw control characters through (`AcceptsExactlyJson`;
`plugins/json-parse/src/lib.rs:232`) and emits characters beyond ASCII byte by
byte (`OutputIsTheDocument`; `lib.rs:243`); result-format prints 0.99996 as 0.1
(`PrintedClose`; `plugins/result-format/src/lib.rs:147`); and the native filter
cuts an exponent off its number (`NativeVerdictExact`;
`node/native/mod.rs:469`).

## 7. Plan

Done: the node runner, the replacement protocol with its API and the abstract
service it implements, the pipeline run; adapters, registry, compile cache with
its abstract specification, launcher and configuration checks, process, node
lifecycle, outbound HTTP, bench nodes, load generator, six plugins; proofs of
type correctness, conservation, registry, rollback, payload ownership, the
mutation guard, the API's answers, failure reporting, the dead letters,
delivery on success, the process's report, the guest's containment, the plugin
cache, the launch, outbound HTTP, the bench source, the sequence accounting, the subscriber's shutdown, the publisher's
report, trace and population, the sources and sinks, and of both refinements.

Open, in this order:

1. An abstract node (what `Pipeline` assumes of a Wasm task) and `NodeRunner`
   shown to implement it.

## 8. Not modelled

- Read-only routes, metrics text and the web server: reads of atomics and
  formatting.
- Compilation, linking and the host bindings: Wasmtime's, or generated glue.
- `waferctl`: a stateless client of the API. The plugin SDK: macros; a guest
  is arbitrary in the models.
- The plugins for quality rules, tensor preparation, vibration features,
  inference and delay injection: range checks, floating-point numerics and an
  external runtime. Of the native baselines only those with a Wasm twin that
  makes a claim.
- Histograms, the measurement-window files, hashes, file layouts, log lines and
  the DLQ's writers: data no property tells apart.
- What `rumqttc` keeps inside one of its polls: it is modelled from its use.
- The evaluation harness and its scripts are not part of the program.
