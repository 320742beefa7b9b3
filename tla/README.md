# doppler: models, checks and proofs

doppler is a statsd server derived from the Datadog agent: it receives metrics,
events and service checks over UDP, exports the samples as Prometheus
collectors and forwards events and other payloads to HTTP backends. The
repository also holds the agent's other parts: the check collector,
autodiscovery, the cluster agent's check dispatcher, the logs agent, the tagger.
This directory holds TLA+ models of the concurrent cores of these parts, the TLC
configurations that check them on small instances, and TLAPS proofs that hold
for every instance.

## 1. The system

`server/main.go` is the running program. `runAgent` starts, in this order, the
health probe, the `DefaultForwarder`, the serializer, the metadata scheduler,
the tagger (if origins are detected), the aggregator and the statsd server;
`stopAgent` stops the metadata scheduler and the server. It never stops the
forwarder or the aggregator; their `Stop` methods are modelled because the
packages offer and test them. Autodiscovery, the collector, the cluster agent
and the logs agent are libraries here, modelled as their own code and tests use
them.

```
UDP socket -> listener -> packetBuffer -> packetsBuffer -> packet channel
   -> [forwarder goroutine -> second channel] -> workers -> batchers
   -> aggregator channels -> aggregator -> exporter (samples, service checks)
                                        -> serializer (events)
   serializer -> DefaultForwarder -> domainForwarder -> workers -> HTTP backend
                                      ^  retry queue, circuit breaker  |
                                      +--------------------------------+
config providers, kubelet listener -> AutoConfig -> MetaScheduler
   -> collector: scheduler -> runner -> checks -> senders -> check samplers -> aggregator
   -> cluster check dispatcher <-> node agents
   files -> tailers -> processor -> sender -> intake;  sender -> auditor -> registry.json
container runtimes -> tag collectors -> tag store <- callers of Tag
```

| Component | State | Operations | What is hard | What makes it correct |
|---|---|---|---|---|
| UDP listener, packet buffers (`agent/udp.go`, `packet_buffer.go`, `packets_buffer.go`) | the packet being filled and its length, the group being filled, two mutexes, a bounded channel | read, merge, overflow, two tickers, flush, close | three goroutines flush two nested buffers; a send that blocks with both mutexes held; shutdown | each datagram once and in order, groups sent whole, a lone datagram gets through, Stop returns |
| Server (`agent/server.go`) | stopChan, channels | worker, forwarder, parsePackets, Stop | who leaves first at Stop | all messages of a packet parsed |
| Batcher, sample pool (`agent/batch.go`, `metrics/metric_sample_pool.go`) | the array being filled and its count, slices of events and checks, a `sync.Pool` | append, flush, GetBatch, PutBatch | arrays handed over and reused while others still refer to them | one owner per array, every sample exported once, nothing kept when idle |
| Aggregator main loop (`aggregator/aggregator.go`) | buffered channels, buffered events, check samplers | run, addSample, addEvent, addServiceCheck, handleSenderSample, handleSenderBucket, flush, Stop | flush goroutines that overlap; Stop's last flush | events taken by one flush, delivery |
| Senders, check samplers (`aggregator/sender.go`, `check_sampler.go`, `context_resolver.go`) | metrics, sketches and contexts per check, last bucket values | sample, bucket, commit, flush, expire | two channels without an order between them; contexts that expire while they are used | counts and increases conserved, no sketch without its context |
| Prometheus exporter (`exporter`) | cache of collectors, registry | load, register, export, expire | an expiry racing a lookup; two keys sharing one collector | a collector in use is registered and has the right labels |
| Domain forwarder (`forwarder/domain_forwarder.go`, `worker.go`, `blocked_endpoints.go`) | three channels, the retry queue, the error count and block of each endpoint | submit, process, requeue, retry, block, recover, Stop, purge | never blocks, so it drops; retries racing new work; stopping workers in the middle of a request | each transaction in one place or ended once; oldest dropped; Stop returns |
| DefaultForwarder (`forwarder/forwarder.go`, `transaction.go`) | state, forwarders per domain | Submit*, Start, Stop | the unlocked state check | a submission is refused or taken |
| Cluster checks, cluster agent (`clusteragent/clusterchecks`) | clusterStore: nodes, digests, dangling configurations; leadership | schedule, unschedule, dispatch, expire, move, reset, follow the leader | store locked per call, so operations interleave; nodes vanish; leadership changes | every loaded configuration on one live node |
| Cluster checks, node agent (`autodiscovery/providers/clusterchecks.go`) | last change, heartbeat, flushed | status report, pull, grace period | lost requests and replies, timestamps of one second | a node said to be up to date is |
| Autodiscovery (`autodiscovery`) | store with five indexes, template cache, poller and listener state | poll, service new / removed / tag change, resolve, Stop | two goroutines come from two sides without a common lock | no match missed, what is scheduled can be found to be unscheduled |
| Collector (`collector`) | checks, job queues, pending channel, running checks, statistics | RunCheck, StopCheck, Stop, scheduler loop, workers | two mutexes and three kinds of goroutines; stop during a run | a check runs in one place, periodic checks keep running, Stop returns |
| Logs agent (`logs`) | tailers, pipeline channels, registry in memory and on disk | scan, tail, process, batch, send, commit, flush, start, stop | rotation and truncation, retries, crash between delivery and commit | nothing read is lost, nothing committed before it is settled |
| Tagger (`tagger`) | collectors by kind, tag store and cache, a RWMutex, a bounded channel | detect, stream, pull, prune, Tag, Stop | everyone shares one channel and one lock; overlapping detections | cached tags agree with the store, collectors start, Stop returns |
| Serializer, splitting | none | build and split payloads | sizes | no payload over the limit |
| Metric mapper | an LRU cache | map | - | cached = computed |
| Health catalog (`status/health`) | components with their ping channels | register, deregister, ping loop | deregistration during a ping | a live component is healthy |
| Parsing, metric types, sketches, configuration, API, telemetry, metadata, python and core checks, deployment | - | sequential code or glue | - | - |

`PROJECT.json` lists every component with its status, and the hazards with their
lines and the properties aimed at them.

## 2. The modules

| Module | Models | Proofs |
|---|---|---|
| `PacketIntake` | from the socket to the parsed message | `PacketIntakeProofs` |
| `SampleBatching` | from the parsed message to exporter and serializer | `SampleBatchingProofs` |
| `DomainForwarder` | from a submission to the HTTP backend | `DomainForwarderProofs` |
| `PromExporter` | collector cache and Prometheus registry | `MetricsProofs` |
| `CheckSampling` | from a check's sender through the aggregator to a flush | `MetricsProofs` |
| `CheckCollector` | scheduler and runner of the checks | `ChecksProofs` |
| `Autodiscovery` | templates, services and what is scheduled of them | `ChecksProofs` |
| `ClusterDispatch` | the cluster agent's dispatcher under a changing leadership | `ClusterDispatchProofs` |
| `NodeSync` | one node agent against its entry in the cluster agent's store | `StoresProofs` |
| `LogsAgent` | from a rotated file to the intake, with the auditor's offsets | `LogsAgentProofs` |
| `Checkpoint` | what the offsets promise: the abstract specification `LogsAgent` implements | |
| `Tagger` | collectors, tag store and callers | `StoresProofs` |
| `MC...` | instances for TLC: sizes, types and targets of the small inputs | |

Every goroutine has a program counter, or a variable that says where it is; a
step is the code between two points where it can block or where another
goroutine can see a difference. Mutexes are variables only where a goroutine
blocks while it holds one. A channel is a sequence with a capacity; a `select`
is a disjunction whose branches are enabled as the channels are. An operator
marked "Mutant" is a plausible mistake in the operator that follows it; no
specification uses it.

Three proof modules treat two models each, those of what becomes of a metric
(`MetricsProofs`), of the checks to run (`ChecksProofs`) and of the stores that
follow others (`StoresProofs`). They extend both models, so the specification of
one of the two has a prefix: `ExporterSpec`, `CollectorSpec` and `SyncSpec` with
`...Init`, `...Next`, `...TypeOK` and `...IInv` where the other modules say
`Spec`, `Init` and so on. The two models share no variable and no theorem is
about both.

The modules meet at what they hand over: `PacketIntake` ends where
`SampleBatching` begins (a group of packets taken by a worker), `CheckCollector`
runs what `CheckSampling` calls a run, `Autodiscovery` and `ClusterDispatch`
are the two ends of the MetaScheduler, and the assignments of `ClusterDispatch`
are the input of `NodeSync`.

### PacketIntake

`ReadFrom` and `AddMessage` are `Listen` and `addMessage` with its three
branches (`StartPacket`, `MergeMessage`, `OverflowPacket`); `FitsBehind` is its
bounds check, with the separator byte. A flush of the packet takes the second
mutex and appends (`AppendPacket`), and, when the group is full, sends with both
mutexes held (`SendPackets`). `PacketLoop` and `PacketsLoop` are the two ticker
goroutines. `Forwarder` is the optional goroutine between two channels.
`ParsePackets` stands for `parsePackets` and `nextMessage`: which datagrams of a
packet the parser gets to (`ParsedPositions`), given that an empty line ends the
packet. `Stop`, `ClosePacketBuffer`, `ClosePacketsBuffer` and `CloseConn` are
`Server.Stop` and what it calls, in the code's order. Nothing returns a packet
to the packet pool in this code, so a fresh packet is an empty sequence.

A datagram is an identity with a length and a flag (`Blank`) for an empty line
in it, at its front, inside or at its end: `nextMessage` returns nil on any.
The messages that a datagram itself has behind its empty line are lost too,
merged or not; the model counts a datagram as parsed when the parser gets to it.

### SampleBatching

A worker receives a group, parses message by message (`ParseMessage`), appends
(`AppendSample`), flushes a full array (`FlushFull`) and everything at the end
of the group (`EndOfPackets`, `FlushEvents`, `FlushServiceChecks`). Arrays are
shared memory (`memory`); a slice is a reference with a length, so that a reused
array would show if two owners could meet. `GetBatch`, `PutBatch` and `Collect`
(the garbage collector emptying the `sync.Pool`, external) are the pool. The
aggregator exports sample by sample (`AddSample`), buffers events, and takes
them at a flush (`TakeEvents`) into payloads that goroutines send concurrently
(`SendEvents`, which the serializer may refuse). `StopAggregator` and
`LastFlush` are its `Stop` with and without a timeout.

### DomainForwarder

A transaction is its place in the order of creation, with a target endpoint.
`Submit` is the unlocked state check, `SendHTTPTransaction` the later send that
never blocks. `TakeHighPrio`, `NothingNew` and `TakeLowPrio` are the two selects
of `Worker.Start`; `Check`, `Succeed`, `Refuse`, `Cancel`, `Fail` and `Requeue`
are `process` and the ways `HTTPTransaction.Process` ends. Refusals (400, 403,
404, 413, an invalid URL) and cancellation return nil and count as a success for
the breaker. `CloseEndpoint` and `RecoverEndpoint` are `close` and `recover` of
`blockedEndpoints`; a success that leaves errors counted blocks the endpoint
anew, as in the code. `RequeueTransaction`, `StartRetry`, `RetryTransaction` and
`FinishRetry` are the retry goroutine, one transaction per step, newest first. A
tick with an empty queue changes nothing and is not a step. `Stop`, `StopRetry`,
`StopWorker`, `ReceiveStop`, `Join`, `PurgeEnds`, `CloseChannels` and
`StopTimeout` are the two `Stop` methods. During the purge the stopping
goroutine runs `process` itself.

Time is abstracted: a block has run out or not, and may run out at any moment
(`BlockExpires`). A stopped `DefaultForwarder` cannot be used again (its health
checker is nil and it has forgotten its domains), so there is one start and one
stop.

### PromExporter

`Hit` and `Miss` are the lookup of `loadMetric`; `Register`,
`AlreadyRegistered` and `LoadFails` the three results of registering a new
collector, `Put` its way into the cache. `Expire` is the external cache,
`onRemoval` its listener, which runs later and unregisters by name. `LabelNames`
adds the label of a request (`apiname`), `GenerateKey` is the cache's key. The
label names stand in the order of the raw tags: `NewPromSample` sorts these
before it normalises the names, so one set of names may come in two orders.
`Refused` is the registry, which compares the sorted names of a new collector
with those its name has had (`dims`) and refuses one name twice; another order
of the same names is `AlreadyRegistered`, and the first collector is handed out
for it. `removals` counts the calls of the listener to come, one per entry that
expired, also when two keys shared a collector.
`tainted` names the collectors that had an entry expire and are still in use:
only for those may a sample go to a collector that is no longer exposed.

### CheckSampling

A run is `GetSender`, any number of `sendMetricSample` and `HistogramBucket`,
and `Commit`, or `FailRun` without it. `handleSenderSample`,
`handleSenderBucket` and `flush` are the aggregator's loop; `addSample`,
`addBucket`, `commit` (series, sketches of past seconds, expiry of contexts) and
`flushSampler` are the check sampler, `addMonotonic` and `flushMonotonic` the
monotonic count. `DestroySender` has no caller in the repository; it is an
action because its package offers it. The history `due` adds up what a sampler
was given, with integers in place of floats; `plain` in it says that a bucket
has only grown, in steps of at most the interpolation's granularity, since the
sampler knows it. Of the interpolation of a bucket only the number of values
matters, so the case of an infinite upper bound, which chooses where they lie,
is left out, and so are the discards of negative values and ranges and the
buckets that are not monotonic: no property is about them. `TimeSampler` is not
in the model: its only call, in `addSample` of the aggregator, is commented out.

### CheckCollector

The caller (`RunPeriodic`, `RunOneTime`, `StopCheck`, `CollectorStop`) is serialised by
the MetaScheduler. `Tick`, `Look`, `BucketDone` and `SendPeriodic` are a job
queue, which looks up every check under the scheduler's mutex before it sends
it; `SendOneTime` and `CancelOneTime` the goroutine of a one-time check.
`Skip`, `Begin`, `RunReturns`, `Remove`, `Publish`, `ReadScheduled` and
`addWorkStats` are a worker. `stopQueues` and `StopQueue` are the scheduler's
main loop when it is stopped; it keeps the mutex the queue may be waiting for.
`RunPeriodic` and `RunOneTime` end with the entry in `Collector.checks`, which
only the serialised caller reads; the workers' view of a check begins with the
scheduler's entry. `ReloadCheck` has no caller.

### Autodiscovery

Every call of `AutoConfig` that locks the store is an action: `collect`,
`getConfigsForTemplate`, `removeConfigsForTemplate`, `Del`, `Set`,
`getServiceEntitiesForADID`, `Resolve` and so on for `"poller"`;
`setServiceForEntity`, `TagService`, `setADIDForServices`, `Get`,
`ScheduleResolved`, `removeServiceForEntity` and so on for `"listening"`.

A template has a kind: whether it configures a check or only logs, whether its
text names the service it is resolved for (`"own"`) or reads the same for all,
the services whose check names override it, and where its secrets are.
`Resolvable` is what `Resolve` decides from them and from the readiness of the
service; `ResolveError` is a template variable, an environment variable or the
tags that cannot be had. A resolved configuration is the template, the service,
the goroutine that resolved it and what became of its secrets. `Digest` is
`Config.Digest`, which has neither entity nor tags; `loadedConfigs`, the poller's
deduplication and the schedulers go by it. `scheduled` is what the schedulers
were told to run and not to stop since, by digest, and `logServices` the
services the logs scheduler was told of, by entity.

`decryptConfig` is called by the poller only, on what it resolved
(`processNewConfig`); a service that comes second gets its configurations as
they are written, as in the code. Instances are decrypted where they are: the
slice is shared with the copies in the indexes and in the other goroutine's
hand (`OverAll`), and a failed decryption leaves them overwritten
(`"broken"`). Other secrets (`init_config`, metrics, logs) change in the
scheduled copy alone (`OverOne`). That rewriting is a data race in the code; the
model takes it as one step. After an error the configuration is dropped,
although it is indexed.

The kubelet listener with its pod watcher (`PullChanges`, `Expire`) hands
services over on unbuffered channels; `RetryTick` and `initListenerCandidates`
are the goroutine that starts it; `Stop`, `StopListening`, `StopRetry` and
`StopListener` are `AutoConfig.Stop`. The poller outlives Stop, as in the code,
where `configPoller.stop` returns for a poller that polls. The MetaScheduler's
own `Stop`, called in between, is not tracked; the map of services of an
identifier, which the code returns live, is read at once.

### ClusterDispatch

The store is locked per call, so `ScheduleStart` chooses a node and
`ScheduleEnd` adds the configuration later, when the node may be gone;
`AddStart` and `AddEnd` are the same for the loop, `MoveRemove` and `MoveAdd`
for a move. `expireNodes`, `retrieveAndClearDangling`, `rebalance` and `reset`
are the loop of `dispatcher.run`; `updateLeaderIP`, `Receive`, `StartDispatch`
and `RemoveScheduler` the Handler. A tick is a time in which every running node
agent reports once. `rebalance` may move any check: the weights it compares are
not modelled, nor is the busyness by which `getLeastBusyNode` chooses in
advanced dispatching. `processNodeStatus` takes the store's lock to find the node
and then the node's: one step here; an expiry in between would lose the report,
as if the node agent had not reported yet.
`ZeroConfig` is the digest of the zero configuration, which a move
of a check that was unscheduled meanwhile adds.

### NodeSync

One node agent: `IsUpToDate` is the poll with its reply (`StatusReply`) or
error (`StatusError`, within and after the grace period), `Collect` and
`CollectError` the pull that follows. On the other side `Assign`, `Unassign`,
`expireNodes`, `reset`, `BecomeLeader`, `WarmupDone` and `LoseLeadership`.
Timestamps are compared by their second, and only for equality, so one is
`never`, `now` or `past`. `Deceived` names the two ways in which the cluster
agent may call a node up to date that is not.

### LogsAgent and Checkpoint

A line is a file's generation and its number. A file is moved away and created
anew (`MoveAway`, `Create`), or truncated in place (`Truncate`), which begins
another generation of the same file. `scan` starts, stops and restarts tailers;
`DidRotate` looks for another file under the path, a closed descriptor, and a
file shorter than what was read. `Read`, `BuildMessage`, `Output`, `GiveUp`,
`Done` and `CloseTimeout` are a tailer, which numbers a line before its send
blocks; `ReadOn` is one whose file was truncated and has grown beyond its
offset before the scanner looked. `Process`, `Receive`, `FlushTimer`,
`SendAnswered`, `SendRetried`, `SendCanceled` and `Forward` are the pipeline,
`updateRegistry`, `flushRegistry` (which may fail and leave the old file or one
that cannot be parsed) and `cleanupRegistry` the auditor. `InputsStopped` to
`AuditorStopped` are the ordered stop; the last write of the registry may fail,
which the code only logs. `Crash`, `ForceQuit` and `Panic` end the process at
any point, and `Start` begins with the registry on disk. `Panic` is a tailer of
a rotated file that sends on the closed channel. `taken` are the lines the
tailers of this process have read and not given up.

Left out: a new file that cannot be opened after a rotation (the scanner drops
the old tailer and finds the file in its next scan), and a `ReadOn` while the
decoder still holds lines of the old content, where the offsets of both would
mix.

`Checkpoint` says what the offsets promise: a position is committed only when
every line up to it is past, what is saved was committed, and a restart begins
with what was saved or with nothing; a failed write may spoil what was saved.
`Checkpointed` states that `LogsAgent`
implements it with `past <- settled \cup skipped`, `offset <- registry` and
`saved <- disk`: `settled` are the lines delivered, refused, excluded or too
long, `skipped` those a tailer started beyond (from the end of a file, or from
an offset that belonged to an older file under the same path).

### Tagger

`ReceiveInfo`, `RetryTick`, `PullTick`, `prune` and `Stop` are the select of
`run`; `TryRLock`, `tryCollectors` and `registerCollectors` a detection, of
which several may overlap; `processEvent` and `StreamSend` a stream; `PullRLock`
to `PullEnd` a pull, where the list may be unavailable (`PullError`); `lookup`
to `TagEnd` a call of `Tag` with its fetches. The read lock is the set
`readers`, and a detection waiting to write keeps new readers out, as Go's
RWMutex does. What the tags are does not matter: an entry is there, known to be
none (a cache miss), or not asked for.

Simplified: a stream subscribes when its collector is registered, not a moment
later in its goroutine; one pull runs at a time, where the code starts a
goroutine per tick; collectors that only fetch, the error of `Expire` (the
deletions come with a later pull) and empty messages of deletions are left out.

## 3. Runs

| Run | Instance | Shows |
|---|---|---|
| `PacketIntake` | 3 datagrams of lengths 0, 1 and 3, that of length 1 with an empty line, a buffer of 4, groups of 2, channels of 1, forwarding, 1 worker | `GroupsWhole`: groups sent whole and once, the packet being flushed left alone; `IntakeExact`: bytes, copies and order through all flushes; `SkippedBehindBlank`: only an empty line hides what follows; `EventuallyParsed`; `StopReturnsUnlessFull` |
| `SampleBatching` | 5 messages of all types in 2 groups, arrays of 2, channels of 1, 2 workers, 3 arrays | `ExclusiveArrays`; `SamplesExact`: each sample once, in order; `EventsSentOnce`; `Delivery` |
| `DomainForwarder` | 2 transactions to 2 endpoints, 2 workers, channels and retry queue of 1 | `OnePlace`, `LimitDropsOldest`, `PurgeServesEarly`, `StopTerminates`, `NewOnesServed` |
| `DomainForwarderSubmit` | 1 transaction, 1 worker | violation: `SubmitNeverPanics` |
| `PromExporter` | 6 samples: one name as two types and with two sets of labels, one of them in two orders, a request, a repeated label; 4 collectors | `LabelsAgree`: the labels of the sample, in its order if there is one order; `RegistryFollowsCache`: exposed unless expired, nothing left registered |
| `CheckSampling` | 1 check, 3 sends with values 0, 1, 3, 3 seconds, 1 fault | `SeriesExact`: counts and increases conserved; `SketchesExact`: buckets counted once, sketches named; `EventuallyFlushed` |
| `CheckCollector` | 1 periodic and 1 one-time check, 1 worker to start with, 5 calls | `RunsApart`: one run at a time, statistics of known checks; `NoSendOnClosed`; `PeriodicKeepRunning`; `StoppedAtLast`: a check off the books ends, also one whose Stop timed out; `CollectorStopReturns` |
| `Autodiscovery` | 1 template of four kinds (plain, overridden, secrets in instances, secrets elsewhere), 1 service, 2 sets of tags, 2 changes of the world or errors | `NoMatchMissed`: what can be resolved is scheduled; `IndexesSound`: what is scheduled can be found by its digest; `EventuallyUnscheduled`; `StopReturnsUnlessStuck` |
| `ClusterDispatch` | 2 node agents, 1 configuration and the zero one, 2 changes of the leader | `StoreConsistent`: the indexes agree; `NothingForgotten`; `FollowsLeadership` |
| `NodeSync` | 2 configurations, expiration 1, grace 2, 4 lost requests or replies | `NodeInSync`: up to date means in sync unless deceived; `FollowsAssignment` |
| `LogsAgent` | 2 generations, 2 lines, 2 tailers, 1 fault, channels of 1, batches of 2 | `LinesKept`: no line passed over by a tailer, the pipeline or an offset; `OrderedStopDrains`: what was read is settled; `Checkpointed` (the refinement); `LatestFileSettled`: also after a truncation |
| `Tagger` | 1 entity, a stream and a puller, 2 overlapping detections, 1 caller, a channel of 1, 2 changes, 1 retry | `TagsSound`: cache and store agree, announced tags stay; `CollectorsStarted`; `StopReturnsUnlessStuck` |

Properties with several named parts are conjunctions (`IntakeExact ==
PacketExact /\ ExactlyOnce /\ InArrivalOrder`), and one of them may include
`TypeOK`; where none does, `TypeOK` is a theorem.

Deadlock is checked in `ClusterDispatch`, `NodeSync`, `LogsAgent` and
`CheckSampling`, where time or a restart always goes on. In the other runs
inputs are finite or a stopped system stays stopped.

### Bounds

- `Datagrams`, `Messages`, `Input`, `TransactionLimit`, `MaxSends`, `MaxCalls`,
  `MaxChanges`, `MaxWrites`, `MaxSerial` bound what arrives; `MaxFaults`,
  `MaxFlips` and `MaxRetries` what goes wrong. Channels and groups have one or
  two slots (the defaults are 1024 and 32 in the intake and 100 in aggregator
  and forwarder), so that two or three items already fill every buffer, block a
  sender and leave one behind it.
- A buffer of 4 bytes with lengths 0, 1 and 3 takes every branch of
  `addMessage`: behind an empty one 3 fits, behind 1 it would fit only without
  the separator, and an empty datagram leaves an empty line. A group of 2 is
  sent full or, by a ticker, partly filled.
- `Arrays = 3`: one each for two workers and one on its way, so that arrays are
  reused; in the model reuse from the pool and allocation of an unused array are
  both possible, and a worker that finds none waits for one.
- Two workers, two overlapping detections, two node agents are what it takes for
  two of them to race; further ones are symmetric. With two endpoints a blocked
  and an unblocked one meet in one retry.
- `MaxErrors = 2` and `RecoveryInterval = 1` let an endpoint reach the cap and
  recover in two successes, with a renewed block in between.
- Two generations and two tailers: the old file is still read while the new one
  is; an offset of the old is applied to the new; a file is truncated under its
  tailer. One fault is one crash, read or write error, expired entry or grace
  period, at any point. Read errors are of the second generation
  (`ErrorGens`), where a failed tailer meets a rotated one.
- Expiry times of one tick, a grace period of two and three seconds of clock are
  each crossed in both directions; the values 0, 1 and 3 of a counter or bucket
  rise by less and by more than the granularity 2, fall, and stay.
- Two changes of the world, with a template that is there or not and a service
  that is gone, unready or ready at the start, let each come or go around the
  other, tags change and a resolution or decryption fail. The listener that has
  to be retried is combined with the plain kind only (`MCInit`): retry and
  secrets have no variable in common. With one service no two configurations
  share a digest; templates that read the same for all services are covered by
  the proofs. Two flips: a leader that is lost and won again.

### Fairness

Goroutines that can run do run (`WF`). `SF` is assumed where the Go runtime
gives it: a `sync.Mutex` goes to a waiter that has waited long enough
(starvation mode), a `select` picks among the ready cases at random, a ticker
keeps firing, and senders blocked on a channel are served in order. Nothing is
assumed of the environment: no datagram has to arrive, nobody has to call Stop,
the serializer and the backend may refuse everything; a request does end, if
only by the client's `forwarder_timeout`. Beyond that:

- `ClusterDispatch`: running node agents report, the cleanup ticker fires. The
  warm-up is assumed to outlast what a cancelled `runDispatch` still has to do;
  nothing in the code waits for it. Loading, rebalancing, changes of the leader
  and the end of a node agent need not happen.
- `NodeSync`: the node agent polls, the dispatcher keeps its timers. Losses are
  bounded, which is what "eventually gets an answer" needs.
- `CheckCollector`: the `Run` of a periodic check returns, that of a one-time
  check once it is told to stop.
- `CheckSampling`: the collector runs a check again and again.
- `LogsAgent`: only `WF(Progress)`: some goroutine that can go on does, and the
  intake answers in the end. Files, faults and restarts are free.
- `Tagger`: a detection that may be retried does not ask for it for ever.
- `PromExporter` has no liveness.

### What the exceptions and the violation name

A property that says "unless" names in a definition the states in which the code
does not have it; each is a state TLC reaches. That the four ways in which a
Stop gets stuck are deadlocks, from which no step of anybody leads on, is proved
(section 4).

- `StuckOnFullChannel` (`PacketIntake`): `Server.Stop` closes `stopChan` first.
  If the readers leave while a flush is blocked on the full packet channel, with
  the packet buffer's mutex held, `packetBuffer.close` waits for ever. So it is
  when the forwarder, the only reader, is itself blocked on the second channel
  after the workers have left (`ForwarderStuck`).
- `SkippedBehindBlank`: a datagram with an empty line anywhere (a newline at its
  end makes one together with the separator), or an empty one, ends the parsing
  of the packet it was merged into.
- `CollectorStopStuck` (`CheckCollector`): `stopQueues` keeps the scheduler's mutex while
  it waits for a queue that waits for the mutex in `IsCheckScheduled`.
- `StopStuck` (`Autodiscovery`): `AutoConfig.Stop` holds its mutex while the
  retry goroutine wants it, or stops a listener that is handing a service to a
  goroutine that has ended.
- `StuckOnLock`, `StuckOnStream` (`Tagger`): after Stop nobody empties the
  channel that a holder of the read lock, or a stream to be stopped, is sending
  on; a stream that found its subscription taken takes no stop at all.
- `Deceived` (`NodeSync`): two changes in the second of one pull; or replies lost
  until the node agent flushed while its reports kept it from expiring.
- `tainted` (`PromExporter`): an entry expired, the name is in use again before
  the listener has run, and is unregistered under its user.
- `OneOrder` (`PromExporter`): a name sent with the same labels in two orders
  has its values recorded under the wrong labels.
- `failed` and `kind[t].text` (`Autodiscovery`): a resolution or decryption that
  failed is not tried again until the template or the service changes; and when
  a template reads the same for several services, the removal of one of them
  unschedules the digest they share.
- `Unknown` (`Autodiscovery`): a secret outside the instances is decrypted in
  the scheduled copy alone. The store has another digest of it, so that copy is
  never unscheduled.
- `skipped` (`LogsAgent`): the registry is keyed by the path, so the offset of an
  old file may be applied to a new one; and a configured source starts at the
  end of its file when there is no registered offset, also because the registry
  could not be read. `Unnoticed`: a truncated file that has grown to exactly the
  offset read looks like the old one. The tailers in `OrderedStopDrains`: those of
  a rotated or removed file are forgotten by the scanner and not waited for.
- `DomainForwarderSubmit`: `DefaultForwarder.sendHTTPTransactions` looks at the
  state without the mutex; a `Stop` in between closes the channel, or empties the
  map, and the caller panics where the test expects an error.

Facts the models make visible and no run is about: a retry that finds `lowPrio`
full drops newer transactions than the blocked ones it keeps, while
`forwarder/README.md` describes dropping oldest first, at the limit of the retry
queue (`LimitDropsOldest` shows that drops at the limit do follow it); a
transaction dropped because the requeue channel is full is logged and not
counted; the comment at `logs/input/file/scanner.go:62` says that `Stop` returns
only when all tailers are stopped, and it does not wait for those of rotated
files; the condition in `configPoller.stop` (`autodiscovery/config_poller.go:52`)
leaves a poller that polls running; `calculateAvg`
(`dispatcher_rebalance.go:44`) assigns where it should add; a one-time check
cancelled before a worker has it runs all the same
(`collector/scheduler/scheduler.go:250`).

Hazards outside the models: the metric mapper is assigned after the workers have
started (`agent/server.go:205`, a data race on one pointer);
`getLoadedConfigs` and `getServiceEntitiesForADID` return live maps
(`autodiscovery/store.go:127`); the hash of a service's tags is taken after the
tags were merged, so a change in between is masked (`autoconfig.go:539`);
`maxErrors` is zero or less when `forwarder_backoff_max` is below
`forwarder_backoff_base` (`blocked_endpoints.go:75`; the theorems hold for zero);
a name whose label names changed is refused by the registry for ever
(`exporter.go:116`).

## 4. Proofs

All proofs are for every value of the constants that satisfies the module's
assumption, which TLC evaluates on every run:

- capacities, batch sizes, expirations and grace periods at least 1, other
  bounds natural numbers, datagram lengths within the buffer;
- names of goroutines distinct, at least one forwarder worker and finitely many
  (the forwarder starts `NumberOfWorkers` of them in a loop);
- the messages of `SampleBatching` are identities, so each comes once in the
  input; two equal messages on the wire are two identities; the content of an
  element that was never written is no sample;
- one-time and periodic checks are different checks (`Interval() == 0` or not);
  the zero configuration is none of the loaded ones.

The limit of the error count may be 0, which is what `newBlockedEndpoints`
computes when `forwarder_backoff_max` is below `forwarder_backoff_base` (a
negative limit has the same effect, an endpoint that is never blocked, and is
not distinguished).

| Theorem | States | Along which argument |
|---|---|---|
| `PacketIntakeProofs!TypeCorrect` | `TypeOK`; so `addMessage` never writes outside the buffer | part of the invariant below |
| `PacketIntakeProofs!GroupsKept` | `GroupsWhole` | A full group is only ever seen by its sender. That is inductive only with `Locking`, which ties each mutex to the program counter of its holder, and `WholeUnderMutex`, which says the same of the holder of the packetsBuffer's mutex: without them a state with a full group and a free mutex could take another append, and the listener could write to a packet that is being sent. |
| `PacketIntakeProofs!IntakeKeepsAll` | `IntakeExact` | `IntakeStages`: the stages of the intake (the workers' channel, the forwarder's group, the packetsBuffer's channel, `packets`, the pending packet, the message) are in order of arrival, each in itself and one behind the other; what waits, what a worker has in hand and what the parser saw are apart and together are what was read. `Pending` is the point: a packet being sent is already in `packets`. The order is strict, so no datagram has two places. The byte count needs `HandsEmpty` (a packet with datagrams has bytes) and what `PacketBytes` computes for a packet with one more datagram, by induction: the set of lengths for which a function satisfies its equation has no least gap (`LeastNumber`, from the well-foundedness of `<`). |
| `PacketIntakeProofs!SkipsExplained` | `SkippedBehindBlank` | `SkippedLate`, from the order within each packet. |
| `PacketIntakeProofs!StuckForGood` | from `StuckOnFullChannel` on, a flush stays in its send | The readers of the full channel have ended or, for the forwarder, are blocked on a channel whose readers have, so nobody makes room, and a goroutine that sends or has ended takes no other step. |
| `SampleBatchingProofs!TypeCorrect` | `TypeOK`; so `appendSample` never indexes outside its array | |
| `SampleBatchingProofs!ArraysExclusive` | `ExclusiveArrays` | Ownership moves from batcher to channel to aggregator to pool and never forks. Needs `WholeSlices`: a slice outside the channel has its full length (so two pool entries with one array would be equal), and the aggregator holds one exactly while it exports. |
| `SampleBatchingProofs!WorkersLeaveNothing` | `NothingLeftBehind` | `Flushing` says, for each point of the worker, which parts of the batcher are already empty. |
| `SampleBatchingProofs!EventsOnTheWay` | `EventsSentOnce` | Instead of counting, `EventStages` says that the stages of an event (unread groups, a worker's group, a batcher, the channel, the aggregator's buffer, a payload, sent, failed) hold nothing twice, are disjoint, and together hold every event. The lemmas on families of sequences say what a tail, an append and an update of one member do to "nothing twice" and to the set of elements. |
| `SampleBatchingProofs!SamplesOnTheWay` | `SamplesExact` | `SampleStages` lines the stages up: exported, being exported, queued, batched, staged, still to be parsed, each read through the arrays it is stored in. Within a stage and between the stages the samples of a group stand in the strict order `Precedes` of the input, which gives "once" and "in order" together; samples of different groups are of different workers. A write into an array disturbs no other stage by `ExclusiveArrays`. |
| `DomainForwarderProofs!TypeCorrect` | `TypeOK` | `Handling`: who processes has a transaction |
| `DomainForwarderProofs!BreakerSound` | `BlockedOnError` | inductive with the types |
| `DomainForwarderProofs!PurgeComplete` | `PurgeServesEarly` | The first purge leaves `highPrio` empty, and what was there at `Stop` never comes back: `Purging` says that no caller still has a transaction that is, or was, in the channel. `Handling` says that no worker has ended before the first purge and all have at the end, so that a purge has taken place (there is at least one worker). |
| `DomainForwarderProofs!NoneLostOrDoubled` | `OnePlace` | The places are added up: every step takes 1 from one place and gives 1 to another. Inductive with `EmptyHands` (a goroutine holds a transaction only while it processes) and `RetryPhases` (the retry goroutine's queues are in use one at a time), else a transaction could be overwritten. |
| `DomainForwarderProofs!OldestDropped` | `LimitDropsOldest` | `NewestFirst`: the retry goroutine goes through the sorted transactions from the newest on, so what is left to look at is older than all it keeps. |
| `MetricsProofs!LabelsSafe` | `LabelsAgree` | `WellKeyed`: a collector is cached, and handed over to the cache, under its own name and a key with the same labels, and none that the registry took has a label twice: so an equal set of label names means an equal number of them. |
| `MetricsProofs!RegistryAgrees` | `RegistryFollowsCache` | `LoadedExposed`: what is on its way to the cache is registered unless its name had an entry expire, and a name whose collector is still to be unregistered counts as such. |
| `MetricsProofs!SeriesAreExact` | `SeriesExact` | A commit takes only what has its context, and expires contexts afterwards: `SeriesTracked` says that what waits for a commit has one, and that a rise is there only when the commit would report it. `LastValueKept`: the last raw value of the counter is where the next sample looks for it, before and after a flush. `UnregisteredClean`: a sampler that is made anew has nothing due. |
| `MetricsProofs!SketchesAreExact` | `SketchesExact` | `LastBucketKept`: the remembered value is the last raw one as long as the bucket only grew. `BucketsInOrder`: buckets arrive by their seconds, so a sketch is never newer than the last sight of its context, and an expiry of the context comes after the commit of the sketch. What a commit takes is `valuesBefore` a second, for which the recursion over seconds is unfolded as for `PacketBytes` above. |
| `ChecksProofs!OneRunAtATime` | `RunsApart` | `RunsCounted` replaces the bound by an equation: a check runs once if it is in `runningChecks`, else not at all. The statistics need `StopSound`: a check that is being stopped is off the queue before `r.m` is taken, so a worker that adds statistics while the check is forgotten adds them to another. |
| `ChecksProofs!ClosedLast` | `NoSendOnClosed` | `StopOrder`: each step of `Stop` leaves one publisher less and none comes back. |
| `ChecksProofs!CollectorStuckForGood` | from `CollectorStopStuck` on, `Stop` never returns | `MutexKept`: the loop has the scheduler's mutex exactly while it waits for the queue. The queue can then neither look its check up nor take the stop, and no step of a caller, a one-time goroutine or a worker touches the three. |
| `ChecksProofs!NoMatchIsMissed` | `NoMatchMissed` | `MatchesKept` weakens the property to what holds between the calls: a match that can be resolved is scheduled, or on its way at the poller (up to its decryption) or at the listening goroutine, or its template is being removed. Whoever comes second must find the first: `ServiceStored` says that a known service is advertised unless its registration is at the call before. |
| `ChecksProofs!IndexesAreSound` | `IndexesSound` | `WithinReach` strengthens "is in an index" to "is in an index that nobody is about to drop, or in the hand of the one who will unschedule it"; the indexes are dropped in two calls, and what the other goroutine adds between them would be lost. It needs `NamesRight` (each index, and each hand that drops, has its own configurations only) and `ResolvedIndexed` (what is about to be scheduled is already in the index the goroutine itself would drop, with the text it will be scheduled with). `Lasting` is for the decryption, which rewrites configurations wherever they are: what is scheduled is held in place by a copy that no decryption will touch. The lemma `Decryption` says what becomes of the indexes and hands. |
| `ChecksProofs!StopStuckForGood` | from `StopStuck` on, `AutoConfig.Stop` never returns | `ListeningEnded`: Stop goes on from the listening goroutine only when that has ended, so nobody receives what a listener has in hand; the mutex stays with Stop. |
| `ClusterDispatchProofs!StoreSound` | `StoreConsistent` | inductive with `LoopSound`: a move is of one configuration to a node |
| `ClusterDispatchProofs!NoneForgotten` | `NothingForgotten` | With the two above: every step that takes a configuration out of the store puts it into the hands of the loop, and autodiscovery and the loop are registered together from the replay to the reset. |
| `StoresProofs!InSync` | `NodeInSync` | `SameSecondInSync` drops `listed` from the property (an expired node that polls again meets its old stamp), and `NeverIsEmpty` says what the zero stamp means on both sides. |
| `StoresProofs!StoreIsSound` | `TagsSound` | inductive with `AskedKnown` (a call of `Tag` past its lookup is about an entity) and `StopsRegistered`. The lemmas on `processTagInfo` say what a message of any sender does to one entry: a cache miss never replaces tags, and a change of an entry resets the computed tags. |
| `StoresProofs!TaggerStuckForGood` | from `StuckOnLock` before, or `StuckOnStream` at the stopping of the streams on, the tagger never ends | `StopsReading`: run stops the streams under the read lock, so no detection registers another. `GoesOn` says what a step of any other goroutine leaves alone; a sender on the full channel and a stream that has ended do not move, and nobody but run makes room. |
| `LogsAgentProofs!LinesNeverLost` | `LinesKept` | A chain along the pipeline: each message finds the lines up to its offset settled, further on, or before it in its own queue (`PipeOrdered`), and so does what a tailer holds (`TailersOrdered`); hence what reaches the auditor is settled (`AuditSettled`), and so is what it commits. `NothingDropped` is inductive over that: each step moves a line on, settles it or takes it out of `taken`. `NothingSkipped` follows from what is known of the generations: without a rotation every offset is of the file itself. `BufferHasRoom`: the sender receives only while its buffer has room. |
| `LogsAgentProofs!StopDrains` | `OrderedStopDrains` | `Drained`: what a step of the ordered stop leaves empty stays empty, since whoever could fill it has stopped. With the pipeline empty and the scanner's own tailer ended, `NothingDropped` leaves only settled lines and those of forgotten tailers. |
| `LogsAgentProofs!ImplementsCheckpoint` | `Checkpointed` | The refinement of `Checkpoint`, with `past <- Past`, `offset <- registry`, `saved <- disk`: one step per action. Commit maps to a commit of a covered position by `AuditSettled`, a save to a save, a failed write to a spoiled one or a stutter, a crash and a restart to their abstract steps, all others to a stutter or to a growth of `past`. |

In each module the inductive invariant is `IInv` (`IntakeStages`,
`EventStages`, `SampleStages` and `Accounted` are inductive relative to it); the
proofs show `Init => IInv`, `IInv /\ [Next]_vars => IInv'` with one lemma per
action or group of actions, and `IInv => ` each property. Every one of these
invariants was checked by TLC on the module's run before it was proved, and so
were the stuck states, as action properties.

Every safety invariant of the runs, and the refinement, is thus proved for all
instances. Only model-checked are the liveness properties, since fairness and
`ENABLED` are out of the prover's reach: `EventuallyParsed`,
`StopReturnsUnlessFull`, `Delivery`, `StopTerminates`, `NewOnesServed`,
`EventuallyFlushed`, `PeriodicKeepRunning`, `StoppedAtLast`,
`CollectorStopReturns`, `EventuallyUnscheduled`, `FollowsLeadership`,
`FollowsAssignment`, `LatestFileSettled`, `CollectorsStarted` and the two
`StopReturnsUnlessStuck`. The theorems on stuck states prove the converse half of
the four about Stop: where the property excepts a state, Stop really does not
return.

## 5. Not modelled

- Parsing, most metric types, sketches: sequential computation on bytes and
  floats. The models use only its outcome (the type of a message).
- The serializer and the HTTP client: accepted, refused or failed.
- Origin detection, debug statistics, telemetry, logging, the health channels
  and the health catalog, which is a map pinged by a ticker.
- Core checks and python checks: counters of the operating system, cgo.
- The many listeners, providers and tag collectors beyond the kubelet's and
  docker's: they differ in the API they read, and feed the same stores.
- The cluster agent's API and custom metrics, leader election, metadata
  collectors, configuration, secrets, flare, status pages: glue around
  Kubernetes and HTTP libraries without a protocol of their own.
- The logs decoder, the TCP destination, the container, journald, Windows and
  network inputs.
- Durations: tickers fire and blocks run out at any time, which includes every
  timing the back-off formula can give; where an order of durations matters
  (expiry against heartbeats, seconds of a sketch) time is counted in ticks.

The larger part of the repository by lines is of these kinds, which is why the
models cover its concurrent cores and a small share of its lines.

## 6. Plan

Done: the modules above, and the proofs of section 4. What could come next:

1. The health catalog and its ping loop, with the channels the other loops are
   given; the metadata scheduler.
2. The listeners for docker and ECS and the other providers, against the store
   that `Autodiscovery` models.
3. The payload splitting of the serializer, as a pure algorithm.
