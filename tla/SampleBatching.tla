--------------------------- MODULE SampleBatching ---------------------------
(***************************************************************************)
(* From parsed messages to the aggregator.  Every worker of the statsd     *)
(* server owns a batcher: samples go into an array taken from the shared   *)
(* MetricSamplePool, events and service checks into slices of their own.   *)
(* A full array, and whatever is there at the end of a group of packets,   *)
(* is sent to the aggregator's bounded channels.  The aggregator exports   *)
(* the samples of an array one by one and puts the array back in the pool, *)
(* where a worker may take it again.                                       *)
(*                                                                         *)
(* Arrays are shared memory: a slice in a batcher, in the channel or in    *)
(* the aggregator's hands is a reference [array, len], and an export reads *)
(* the array at the time of the export.                                    *)
(*                                                                         *)
(* Data abstraction: a message is an identity with the type that           *)
(* findMessageType and the parsers give it ("malformed" when parsing       *)
(* fails); a sample is its message and whether it is the parsed sample or  *)
(* the distribution copy of a histogram.                                   *)
(***************************************************************************)
EXTENDS Naturals, Sequences, FiniteSets

CONSTANTS
  Messages,          \* the messages the workers will find in the packets
  Type,              \* the type of each message
  Input,             \* the groups of messages waiting for the workers
  Workers,           \* the goroutines of Server.worker
  Arrays,            \* the sample arrays the process can allocate
  BatchSize,         \* MetricSamplePool's batchSize
  ChannelSize,       \* capacity of the aggregator's buffered channels
  HistToDist,        \* HistogramCopyToDistribution
  FlushOnStop,       \* AggregatorStopTimeout > 0
  None               \* no array, or an element never written

Elements(s) == {s[i] : i \in 1..Len(s)}

\* The elements of a family of sequences; that none of them is there twice.
InAll(f) == UNION {Elements(f[x]) : x \in DOMAIN f}

Apart(f) ==
  \A x, y \in DOMAIN f : \A i \in 1..Len(f[x]), j \in 1..Len(f[y]) :
    f[x][i] = f[y][j] => x = y /\ i = j

Types   == {"metric", "histogram", "event", "serviceCheck", "malformed"}
Samples == Messages \X {"parsed", "distribution"}

ASSUME BatchingAssumption ==
  /\ Type \in [Messages -> Types]
  /\ Input \in Seq(Seq(Messages))
  /\ Apart(Input) /\ InAll(Input) = Messages  \* identities: each comes once
  /\ BatchSize \in Nat \ {0}
  /\ ChannelSize \in Nat \ {0}
  /\ HistToDist \in BOOLEAN
  /\ FlushOnStop \in BOOLEAN
  /\ None \notin Arrays \cup Samples

VARIABLES
  packetsIn,     \* the groups no worker has received yet
  todo,          \* messages left of the group each worker is parsing
  staged,        \* samples of the current message not appended yet
  samples,       \* batcher.samples of each worker, a slice
  samplesCount,  \* batcher.samplesCount
  events,        \* batcher.events
  serviceChecks, \* batcher.serviceChecks
  pc,            \* where each worker is
  stopChan,      \* the server's stopChan: open or closed
  memory,        \* contents of the arrays
  pool,          \* the slices in the sync.Pool
  metricIn,      \* aggregator.bufferedMetricIn
  eventIn,       \* aggregator.bufferedEventIn
  serviceCheckIn,\* aggregator.bufferedServiceCheckIn
  running,       \* what the aggregator's goroutine is doing
  batch,         \* the slice it is exporting
  next,          \* index of the next sample to export
  aggEvents,     \* aggregator.events, buffered until the next flush
  sending,       \* the event payloads the flush goroutines are sending
  sent,          \* history: events the serializer accepted
  failed,        \* history: events whose payload the serializer refused
  exported,      \* history: samples given to the exporter
  checked        \* history: service checks given to the exporter

workerVars == <<packetsIn, todo, staged, samples, samplesCount, events,
                serviceChecks, pc, stopChan>>
chanVars   == <<metricIn, eventIn, serviceCheckIn>>
heapVars   == <<memory, pool>>
aggVars    == <<running, batch, next, aggEvents, sending, sent, failed,
                exported, checked>>
vars       == <<workerVars, chanVars, heapVars, aggVars>>

Slices    == [array : Arrays, len : 0..BatchSize]
NoSlice   == [array |-> None, len |-> 0]
Refilling == {"new", "getFull", "getLast"}

Init ==
  /\ packetsIn = Input
  /\ todo = [w \in Workers |-> <<>>]
  /\ staged = [w \in Workers |-> <<>>]
  /\ samples = [w \in Workers |-> NoSlice]
  /\ samplesCount = [w \in Workers |-> 0]
  /\ events = [w \in Workers |-> <<>>]
  /\ serviceChecks = [w \in Workers |-> <<>>]
  /\ pc = [w \in Workers |-> "new"]
  /\ stopChan = "open"
  /\ memory = [a \in Arrays |-> [i \in 1..BatchSize |-> None]]
  /\ pool = {}
  /\ metricIn = <<>>
  /\ eventIn = <<>>
  /\ serviceCheckIn = <<>>
  /\ running = "select"
  /\ batch = NoSlice
  /\ next = 1
  /\ aggEvents = <<>>
  /\ sending = {}
  /\ sent = {}
  /\ failed = {}
  /\ exported = <<>>
  /\ checked = <<>>

-----------------------------------------------------------------------------
Goto(w, from, to) == pc[w] = from /\ pc' = [pc EXCEPT ![w] = to]

(***************************************************************************)
(* MetricSamplePool.  A sync.Pool returns any slice put into it before, or *)
(* a new zeroed array: one nothing refers to.  It may also drop a slice at *)
(* any garbage collection.                                                 *)
(***************************************************************************)
Holders == {w \in Workers : pc[w] \notin Refilling}

Referenced ==
  {samples[w].array : w \in Holders}
    \cup {metricIn[i].array : i \in 1..Len(metricIn)}
    \cup {batch.array}
    \cup {s.array : s \in pool}

GetBatch(w, s, from, to) ==
  /\ Goto(w, from, to)
  /\ \/ /\ s \in pool
        /\ pool' = pool \ {s}
        /\ UNCHANGED memory
     \/ /\ s.array \in Arrays \ Referenced
        /\ s.len = BatchSize
        /\ memory' = [memory EXCEPT ![s.array] = [i \in 1..BatchSize |-> None]]
        /\ UNCHANGED pool
  /\ samples' = [samples EXCEPT ![w] = s]
  /\ UNCHANGED <<packetsIn, todo, staged, samplesCount, events,
                 serviceChecks, stopChan, chanVars, aggVars>>

Collect(s) ==
  /\ s \in pool
  /\ pool' = pool \ {s}
  /\ UNCHANGED <<workerVars, memory, chanVars, aggVars>>

(***************************************************************************)
(* Server.worker and parsePackets.                                         *)
(***************************************************************************)
ReceivePackets(w) ==
  /\ Goto(w, "wait", "parse")
  /\ packetsIn # <<>>
  /\ todo' = [todo EXCEPT ![w] = Head(packetsIn)]
  /\ packetsIn' = Tail(packetsIn)
  /\ UNCHANGED <<staged, samples, samplesCount, events, serviceChecks,
                 stopChan, heapVars, chanVars, aggVars>>

\* The samples of a metric message, in the order they are appended.
SamplesOf(m) ==
  CASE Type[m] = "histogram" /\ HistToDist ->
         <<<<m, "parsed">>, <<m, "distribution">>>>
    [] Type[m] = "metric" \/ (Type[m] = "histogram" /\ ~HistToDist) ->
         <<<<m, "parsed">>>>
    [] OTHER -> <<>>

ParseMessage(w) ==
  /\ pc[w] = "parse"
  /\ staged[w] = <<>>
  /\ todo[w] # <<>>
  /\ LET m == Head(todo[w])
     IN  /\ staged' = [staged EXCEPT ![w] = SamplesOf(m)]
         /\ events' = IF Type[m] = "event"
                      THEN [events EXCEPT ![w] = Append(@, m)] ELSE events
         /\ serviceChecks' = IF Type[m] = "serviceCheck"
                             THEN [serviceChecks EXCEPT ![w] = Append(@, m)]
                             ELSE serviceChecks
  /\ todo' = [todo EXCEPT ![w] = Tail(@)]
  /\ UNCHANGED <<packetsIn, samples, samplesCount, pc, stopChan, heapVars,
                 chanVars, aggVars>>

\* batcher.appendSample: the write into the worker's own array.
AppendSample(w) ==
  /\ pc[w] = "parse"
  /\ staged[w] # <<>>
  /\ samplesCount[w] # samples[w].len
  /\ memory' = [memory EXCEPT
                  ![samples[w].array][samplesCount[w] + 1] = Head(staged[w])]
  /\ samplesCount' = [samplesCount EXCEPT ![w] = @ + 1]
  /\ staged' = [staged EXCEPT ![w] = Tail(@)]
  /\ UNCHANGED <<packetsIn, todo, samples, events, serviceChecks, pc,
                 stopChan, pool, chanVars, aggVars>>

(***************************************************************************)
(* batcher.flushSamples: the send blocks while the channel is full, and    *)
(* the batcher takes another array only after it.                          *)
(***************************************************************************)
SendSamples(w, from, to, count) ==
  /\ Goto(w, from, to)
  /\ samplesCount[w] > 0
  /\ Len(metricIn) < ChannelSize
  /\ metricIn' = Append(metricIn, [samples[w] EXCEPT !.len = samplesCount[w]])
  /\ samplesCount' = [samplesCount EXCEPT ![w] = count]
  /\ UNCHANGED <<packetsIn, todo, staged, samples, events, serviceChecks,
                 stopChan, heapVars, eventIn, serviceCheckIn, aggVars>>

\* Mutant: samplesCount is not reset.
FlushWithoutReset(w, from, to) == SendSamples(w, from, to, samplesCount[w])

FlushSamples(w, from, to) == SendSamples(w, from, to, 0)

\* Mutant: the batcher goes on with the array it has just sent.
FlushAndReuse(w) ==
  /\ staged[w] # <<>>
  /\ samplesCount[w] = samples[w].len
  /\ FlushSamples(w, "parse", "parse")

\* batcher.appendSample with a full array.
FlushFull(w) ==
  /\ staged[w] # <<>>
  /\ samplesCount[w] = samples[w].len
  /\ FlushSamples(w, "parse", "getFull")

\* The end of parsePackets: batcher.flush.
EndOfPackets(w) ==
  /\ Goto(w, "parse", "flush")
  /\ staged[w] = <<>>
  /\ todo[w] = <<>>
  /\ UNCHANGED <<packetsIn, todo, staged, samples, samplesCount, events,
                 serviceChecks, stopChan, heapVars, chanVars, aggVars>>

NoSamples(w) ==
  /\ Goto(w, "flush", "flushEvents")
  /\ samplesCount[w] = 0
  /\ UNCHANGED <<packetsIn, todo, staged, samples, samplesCount, events,
                 serviceChecks, stopChan, heapVars, chanVars, aggVars>>

SendBatchedEvents(w, rest) ==
  /\ Goto(w, "flushEvents", "flushChecks")
  /\ \/ events[w] = <<>> /\ UNCHANGED eventIn
     \/ /\ events[w] # <<>>
        /\ Len(eventIn) < ChannelSize
        /\ eventIn' = Append(eventIn, events[w])
  /\ events' = [events EXCEPT ![w] = rest]
  /\ UNCHANGED <<packetsIn, todo, staged, samples, samplesCount,
                 serviceChecks, stopChan, heapVars, metricIn, serviceCheckIn,
                 aggVars>>

FlushEvents(w) == SendBatchedEvents(w, <<>>)

SendBatchedChecks(w, to) ==
  /\ Goto(w, "flushChecks", to)
  /\ \/ serviceChecks[w] = <<>> /\ UNCHANGED serviceCheckIn
     \/ /\ serviceChecks[w] # <<>>
        /\ Len(serviceCheckIn) < ChannelSize
        /\ serviceCheckIn' = Append(serviceCheckIn, serviceChecks[w])
  /\ serviceChecks' = [serviceChecks EXCEPT ![w] = <<>>]
  /\ UNCHANGED <<packetsIn, todo, staged, samples, samplesCount, events,
                 stopChan, heapVars, metricIn, eventIn, aggVars>>

FlushServiceChecks(w) == SendBatchedChecks(w, "wait")

\* Server.Stop closes stopChan; a worker sees it in its select.
StopServer ==
  /\ stopChan = "open"
  /\ stopChan' = "closed"
  /\ UNCHANGED <<packetsIn, todo, staged, samples, samplesCount, events,
                 serviceChecks, pc, heapVars, chanVars, aggVars>>

ExitWorker(w) ==
  /\ Goto(w, "wait", "done")
  /\ stopChan = "closed"
  /\ UNCHANGED <<packetsIn, todo, staged, samples, samplesCount, events,
                 serviceChecks, stopChan, heapVars, chanVars, aggVars>>

(***************************************************************************)
(* BufferedAggregator.run.                                                 *)
(***************************************************************************)
ReceiveSamples ==
  /\ running = "select"
  /\ metricIn # <<>>
  /\ running' = "export"
  /\ batch' = Head(metricIn)
  /\ next' = 1
  /\ metricIn' = Tail(metricIn)
  /\ UNCHANGED <<workerVars, heapVars, eventIn, serviceCheckIn, aggEvents,
                 sending, sent, failed, exported, checked>>

\* agg.addSample(&metrics[i]).
AddSample ==
  /\ running = "export"
  /\ next <= batch.len
  /\ exported' = Append(exported, memory[batch.array][next])
  /\ next' = next + 1
  /\ UNCHANGED <<workerVars, heapVars, chanVars, running, batch, aggEvents,
                 sending, sent, failed, checked>>

\* metricPool.PutBatch: the slice goes back with its full capacity.
PutBatch ==
  /\ running = "export"
  /\ next > batch.len
  /\ pool' = pool \cup {[batch EXCEPT !.len = BatchSize]}
  /\ batch' = NoSlice
  /\ running' = "select"
  /\ UNCHANGED <<workerVars, memory, chanVars, next, aggEvents, sending,
                 sent, failed, exported, checked>>

ReceiveEvents ==
  /\ running = "select"
  /\ eventIn # <<>>
  /\ aggEvents' = aggEvents \o Head(eventIn)
  /\ eventIn' = Tail(eventIn)
  /\ UNCHANGED <<workerVars, heapVars, metricIn, serviceCheckIn, running,
                 batch, next, sending, sent, failed, exported, checked>>

ReceiveServiceChecks ==
  /\ running = "select"
  /\ serviceCheckIn # <<>>
  /\ checked' = checked \o Head(serviceCheckIn)
  /\ serviceCheckIn' = Tail(serviceCheckIn)
  /\ UNCHANGED <<workerVars, heapVars, metricIn, eventIn, running, batch,
                 next, aggEvents, sending, sent, failed, exported>>

(***************************************************************************)
(* flushEvents takes the buffered events and sends them from a goroutine   *)
(* of their own.  The series and the service check that every flush adds   *)
(* carry nothing of the input.                                             *)
(***************************************************************************)
FlushKeeping(rest) ==
  /\ aggEvents' = rest
  /\ sending' = IF aggEvents = <<>> THEN sending ELSE sending \cup {aggEvents}

\* Mutant: GetEvents does not clear the slice.
CopyEvents == FlushKeeping(aggEvents)

TakeEvents == FlushKeeping(<<>>)

\* Mutant: the tick flushes no events.
FlushNothing == running = "select" /\ UNCHANGED vars

Flush ==
  /\ running = "select"
  /\ TakeEvents
  /\ UNCHANGED <<workerVars, heapVars, chanVars, running, batch, next, sent,
                 failed, exported, checked>>

\* Stop: a rendezvous with the select ends run; if a timeout is set, a
\* goroutine of its own then flushes once more, at its own time (after the
\* timeout Stop returns without it).
StopAggregator ==
  /\ running = "select"
  /\ running' = IF FlushOnStop THEN "stopping" ELSE "done"
  /\ UNCHANGED <<workerVars, heapVars, chanVars, batch, next, aggEvents,
                 sending, sent, failed, exported, checked>>

LastFlush ==
  /\ running = "stopping"
  /\ running' = "done"
  /\ TakeEvents
  /\ UNCHANGED <<workerVars, heapVars, chanVars, batch, next, sent, failed,
                 exported, checked>>

\* sendEvents: the serializer accepts the payload, or it is dropped.
SendEvents(payload) ==
  /\ payload \in sending
  /\ sending' = sending \ {payload}
  /\ \/ sent' = sent \cup Elements(payload) /\ UNCHANGED failed
     \/ failed' = failed \cup Elements(payload) /\ UNCHANGED sent
  /\ UNCHANGED <<workerVars, heapVars, chanVars, running, batch, next,
                 aggEvents, exported, checked>>

-----------------------------------------------------------------------------
Refill(w) ==
  \E s \in Slices : \/ GetBatch(w, s, "new", "wait")
                    \/ GetBatch(w, s, "getFull", "parse")
                    \/ GetBatch(w, s, "getLast", "flushEvents")

Worker(w) ==
  \/ Refill(w)
  \/ ReceivePackets(w)
  \/ ParseMessage(w)
  \/ AppendSample(w)
  \/ FlushFull(w)
  \/ EndOfPackets(w)
  \/ FlushSamples(w, "flush", "getLast")
  \/ NoSamples(w)
  \/ FlushEvents(w)
  \/ FlushServiceChecks(w)
  \/ ExitWorker(w)

Export == AddSample \/ PutBatch

Next ==
  \/ \E w \in Workers : Worker(w)
  \/ \E s \in pool : Collect(s)
  \/ StopServer
  \/ ReceiveSamples
  \/ Export
  \/ ReceiveEvents
  \/ ReceiveServiceChecks
  \/ Flush
  \/ StopAggregator
  \/ LastFlush
  \/ \E payload \in sending : SendEvents(payload)

(***************************************************************************)
(* Workers and the aggregator run: a goroutine that can go on does, and a  *)
(* case of the aggregator's select that stays ready is taken.  Sending a   *)
(* payload ends one way or the other.  Nothing says that either side is    *)
(* ever stopped or that the pool is ever collected.                        *)
(***************************************************************************)
Fairness ==
  /\ \A w \in Workers : WF_vars(Worker(w))
  /\ WF_vars(ReceiveSamples)
  /\ WF_vars(Export)
  /\ WF_vars(ReceiveEvents)
  /\ WF_vars(ReceiveServiceChecks)
  /\ WF_vars(Flush)
  /\ WF_vars(\E payload \in sending : SendEvents(payload))

Spec     == Init /\ [][Next]_vars
FairSpec == Spec /\ Fairness

-----------------------------------------------------------------------------
(***************************************************************************)
(* TypeOK: every variable keeps its type; in particular the number of      *)
(* samples in a batch never exceeds the length of its array, so that       *)
(* appendSample never indexes outside it.                                  *)
(***************************************************************************)
WorkerTypeOK ==
  /\ packetsIn \in Seq(Seq(Messages))
  /\ todo \in [Workers -> Seq(Messages)]
  /\ staged \in [Workers -> Seq(Samples)]
  /\ samples \in [Workers -> Slices \cup {NoSlice}]
  /\ samplesCount \in [Workers -> 0..BatchSize]
  /\ events \in [Workers -> Seq(Messages)]
  /\ serviceChecks \in [Workers -> Seq(Messages)]
  /\ pc \in [Workers -> Refilling \cup {"wait", "parse", "flush",
                                        "flushEvents", "flushChecks", "done"}]
  /\ stopChan \in {"open", "closed"}

ChannelTypeOK ==
  /\ memory \in [Arrays -> [1..BatchSize -> Samples \cup {None}]]
  /\ pool \subseteq Slices
  /\ metricIn \in Seq(Slices)
  /\ eventIn \in Seq(Seq(Messages))
  /\ serviceCheckIn \in Seq(Seq(Messages))

AggregatorTypeOK ==
  /\ running \in {"select", "export", "stopping", "done"}
  /\ batch \in Slices \cup {NoSlice}
  /\ next \in 1..(BatchSize + 1)
  /\ aggEvents \in Seq(Messages)
  /\ sending \subseteq Seq(Messages)
  /\ sent \subseteq Messages
  /\ failed \subseteq Messages
  /\ exported \in Seq(Samples \cup {None})
  /\ checked \in Seq(Messages)

TypeOK == WorkerTypeOK /\ ChannelTypeOK /\ AggregatorTypeOK

(***************************************************************************)
(* ExclusiveArrays: an array has one owner at a time: the batcher that     *)
(* fills it, one slot of the aggregator's channel, the aggregator that     *)
(* exports it, or the pool.  No worker writes into samples that are queued *)
(* or being exported, whenever the aggregator returns them.                *)
(***************************************************************************)
ExclusiveArrays ==
  /\ \A w, v \in Holders : w # v => samples[w].array # samples[v].array
  /\ \A w \in Holders :
       /\ \A i \in 1..Len(metricIn) : samples[w].array # metricIn[i].array
       /\ samples[w].array # batch.array
       /\ \A s \in pool : samples[w].array # s.array
  /\ \A i, j \in 1..Len(metricIn) :
       i # j => metricIn[i].array # metricIn[j].array
  /\ \A i \in 1..Len(metricIn) :
       /\ metricIn[i].array # batch.array
       /\ \A s \in pool : metricIn[i].array # s.array
  /\ \A s \in pool : s.array # batch.array
  /\ \A s, t \in pool : s # t => s.array # t.array

(***************************************************************************)
(* What makes the ownership and the emptiness of an idle batcher           *)
(* inductive: a slice has its full length except in the channel, the       *)
(* aggregator holds a slice exactly while it exports, and each step of     *)
(* batcher.flush leaves its part of the batcher empty.                     *)
(***************************************************************************)
WholeSlices ==
  /\ \A w \in Holders : samples[w] \in Slices /\ samples[w].len = BatchSize
  /\ \A s \in pool : s.len = BatchSize
  /\ batch \in Slices <=> running = "export"

Flushing ==
  \A w \in Workers :
    /\ pc[w] \notin {"parse", "getFull"} => staged[w] = <<>> /\ todo[w] = <<>>
    /\ pc[w] \notin {"parse", "flush"} => samplesCount[w] = 0
    /\ pc[w] \in {"new", "wait", "flushChecks", "done"} => events[w] = <<>>
    /\ pc[w] \in {"new", "wait", "done"} => serviceChecks[w] = <<>>

IInv == TypeOK /\ WholeSlices /\ ExclusiveArrays /\ Flushing

(***************************************************************************)
(* SamplesAccounted: a sample of a parsed message is in exactly one place: *)
(* about to be appended, in one element of one batch, or exported, read    *)
(* through the arrays as the code reads them; a reused array never shows   *)
(* the aggregator a sample of an earlier batch, and none is overwritten.   *)
(***************************************************************************)
Parsed(m) ==
  /\ \A i \in 1..Len(packetsIn) : m \notin Elements(packetsIn[i])
  /\ \A w \in Workers : m \notin Elements(todo[w])

Produced == UNION {Elements(SamplesOf(m)) : m \in {x \in Messages : Parsed(x)}}

Occurrences(s) ==
  LET stagedAt == {p \in UNION {{w} \X (1..Len(staged[w])) : w \in Workers} :
                     staged[p[1]][p[2]] = s}
      batchAt  == {p \in UNION {{w} \X (1..samplesCount[w]) : w \in Holders} :
                     memory[samples[p[1]].array][p[2]] = s}
      queuedAt == {p \in UNION {{k} \X (1..metricIn[k].len) :
                                  k \in 1..Len(metricIn)} :
                     memory[metricIn[p[1]].array][p[2]] = s}
      exportAt == {i \in next..batch.len : memory[batch.array][i] = s}
      doneAt   == {i \in 1..Len(exported) : exported[i] = s}
  IN  Cardinality(stagedAt) + Cardinality(batchAt) + Cardinality(queuedAt)
        + Cardinality(exportAt) + Cardinality(doneAt)

SamplesAccounted ==
  /\ \A s \in Samples : Occurrences(s) = IF s \in Produced THEN 1 ELSE 0
  /\ None \notin Elements(exported)

(***************************************************************************)
(* ExportedInOrder: the samples of one group of packets are exported in    *)
(* the order of its messages, a distribution copy after its histogram,     *)
(* however the workers' batches interleave.                                *)
(***************************************************************************)
Rank(m) == CHOOSE p \in UNION {{g} \X (1..Len(Input[g])) : g \in 1..Len(Input)} :
             Input[p[1]][p[2]] = m

ExportedInOrder ==
  \A i, j \in 1..Len(exported) : i < j =>
    LET p == Rank(exported[i][1])
        q == Rank(exported[j][1])
    IN  p[1] = q[1] => \/ p[2] < q[2]
                       \/ /\ p[2] = q[2]
                          /\ exported[i][2] = "parsed"
                          /\ exported[j][2] = "distribution"

(***************************************************************************)
(* SamplesExact: no sample is lost, duplicated, overwritten or overtaken   *)
(* between the parser and the exporter.                                    *)
(***************************************************************************)
SamplesExact == SamplesAccounted /\ ExportedInOrder

(***************************************************************************)
(* What makes it inductive.  The samples of a group go through the stages  *)
(* one behind the other: exported, being exported, queued, batched, parsed *)
(* and, as messages, still to be parsed; nothing in a stage comes before   *)
(* what is in a stage ahead of it, and no two workers have parts of one    *)
(* group.  Nothing comes before itself, so that a sample is in one place.  *)
(***************************************************************************)
Group(m) == Rank(m)[1]
Index(m) == Rank(m)[2]

\* If the two samples are of one group, s is the earlier one.
Precedes(s, t) ==
  \/ Group(s[1]) # Group(t[1])
  \/ Index(s[1]) < Index(t[1])
  \/ s[1] = t[1] /\ s[2] = "parsed" /\ t[2] = "distribution"

Ahead(A, B) == \A s \in A, t \in B : Precedes(s, t)

OtherGroups(A, B) == \A s \in A, t \in B : Group(s[1]) # Group(t[1])

InOrder(q) == \A i, j \in 1..Len(q) : i < j => Precedes(q[i], q[j])

\* A part of an array, and that it is in order.
Part(a, from, to) == {memory[a][i] : i \in from..to}

PartInOrder(a, from, to) ==
  \A i, j \in from..to : i < j => Precedes(memory[a][i], memory[a][j])

\* The stages.
Exported  == Elements(exported)
Exporting == Part(batch.array, next, batch.len)
Queued    == [k \in 1..Len(metricIn) |-> Part(metricIn[k].array, 1, metricIn[k].len)]
Batched   == [w \in Workers |-> Part(samples[w].array, 1, samplesCount[w])]
Staged    == [w \in Workers |-> Elements(staged[w])]
Coming    == [w \in Workers |-> Elements(todo[w]) \X {"parsed"}]

Union(f) == UNION {f[x] : x \in DOMAIN f}

\* One stage behind the other, given the contents of each.
Lined(done, leaving, queued, batched, parsed, coming) ==
  /\ Ahead(done, leaving)
  /\ Ahead(done \cup leaving, queued)
  /\ \A w \in Workers :
       /\ Ahead(done \cup leaving \cup queued, batched[w] \cup parsed[w] \cup coming[w])
       /\ Ahead(batched[w], parsed[w] \cup coming[w])
       /\ Ahead(parsed[w], coming[w])
  /\ \A w, v \in Workers : w # v =>
       OtherGroups(batched[w] \cup parsed[w] \cup coming[w],
                   batched[v] \cup parsed[v] \cup coming[v])

StagesLined == Lined(Exported, Exporting, Union(Queued), Batched, Staged, Coming)

\* Within each stage: beyond the workers, and in their hands.
GivenInOrder ==
  /\ InOrder(exported)
  /\ PartInOrder(batch.array, next, batch.len)
  /\ \A k \in 1..Len(metricIn) : PartInOrder(metricIn[k].array, 1, metricIn[k].len)
  /\ \A k, l \in 1..Len(metricIn) : k < l => Ahead(Queued[k], Queued[l])

HandsInOrder ==
  \A w \in Workers :
    /\ PartInOrder(samples[w].array, 1, samplesCount[w])
    /\ InOrder(staged[w])
    /\ \A i, j \in 1..Len(todo[w]) : i < j => Index(todo[w][i]) < Index(todo[w][j])

\* The groups not received are the last of the input.
Received == Len(Input) - Len(packetsIn)

\* What is somewhere was parsed from a received group, and what was parsed
\* is somewhere.
Somewhere ==
  Exported \cup Exporting \cup Union(Queued) \cup Union(Batched) \cup Union(Staged)

SamplesComplete ==
  /\ Len(packetsIn) <= Len(Input)
  /\ \A g \in 1..Len(packetsIn) : packetsIn[g] = Input[Received + g]
  /\ \A w \in Workers : \A m \in Elements(todo[w]) : Group(m) <= Received
  /\ \A s \in Somewhere :
       s \in Samples /\ s \in Elements(SamplesOf(s[1])) /\ Group(s[1]) <= Received
  /\ \A m \in Messages : Parsed(m) => Elements(SamplesOf(m)) \subseteq Somewhere

SampleStages == StagesLined /\ GivenInOrder /\ HandsInOrder /\ SamplesComplete

(***************************************************************************)
(* NothingLeftBehind: a worker waiting for packets, or ended by            *)
(* Server.Stop, has handed over everything it parsed.                      *)
(***************************************************************************)
NothingLeftBehind ==
  \A w \in Workers : pc[w] \in {"wait", "done"} =>
    /\ samplesCount[w] = 0
    /\ staged[w] = <<>> /\ todo[w] = <<>>
    /\ events[w] = <<>> /\ serviceChecks[w] = <<>>

(***************************************************************************)
(* EventsSentOnce: an event is in one place of the way to the serializer,  *)
(* and after the last flush of a stopped aggregator none stays buffered.   *)
(***************************************************************************)
EventsSentOnce ==
  /\ sent \cap failed = {}
  /\ \A m \in Messages : Type[m] = "event" /\ Parsed(m) =>
       Cardinality({w \in Workers : m \in Elements(events[w])})
         + Cardinality({i \in 1..Len(eventIn) : m \in Elements(eventIn[i])})
         + Cardinality({i \in 1..Len(aggEvents) : aggEvents[i] = m})
         + Cardinality({p \in sending : m \in Elements(p)})
         + (IF m \in sent \cup failed THEN 1 ELSE 0) = 1
  /\ running = "done" /\ FlushOnStop => aggEvents = <<>>

(***************************************************************************)
(* What makes it inductive: the stages an event goes through, from a group *)
(* no worker has received to the serializer's answer, have no event in     *)
(* common, none has an event twice, and together they have every event.    *)
(***************************************************************************)
Distinct(s) == \A i, j \in 1..Len(s) : s[i] = s[j] => i = j

Payloads == [p \in sending |-> p]

StagesApart ==
  /\ Apart(packetsIn) /\ Apart(todo) /\ Apart(events) /\ Apart(eventIn)
  /\ Distinct(aggEvents) /\ Apart(Payloads)

NoneInTwo(waiting, assigned, batched, queued, buffered, underway) ==
  /\ waiting \cap (assigned \cup batched \cup queued \cup buffered \cup underway
                    \cup sent \cup failed) = {}
  /\ assigned \cap (batched \cup queued \cup buffered \cup underway \cup sent \cup failed) = {}
  /\ batched \cap (queued \cup buffered \cup underway \cup sent \cup failed) = {}
  /\ queued \cap (buffered \cup underway \cup sent \cup failed) = {}
  /\ buffered \cap (underway \cup sent \cup failed) = {}
  /\ underway \cap (sent \cup failed) = {}
  /\ sent \cap failed = {}

StagesDisjoint ==
  NoneInTwo(InAll(packetsIn), InAll(todo), InAll(events), InAll(eventIn),
            Elements(aggEvents), InAll(Payloads))

StagesComplete ==
  \A m \in Messages : Type[m] = "event" =>
    m \in InAll(packetsIn) \cup InAll(todo) \cup InAll(events) \cup InAll(eventIn)
            \cup Elements(aggEvents) \cup InAll(Payloads) \cup sent \cup failed

LastFlushDone == running = "done" /\ FlushOnStop => aggEvents = <<>>

EventStages == StagesApart /\ StagesDisjoint /\ StagesComplete /\ LastFlushDone

(***************************************************************************)
(* Delivery: while neither side is stopped, every group is taken by a      *)
(* worker, although all of them may be blocked on the same full channel,   *)
(* and what a worker parses gets out: samples and service checks to the    *)
(* exporter, events to the serializer.  (Taken groups and handled messages *)
(* stay so and there are finitely many: this is one leads-to for each.)    *)
(***************************************************************************)
Handled(m) ==
  CASE Type[m] = "malformed"    -> TRUE
    [] Type[m] = "event"        -> m \in sent \cup failed
    [] Type[m] = "serviceCheck" -> m \in Elements(checked)
    [] OTHER -> Elements(SamplesOf(m)) \subseteq Elements(exported)

Ended == running \in {"stopping", "done"}

Delivery ==
  []<>(/\ packetsIn = <<>> \/ stopChan = "closed" \/ Ended
       /\ \A m \in Messages : Parsed(m) => Handled(m) \/ Ended)
=============================================================================
