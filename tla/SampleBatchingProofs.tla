----------------------- MODULE SampleBatchingProofs -----------------------
(***************************************************************************)
(* Proofs about SampleBatching for every number of workers, messages and   *)
(* arrays, every batch size and every channel capacity.                    *)
(***************************************************************************)
EXTENDS SampleBatching, FiniteSetTheorems, SequenceTheorems, TLAPS

\* The initial state satisfies the inductive invariant.
LEMMA InitIInv == Init => IInv
  <1> SUFFICES ASSUME Init PROVE IInv
    OBVIOUS
  <1> USE BatchingAssumption DEF BatchingAssumption
  <1>1. TypeOK
    <2>1. WorkerTypeOK
      BY DEF Init, WorkerTypeOK, Refilling
    <2>2. ChannelTypeOK
      BY DEF Init, ChannelTypeOK
    <2>3. AggregatorTypeOK
      BY DEF Init, AggregatorTypeOK
    <2> QED BY <2>1, <2>2, <2>3 DEF TypeOK
  <1>2. WholeSlices
    BY DEF Init, WholeSlices, Holders, Refilling, Slices, NoSlice
  <1>3. ExclusiveArrays
    BY DEF Init, ExclusiveArrays, Holders, Refilling
  <1>4. Flushing
    BY DEF Init, Flushing
  <1> QED BY <1>1, <1>2, <1>3, <1>4 DEF IInv

\* Appending an element of S to a sequence over S gives a sequence over S.
LEMMA AppendType ==
  ASSUME NEW S, NEW q \in Seq(S), NEW e \in S
  PROVE  Append(q, e) \in Seq(S)
  OBVIOUS

\* A message yields a sequence of samples, possibly empty.
LEMMA SamplesOfType ==
  ASSUME NEW m \in Messages
  PROVE  SamplesOf(m) \in Seq(Samples)
  <1> DEFINE original == <<m, "parsed">>
             copy     == <<m, "distribution">>
  <1>1. original \in Samples /\ copy \in Samples
    BY DEF Samples
  <1>2. SamplesOf(m) \in {<<>>, <<original>>, <<original, copy>>}
    BY DEF SamplesOf
  <1>3. <<>> \in Seq(Samples)
    OBVIOUS
  <1> HIDE DEF original, copy
  <1>4. <<original>> \in Seq(Samples)
    BY <1>1
  <1>5. <<original, copy>> \in Seq(Samples)
    BY <1>1
  <1> QED BY <1>2, <1>3, <1>4, <1>5

(***************************************************************************)
(* GetBatch gives a worker without a slice one that nothing refers to,     *)
(* from the pool or newly allocated.                                       *)
(***************************************************************************)
LEMMA GetBatchIInv ==
  ASSUME IInv, NEW w \in Workers, NEW s \in Slices, NEW from, NEW to,
         GetBatch(w, s, from, to),
         \/ from = "new" /\ to = "wait"
         \/ from = "getFull" /\ to = "parse"
         \/ from = "getLast" /\ to = "flushEvents"
  PROVE  IInv'
  <1> USE BatchingAssumption DEF BatchingAssumption, IInv, TypeOK
  <1>1. WorkerTypeOK'
    BY DEF GetBatch, Goto, WorkerTypeOK, Refilling
  <1>2. ChannelTypeOK'
    <2>1. memory' \in [Arrays -> [1..BatchSize -> Samples \cup {None}]]
      <3> DEFINE zeroed == [i \in 1..BatchSize |-> None]
      <3>1. zeroed \in [1..BatchSize -> Samples \cup {None}]
        OBVIOUS
      <3>2. memory' = memory \/ memory' = [memory EXCEPT ![s.array] = zeroed]
        BY DEF GetBatch
      <3> HIDE DEF zeroed
      <3> QED BY <3>1, <3>2 DEF ChannelTypeOK
    <2> QED BY <2>1 DEF GetBatch, ChannelTypeOK, chanVars
  <1>3. AggregatorTypeOK'
    BY DEF GetBatch, AggregatorTypeOK, aggVars
  <1>4. WholeSlices'
    BY DEF GetBatch, Goto, WorkerTypeOK, WholeSlices, Holders, Refilling,
           aggVars
  <1>5. s.array \in Arrays
    BY DEF Slices
  <1>6. /\ \A v \in Holders : samples[v].array # s.array
        /\ \A i \in 1..Len(metricIn) : metricIn[i].array # s.array
        /\ batch.array # s.array
        /\ \A t \in pool' : t.array # s.array
    <2>1. CASE s \in pool /\ pool' = pool \ {s}
      BY <2>1 DEF ExclusiveArrays
    <2>2. CASE s.array \in Arrays \ Referenced /\ UNCHANGED pool
      BY <2>2 DEF Referenced
    <2> QED BY <2>1, <2>2 DEF GetBatch
  <1>7. Holders' = Holders \cup {w} /\ w \notin Holders
    BY DEF GetBatch, Goto, Holders, Refilling, WorkerTypeOK
  <1>8. \A v \in Workers : samples'[v] = IF v = w THEN s ELSE samples[v]
    BY DEF GetBatch, WorkerTypeOK
  <1>9. metricIn' = metricIn /\ batch' = batch /\ pool' \subseteq pool
    BY DEF GetBatch, chanVars, aggVars
  <1>10. ExclusiveArrays'
    <2> HIDE BatchingAssumption DEF BatchingAssumption, TypeOK
    <2>1. \A v \in Holders' : v # w => v \in Holders /\ samples'[v] = samples[v]
      BY <1>7, <1>8 DEF Holders
    <2>2. samples'[w] = s
      BY <1>8
    <2>3. \A u, v \in Holders' : u # v => samples'[u].array # samples'[v].array
      BY <1>6, <2>1, <2>2 DEF ExclusiveArrays
    <2>4. \A v \in Holders' :
            /\ \A i \in 1..Len(metricIn') : samples'[v].array # metricIn'[i].array
            /\ samples'[v].array # batch'.array
            /\ \A t \in pool' : samples'[v].array # t.array
      BY <1>6, <1>9, <2>1, <2>2 DEF ExclusiveArrays
    <2>5. \A i, j \in 1..Len(metricIn') : i # j => metricIn'[i].array # metricIn'[j].array
      BY <1>9 DEF ExclusiveArrays
    <2>6. \A i \in 1..Len(metricIn') :
            /\ metricIn'[i].array # batch'.array
            /\ \A t \in pool' : metricIn'[i].array # t.array
      BY <1>9 DEF ExclusiveArrays
    <2>7. /\ \A t \in pool' : t.array # batch'.array
          /\ \A t, u \in pool' : t # u => t.array # u.array
      BY <1>9 DEF ExclusiveArrays
    <2> QED BY <2>3, <2>4, <2>5, <2>6, <2>7 DEF ExclusiveArrays
  <1>11. Flushing'
    BY DEF GetBatch, Goto, Flushing, WorkerTypeOK
  <1> QED BY <1>1, <1>2, <1>3, <1>4, <1>10, <1>11

\* The steps of a worker that touch neither its slice nor the channels.
LEMMA LocalStepIInv ==
  ASSUME IInv, NEW w \in Workers,
         \/ ReceivePackets(w)
         \/ ParseMessage(w)
         \/ EndOfPackets(w)
         \/ NoSamples(w)
         \/ ExitWorker(w)
  PROVE  IInv'
  <1> USE BatchingAssumption DEF BatchingAssumption, IInv, TypeOK
  <1> USE DEF ReceivePackets, ParseMessage, EndOfPackets, NoSamples,
              ExitWorker, Goto
  <1>1. WorkerTypeOK'
    <2>1. CASE ParseMessage(w)
      <3>1. Head(todo[w]) \in Messages /\ Tail(todo[w]) \in Seq(Messages)
        BY <2>1 DEF WorkerTypeOK
      <3>2. SamplesOf(Head(todo[w])) \in Seq(Samples)
        BY <3>1, SamplesOfType
      <3>3. todo' \in [Workers -> Seq(Messages)] /\ staged' \in [Workers -> Seq(Samples)]
        BY <2>1, <3>1, <3>2 DEF WorkerTypeOK
      <3>4. /\ Append(events[w], Head(todo[w])) \in Seq(Messages)
            /\ Append(serviceChecks[w], Head(todo[w])) \in Seq(Messages)
        BY <3>1, AppendType DEF WorkerTypeOK
      <3>5. events' \in [Workers -> Seq(Messages)]
        BY <2>1, <3>4 DEF WorkerTypeOK
      <3>6. serviceChecks' \in [Workers -> Seq(Messages)]
        BY <2>1, <3>4 DEF WorkerTypeOK
      <3> QED BY <2>1, <3>3, <3>5, <3>6 DEF WorkerTypeOK
    <2>2. CASE ReceivePackets(w)
      <3>1. /\ Head(packetsIn) \in Seq(Messages)
            /\ Tail(packetsIn) \in Seq(Seq(Messages))
        BY <2>2 DEF WorkerTypeOK
      <3> QED BY <2>2, <3>1 DEF WorkerTypeOK, Refilling
    <2>3. CASE EndOfPackets(w)
      BY <2>3 DEF WorkerTypeOK, Refilling
    <2>4. CASE NoSamples(w)
      BY <2>4 DEF WorkerTypeOK, Refilling
    <2>5. CASE ExitWorker(w)
      BY <2>5 DEF WorkerTypeOK, Refilling
    <2> QED BY <2>1, <2>2, <2>3, <2>4, <2>5
  <1>2. UNCHANGED <<memory, pool, metricIn, eventIn, serviceCheckIn, samples>>
    BY DEF heapVars, chanVars
  <1>3. UNCHANGED <<running, batch, next, aggEvents, sending, sent, failed,
                    exported, checked>>
    BY DEF aggVars
  <1>4. ChannelTypeOK' /\ AggregatorTypeOK'
    BY <1>2, <1>3 DEF ChannelTypeOK, AggregatorTypeOK
  <1>5. Holders' = Holders
    BY DEF Holders, Refilling, WorkerTypeOK
  <1>6. WholeSlices' /\ ExclusiveArrays'
    BY <1>2, <1>3, <1>5 DEF WholeSlices, ExclusiveArrays
  <1>7. Flushing'
    BY DEF Flushing, WorkerTypeOK
  <1> QED BY <1>1, <1>4, <1>6, <1>7

\* appendSample writes into the worker's own array, below its length.
LEMMA AppendSampleIInv ==
  ASSUME IInv, NEW w \in Workers, AppendSample(w)
  PROVE  IInv'
  <1> USE BatchingAssumption DEF BatchingAssumption, IInv, TypeOK
  <1>1. /\ samples[w].array \in Arrays
        /\ samplesCount[w] + 1 \in 1..BatchSize
    <2>1. w \in Holders
      BY DEF AppendSample, Holders, Refilling
    <2>2. samples[w] \in Slices /\ samples[w].len = BatchSize
      BY <2>1 DEF WholeSlices
    <2>3. samplesCount[w] \in 0..BatchSize /\ samplesCount[w] # BatchSize
      BY <2>2 DEF AppendSample, WorkerTypeOK
    <2> QED BY <2>2, <2>3 DEF Slices
  <1>2. /\ Head(staged[w]) \in Samples
        /\ Tail(staged[w]) \in Seq(Samples)
    BY DEF AppendSample, WorkerTypeOK
  <1>3. WorkerTypeOK'
    BY <1>1, <1>2 DEF AppendSample, WorkerTypeOK
  <1>4. ChannelTypeOK'
    BY <1>1, <1>2 DEF AppendSample, ChannelTypeOK, chanVars
  <1>5. AggregatorTypeOK' /\ WholeSlices' /\ ExclusiveArrays'
    BY DEF AppendSample, AggregatorTypeOK, WholeSlices, ExclusiveArrays,
           Holders, chanVars, aggVars
  <1>6. Flushing'
    BY DEF AppendSample, Flushing, WorkerTypeOK
  <1> QED BY <1>3, <1>4, <1>5, <1>6

(***************************************************************************)
(* flushSamples hands the worker's slice over to the channel: the worker   *)
(* is then no holder until GetBatch.                                       *)
(***************************************************************************)
LEMMA FlushSamplesIInv ==
  ASSUME IInv, NEW w \in Workers, NEW from, NEW to,
         FlushSamples(w, from, to),
         \/ from = "parse" /\ to = "getFull"
         \/ from = "flush" /\ to = "getLast"
  PROVE  IInv'
  <1> USE BatchingAssumption DEF BatchingAssumption, IInv, TypeOK
  <1> DEFINE slice == [samples[w] EXCEPT !.len = samplesCount[w]]
  <1>1. w \in Holders /\ Holders' = Holders \ {w}
    BY DEF FlushSamples, SendSamples, Goto, Holders, Refilling, WorkerTypeOK
  <1>2. slice \in Slices /\ slice.array = samples[w].array
    BY <1>1 DEF WholeSlices, Slices, WorkerTypeOK
  <1>3. /\ metricIn' = Append(metricIn, slice)
        /\ UNCHANGED <<samples, memory, pool, batch, eventIn, serviceCheckIn,
                       running>>
    BY DEF FlushSamples, SendSamples, heapVars, aggVars
  <1> HIDE DEF slice
  <1>4. WorkerTypeOK'
    BY DEF FlushSamples, SendSamples, Goto, WorkerTypeOK, Refilling
  <1>5. ChannelTypeOK'
    BY <1>2, <1>3 DEF ChannelTypeOK
  <1>6. AggregatorTypeOK'
    BY DEF FlushSamples, SendSamples, AggregatorTypeOK, aggVars
  <1>7. WholeSlices'
    BY <1>1, <1>3 DEF WholeSlices
  <1>8. /\ Len(metricIn') = Len(metricIn) + 1
        /\ \A i \in 1..Len(metricIn) : metricIn'[i] = metricIn[i]
        /\ metricIn'[Len(metricIn) + 1] = slice
    BY <1>2, <1>3 DEF ChannelTypeOK
  <1>9. ExclusiveArrays'
    <2>1. Len(metricIn) \in Nat
      BY DEF ChannelTypeOK
    <2>2. \A i \in 1..Len(metricIn') :
            \/ i \in 1..Len(metricIn) /\ metricIn'[i].array = metricIn[i].array
            \/ /\ i = Len(metricIn) + 1
               /\ metricIn'[i].array = samples[w].array
      BY <1>2, <1>8, <2>1
    <2>3. /\ \A v \in Holders \ {w} : samples[v].array # samples[w].array
          /\ \A i \in 1..Len(metricIn) : metricIn[i].array # samples[w].array
          /\ samples[w].array # batch.array
          /\ \A s \in pool : s.array # samples[w].array
      BY <1>1 DEF ExclusiveArrays
    <2>4. /\ \A v, u \in Holders' :
               v # u => samples'[v].array # samples'[u].array
          /\ \A v \in Holders' :
               /\ samples'[v].array # batch'.array
               /\ \A s \in pool' : samples'[v].array # s.array
          /\ \A s \in pool' : s.array # batch'.array
          /\ \A s, t \in pool' : s # t => s.array # t.array
      BY <1>1, <1>3 DEF ExclusiveArrays
    <2>5. \A v \in Holders' : \A i \in 1..Len(metricIn') :
            samples'[v].array # metricIn'[i].array
      BY <1>1, <1>3, <2>2, <2>3 DEF ExclusiveArrays
    <2>6. \A i, j \in 1..Len(metricIn') :
            i # j => metricIn'[i].array # metricIn'[j].array
      BY <2>2, <2>3 DEF ExclusiveArrays
    <2>7. \A i \in 1..Len(metricIn') :
            /\ metricIn'[i].array # batch'.array
            /\ \A s \in pool' : metricIn'[i].array # s.array
      BY <1>3, <2>2, <2>3 DEF ExclusiveArrays
    <2> QED BY <2>4, <2>5, <2>6, <2>7 DEF ExclusiveArrays
  <1>10. Flushing'
    BY DEF FlushSamples, SendSamples, Goto, Flushing, WorkerTypeOK
  <1> QED BY <1>4, <1>5, <1>6, <1>7, <1>9, <1>10

\* The two other sends of batcher.flush.
LEMMA FlushOthersIInv ==
  ASSUME IInv, NEW w \in Workers, FlushEvents(w) \/ FlushServiceChecks(w)
  PROVE  IInv'
  <1> USE BatchingAssumption DEF BatchingAssumption, IInv, TypeOK
  <1>1. UNCHANGED <<memory, pool, metricIn, samples, samplesCount, running,
                    batch, next, aggEvents, sending, sent, failed, exported,
                    checked>>
    BY DEF FlushEvents, SendBatchedEvents, FlushServiceChecks, SendBatchedChecks, heapVars, aggVars
  <1>2. WorkerTypeOK'
    <2>1. CASE FlushEvents(w)
      BY <2>1 DEF FlushEvents, SendBatchedEvents, Goto, WorkerTypeOK, Refilling
    <2>2. CASE FlushServiceChecks(w)
      BY <2>2 DEF FlushServiceChecks, SendBatchedChecks, Goto, WorkerTypeOK, Refilling
    <2> QED BY <2>1, <2>2
  <1>3. eventIn' \in Seq(Seq(Messages)) /\ serviceCheckIn' \in Seq(Seq(Messages))
    <2>1. events[w] \in Seq(Messages) /\ serviceChecks[w] \in Seq(Messages)
      BY DEF WorkerTypeOK
    <2>2. /\ Append(eventIn, events[w]) \in Seq(Seq(Messages))
          /\ Append(serviceCheckIn, serviceChecks[w]) \in Seq(Seq(Messages))
      BY <2>1, AppendType DEF ChannelTypeOK
    <2>3. /\ eventIn' \in {eventIn, Append(eventIn, events[w])}
          /\ serviceCheckIn' \in {serviceCheckIn,
                                  Append(serviceCheckIn, serviceChecks[w])}
      BY DEF FlushEvents, SendBatchedEvents, FlushServiceChecks,
             SendBatchedChecks
    <2> QED BY <2>2, <2>3 DEF ChannelTypeOK
  <1>4. ChannelTypeOK' /\ AggregatorTypeOK'
    BY <1>1, <1>3 DEF ChannelTypeOK, AggregatorTypeOK
  <1>5. Holders' = Holders
    BY DEF FlushEvents, SendBatchedEvents, FlushServiceChecks, SendBatchedChecks, Goto, Holders, Refilling,
           WorkerTypeOK
  <1>6. WholeSlices' /\ ExclusiveArrays'
    BY <1>1, <1>5 DEF WholeSlices, ExclusiveArrays
  <1>7. Flushing'
    BY DEF FlushEvents, SendBatchedEvents, FlushServiceChecks, SendBatchedChecks, Goto, Flushing, WorkerTypeOK
  <1> QED BY <1>2, <1>4, <1>6, <1>7

\* The aggregator takes the oldest slice out of the channel.
LEMMA ReceiveSamplesIInv ==
  ASSUME IInv, ReceiveSamples
  PROVE  IInv'
  <1> USE BatchingAssumption DEF BatchingAssumption, IInv, TypeOK
  <1>1. /\ metricIn \in Seq(Slices) /\ metricIn # <<>>
        /\ metricIn' = Tail(metricIn) /\ batch' = Head(metricIn)
        /\ UNCHANGED <<samples, pool, pc>>
    BY DEF ReceiveSamples, ChannelTypeOK, workerVars, heapVars
  <1>2. /\ Len(metricIn') = Len(metricIn) - 1
        /\ \A i \in 1..Len(metricIn') :
             i + 1 \in 1..Len(metricIn) /\ metricIn'[i] = metricIn[i + 1]
        /\ 1 \in 1..Len(metricIn) /\ batch' = metricIn[1]
        /\ batch' \in Slices
        /\ metricIn' \in Seq(Slices)
    BY <1>1
  <1>3. WorkerTypeOK' /\ Flushing'
    BY DEF ReceiveSamples, WorkerTypeOK, Flushing, workerVars
  <1>4. ChannelTypeOK' /\ AggregatorTypeOK'
    BY <1>2 DEF ReceiveSamples, ChannelTypeOK, AggregatorTypeOK, heapVars
  <1>5. WholeSlices'
    BY <1>1, <1>2 DEF ReceiveSamples, WholeSlices, Holders
  <1>6. ExclusiveArrays'
    <2>1. Holders' = Holders /\ Len(metricIn) \in Nat
      BY <1>1 DEF Holders
    <2>2. \A i \in 1..Len(metricIn') : i + 1 \in 1..Len(metricIn) /\ i + 1 # 1
      BY <1>2, <2>1
    <2>3. \A w \in Holders' :
            /\ \A i \in 1..Len(metricIn') : samples'[w].array # metricIn'[i].array
            /\ samples'[w].array # batch'.array
      BY <1>1, <1>2, <2>1 DEF ExclusiveArrays
    <2>4. \A i, j \in 1..Len(metricIn') :
            i # j => metricIn'[i].array # metricIn'[j].array
      <3> TAKE i, j \in 1..Len(metricIn')
      <3> HAVE i # j
      <3>1. i + 1 \in 1..Len(metricIn) /\ j + 1 \in 1..Len(metricIn)
        BY <2>2
      <3>2. i + 1 # j + 1
        OBVIOUS
      <3> QED BY <1>2, <3>1, <3>2 DEF ExclusiveArrays
    <2>5. \A i \in 1..Len(metricIn') :
            /\ metricIn'[i].array # batch'.array
            /\ \A s \in pool' : metricIn'[i].array # s.array
      BY <1>1, <1>2, <2>2 DEF ExclusiveArrays
    <2>6. /\ \A w, v \in Holders' : w # v => samples'[w].array # samples'[v].array
          /\ \A w \in Holders' : \A s \in pool' : samples'[w].array # s.array
          /\ \A s \in pool' : s.array # batch'.array
          /\ \A s, t \in pool' : s # t => s.array # t.array
      BY <1>1, <1>2, <2>1 DEF ExclusiveArrays
    <2> QED BY <2>3, <2>4, <2>5, <2>6 DEF ExclusiveArrays
  <1> QED BY <1>3, <1>4, <1>5, <1>6

\* PutBatch makes the exported slice a slice of the pool.
LEMMA PutBatchIInv ==
  ASSUME IInv, PutBatch
  PROVE  IInv'
  <1> USE BatchingAssumption DEF BatchingAssumption, IInv, TypeOK
  <1> DEFINE whole == [batch EXCEPT !.len = BatchSize]
  <1>1. whole \in Slices /\ whole.array = batch.array /\ whole.len = BatchSize
    <2>1. batch \in Slices
      BY DEF PutBatch, WholeSlices
    <2>2. batch.array \in Arrays /\ whole = [array |-> batch.array, len |-> BatchSize]
      BY <2>1 DEF Slices
    <2>3. BatchSize \in 0..BatchSize
      OBVIOUS
    <2> QED BY <2>2, <2>3 DEF Slices
  <1>2. /\ pool' = pool \cup {whole}
        /\ batch' = NoSlice /\ running' = "select"
        /\ UNCHANGED <<samples, pc, metricIn>>
    BY DEF PutBatch, workerVars, chanVars
  <1> HIDE DEF whole
  <1>3. WorkerTypeOK' /\ Flushing'
    BY DEF PutBatch, WorkerTypeOK, Flushing, workerVars
  <1>4. ChannelTypeOK' /\ AggregatorTypeOK'
    BY <1>1, <1>2 DEF PutBatch, ChannelTypeOK, AggregatorTypeOK, chanVars
  <1>5. WholeSlices'
    BY <1>1, <1>2 DEF WholeSlices, Holders, Slices, NoSlice
  <1>6. /\ \A w \in Holders : samples[w].array # None
        /\ \A i \in 1..Len(metricIn) : metricIn[i].array # None
        /\ \A s \in pool' : s.array # None
    <2>1. \A s \in Slices : s.array # None
      BY DEF Slices
    <2>2. \A i \in 1..Len(metricIn) : metricIn[i] \in Slices
      BY DEF ChannelTypeOK
    <2>3. \A w \in Holders : samples[w] \in Slices
      BY DEF WholeSlices
    <2>4. \A s \in pool' : s \in Slices
      BY <1>1, <1>2 DEF ChannelTypeOK
    <2> QED BY <2>1, <2>2, <2>3, <2>4
  <1>7. ExclusiveArrays'
    BY <1>1, <1>2, <1>6 DEF ExclusiveArrays, Holders, NoSlice
  <1> QED BY <1>3, <1>4, <1>5, <1>7

(***************************************************************************)
(* The steps that touch no array: exports, the events and service checks   *)
(* of the aggregator, its flush and its stop, the server's Stop, and the   *)
(* collection of a slice of the pool.                                      *)
(***************************************************************************)
LEMMA OtherStepIInv ==
  ASSUME IInv,
         \/ AddSample \/ ReceiveEvents \/ ReceiveServiceChecks
         \/ Flush \/ StopAggregator \/ LastFlush \/ StopServer
         \/ \E payload \in sending : SendEvents(payload)
         \/ \E s \in pool : Collect(s)
  PROVE  IInv'
  <1> USE BatchingAssumption DEF BatchingAssumption, IInv, TypeOK
  <1>1. /\ UNCHANGED <<packetsIn, todo, staged, samples, samplesCount, events,
                       serviceChecks, pc, memory, metricIn, batch>>
        /\ pool' \subseteq pool
        /\ stopChan' \in {stopChan, "closed"}
        /\ running' = running \/ ( /\ running \in {"select", "stopping"}
                                   /\ running' \in {"stopping", "done"} )
    BY DEF AddSample, ReceiveEvents, ReceiveServiceChecks, Flush,
           StopAggregator, LastFlush, StopServer, SendEvents, Collect, workerVars,
           heapVars, chanVars, aggVars
  <1>2. WorkerTypeOK' /\ Flushing'
    BY <1>1 DEF WorkerTypeOK, Flushing
  <1>3. WholeSlices' /\ ExclusiveArrays'
    BY <1>1 DEF WholeSlices, ExclusiveArrays, Holders, AggregatorTypeOK
  <1>4. ChannelTypeOK' /\ AggregatorTypeOK'
    <2>1. CASE AddSample
      <3>1. next \in 1..BatchSize /\ batch \in Slices
        BY <2>1 DEF AddSample, WholeSlices, AggregatorTypeOK, Slices
      <3>2. memory[batch.array][next] \in Samples \cup {None}
        BY <3>1 DEF ChannelTypeOK, Slices
      <3>3. exported' \in Seq(Samples \cup {None})
        BY <2>1, <3>2, AppendType DEF AddSample, AggregatorTypeOK
      <3> QED BY <2>1, <3>1, <3>3 DEF AddSample, ChannelTypeOK,
                 AggregatorTypeOK, heapVars, chanVars
    <2>2. CASE ReceiveEvents
      <3>1. Head(eventIn) \in Seq(Messages) /\ Tail(eventIn) \in Seq(Seq(Messages))
        BY <2>2 DEF ReceiveEvents, ChannelTypeOK
      <3> QED BY <2>2, <3>1 DEF ReceiveEvents, ChannelTypeOK,
                 AggregatorTypeOK, heapVars
    <2>3. CASE ReceiveServiceChecks
      <3>1. /\ Head(serviceCheckIn) \in Seq(Messages)
            /\ Tail(serviceCheckIn) \in Seq(Seq(Messages))
        BY <2>3 DEF ReceiveServiceChecks, ChannelTypeOK
      <3> QED BY <2>3, <3>1 DEF ReceiveServiceChecks, ChannelTypeOK,
                 AggregatorTypeOK, heapVars
    <2>4. CASE Flush \/ StopAggregator \/ LastFlush
      <3>1. aggEvents' \in {aggEvents, <<>>} /\ sending' \subseteq sending \cup {aggEvents}
        BY <2>4 DEF Flush, StopAggregator, LastFlush, TakeEvents, FlushKeeping
      <3>2. aggEvents' \in Seq(Messages) /\ sending' \subseteq Seq(Messages)
        <4>1. <<>> \in Seq(Messages)
          OBVIOUS
        <4>2. aggEvents \in Seq(Messages) /\ sending \subseteq Seq(Messages)
          BY DEF AggregatorTypeOK
        <4> QED BY <3>1, <4>1, <4>2, Zenon
      <3>3. /\ UNCHANGED <<eventIn, serviceCheckIn, pool>>
            /\ UNCHANGED <<next, sent, failed, exported, checked>>
        BY <2>4 DEF Flush, StopAggregator, LastFlush, heapVars, chanVars
      <3> QED BY <1>1, <3>2, <3>3 DEF ChannelTypeOK, AggregatorTypeOK
    <2>5. CASE StopServer \/ \E s \in pool : Collect(s)
      BY <2>5 DEF StopServer, Collect, ChannelTypeOK, AggregatorTypeOK,
                  heapVars, chanVars, aggVars
    <2>6. CASE \E payload \in sending : SendEvents(payload)
      <3>1. PICK payload \in sending : SendEvents(payload)
        BY <2>6
      <3>2. Elements(payload) \subseteq Messages
        BY DEF Elements, AggregatorTypeOK
      <3> QED BY <3>1, <3>2 DEF SendEvents, ChannelTypeOK, AggregatorTypeOK,
                 heapVars, chanVars
    <2> QED BY <2>1, <2>2, <2>3, <2>4, <2>5, <2>6
  <1> QED BY <1>2, <1>3, <1>4

\* Every step, and every stuttering step, preserves the invariant.
LEMMA NextIInv == IInv /\ [Next]_vars => IInv'
  <1> SUFFICES ASSUME IInv, [Next]_vars PROVE IInv'
    OBVIOUS
  <1>1. ASSUME NEW w \in Workers, Worker(w) PROVE IInv'
    <2>1. CASE Refill(w)
      BY <2>1, GetBatchIInv DEF Refill
    <2>2. CASE \/ ReceivePackets(w) \/ ParseMessage(w) \/ EndOfPackets(w)
               \/ NoSamples(w) \/ ExitWorker(w)
      BY <2>2, LocalStepIInv
    <2>3. CASE AppendSample(w)
      BY <2>3, AppendSampleIInv
    <2>4. CASE FlushFull(w) \/ FlushSamples(w, "flush", "getLast")
      BY <2>4, FlushSamplesIInv DEF FlushFull
    <2>5. CASE FlushEvents(w) \/ FlushServiceChecks(w)
      BY <2>5, FlushOthersIInv
    <2> QED BY <1>1, <2>1, <2>2, <2>3, <2>4, <2>5 DEF Worker
  <1>2. CASE ReceiveSamples
    BY <1>2, ReceiveSamplesIInv
  <1>3. CASE Export
    BY <1>3, PutBatchIInv, OtherStepIInv DEF Export
  <1>4. CASE \/ ReceiveEvents \/ ReceiveServiceChecks \/ Flush
             \/ StopAggregator \/ LastFlush \/ StopServer
             \/ \E payload \in sending : SendEvents(payload)
             \/ \E s \in pool : Collect(s)
    BY <1>4, OtherStepIInv
  <1>5. CASE UNCHANGED vars
    BY <1>5 DEF vars, workerVars, chanVars, heapVars, aggVars, IInv, TypeOK,
                WorkerTypeOK, ChannelTypeOK, AggregatorTypeOK, WholeSlices,
                ExclusiveArrays, Flushing, Holders
  <1> QED BY <1>1, <1>2, <1>3, <1>4, <1>5 DEF Next

(***************************************************************************)
(* The variables of the batchers, the pool, the channels and the           *)
(* aggregator keep their types; appendSample stays inside its array.       *)
(***************************************************************************)
THEOREM TypeCorrect == Spec => []TypeOK
  <1>1. IInv => TypeOK
    BY DEF IInv
  <1> QED BY <1>1, InitIInv, NextIInv, PTL DEF Spec

(***************************************************************************)
(* An array taken from the MetricSamplePool has one owner at a time, for   *)
(* any number of workers: GetBatch never hands out an array that is being  *)
(* filled, queued or exported.                                             *)
(***************************************************************************)
THEOREM ArraysExclusive == Spec => []ExclusiveArrays
  <1>1. IInv => ExclusiveArrays
    BY DEF IInv
  <1> QED BY <1>1, InitIInv, NextIInv, PTL DEF Spec

(***************************************************************************)
(* A worker that waits for packets or has ended holds nothing it parsed:   *)
(* batcher.flush at the end of parsePackets empties all three batches.     *)
(***************************************************************************)
THEOREM WorkersLeaveNothing == Spec => []NothingLeftBehind
  <1>1. IInv => NothingLeftBehind
    BY DEF IInv, Flushing, NothingLeftBehind
  <1> QED BY <1>1, InitIInv, NextIInv, PTL DEF Spec

-----------------------------------------------------------------------------
(***************************************************************************)
(* Families of sequences in which everything is once.                      *)
(***************************************************************************)
\* Two places with the same element are the same place.
LEMMA ApartAt ==
  ASSUME NEW f, Apart(f), NEW x \in DOMAIN f, NEW y \in DOMAIN f,
         NEW i \in 1..Len(f[x]), NEW j \in 1..Len(f[y]), f[x][i] = f[y][j]
  PROVE  x = y /\ i = j
  BY DEF Apart

\* A member of such a family has nothing twice.
LEMMA FamilyMember ==
  ASSUME NEW f, Apart(f), NEW x \in DOMAIN f
  PROVE  Distinct(f[x]) /\ Elements(f[x]) \subseteq InAll(f)
  BY DEF Apart, Distinct, InAll, Elements

\* Replacing one member.
LEMMA FamilyUpdate ==
  ASSUME NEW f, NEW w \in DOMAIN f, NEW s, NEW g, g = [f EXCEPT ![w] = s],
         Apart(f), Distinct(s), Elements(s) \cap InAll(f) \subseteq Elements(f[w])
  PROVE  /\ Apart(g)
         /\ InAll(g) = (InAll(f) \ Elements(f[w])) \cup Elements(s)
  <1> DEFINE D == DOMAIN f
  <1>1. DOMAIN g = D /\ DOMAIN f = D /\ \A x \in D : g[x] = IF x = w THEN s ELSE f[x]
    OBVIOUS
  <1> HIDE DEF D
  <1>5. w \in D
    BY <1>1
  <1>2. ASSUME NEW x \in D, x # w, NEW i \in 1..Len(f[x]), NEW j \in 1..Len(s),
               f[x][i] = s[j]
        PROVE  FALSE
    <2>1. s[j] \in Elements(s) /\ f[x][i] \in InAll(f)
      BY <1>1 DEF Elements, InAll
    <2>2. PICK k \in 1..Len(f[w]) : f[w][k] = s[j]
      BY <1>2, <2>1 DEF Elements
    <2> QED BY <1>1, <1>2, <1>5, <2>2, ApartAt
  <1>3. Apart(g)
    <2> SUFFICES ASSUME NEW x \in D, NEW y \in D, NEW i \in 1..Len(g[x]),
                        NEW j \in 1..Len(g[y]), g[x][i] = g[y][j]
                 PROVE  x = y /\ i = j
      BY <1>1 DEF Apart
    <2>1. CASE x = w /\ y = w
      BY <1>1, <2>1 DEF Distinct
    <2>2. CASE x # w /\ y # w
      BY <1>1, <2>2, ApartAt
    <2>3. CASE x # w /\ y = w
      BY <1>1, <1>2, <2>3
    <2>4. CASE x = w /\ y # w
      BY <1>1, <1>2, <2>4
    <2> QED BY <2>1, <2>2, <2>3, <2>4
  <1>4. InAll(g) = (InAll(f) \ Elements(f[w])) \cup Elements(s)
    <2>1. \A x \in D : x # w => Elements(f[x]) \cap Elements(f[w]) = {}
      BY <1>1, <1>5 DEF Apart, Elements
    <2>2. \A x \in D : Elements(g[x]) = IF x = w THEN Elements(s) ELSE Elements(f[x])
      BY <1>1
    <2>3. InAll(g) \subseteq (InAll(f) \ Elements(f[w])) \cup Elements(s)
      BY <1>1, <1>5, <2>1, <2>2 DEF InAll
    <2>4. Elements(s) \subseteq InAll(g)
      BY <1>1, <1>5, <2>2 DEF InAll
    <2>5. InAll(f) \ Elements(f[w]) \subseteq InAll(g)
      BY <1>1, <2>2 DEF InAll
    <2> QED BY <2>3, <2>4, <2>5
  <1> QED BY <1>3, <1>4

\* Receiving the first member of a channel of sequences.
LEMMA FamilyTail ==
  ASSUME NEW M, NEW q \in Seq(Seq(M)), q # <<>>, Apart(q)
  PROVE  /\ Head(q) \in Seq(M) /\ Tail(q) \in Seq(Seq(M))
         /\ Apart(Tail(q)) /\ Distinct(Head(q))
         /\ Elements(Head(q)) \subseteq InAll(q)
         /\ InAll(Tail(q)) = InAll(q) \ Elements(Head(q))
  <1> DEFINE r == Tail(q)
             n == Len(q)
  <1>1. /\ n \in Nat /\ DOMAIN q = 1..n /\ DOMAIN r = 1..(n - 1) /\ 1 \in 1..n
        /\ Head(q) = q[1] /\ \A x \in 1..(n - 1) : r[x] = q[x + 1]
        /\ Head(q) \in Seq(M) /\ r \in Seq(Seq(M))
    OBVIOUS
  <1> HIDE DEF r, n
  <1>2. Distinct(Head(q)) /\ Elements(Head(q)) \subseteq InAll(q)
    BY <1>1, FamilyMember
  <1>3. \A x \in 1..(n - 1) : x + 1 \in 1..n /\ x + 1 # 1
    BY <1>1
  <1>4. Apart(r)
    <2> SUFFICES ASSUME NEW x \in 1..(n - 1), NEW y \in 1..(n - 1), NEW i \in 1..Len(r[x]),
                        NEW j \in 1..Len(r[y]), r[x][i] = r[y][j]
                 PROVE  x = y /\ i = j
      BY <1>1 DEF Apart
    <2>1. x + 1 \in DOMAIN q /\ y + 1 \in DOMAIN q
      BY <1>1, <1>3
    <2>4. PICK a \in DOMAIN q, b \in DOMAIN q : a = x + 1 /\ b = y + 1
      BY <2>1
    <2>5. r[x] = q[a] /\ r[y] = q[b]
      BY <1>1, <2>4
    <2>6. i \in 1..Len(q[a]) /\ j \in 1..Len(q[b]) /\ q[a][i] = q[b][j]
      BY <2>5, Zenon
    <2>7. a = b /\ i = j
      BY <2>6, ApartAt
    <2>2. x + 1 = y + 1 /\ i = j
      BY <2>4, <2>7
    <2>3. x \in Int /\ y \in Int
      OBVIOUS
    <2> QED BY <2>2, <2>3
  <1>5. \A x \in 1..n : x # 1 => Elements(q[x]) \cap Elements(q[1]) = {}
    <2> SUFFICES ASSUME NEW x \in 1..n, x # 1, NEW i \in 1..Len(q[x]), NEW j \in 1..Len(q[1]),
                        q[x][i] = q[1][j]
                 PROVE  FALSE
      BY DEF Elements
    <2>1. x \in DOMAIN q /\ 1 \in DOMAIN q
      BY <1>1
    <2> QED BY <2>1, Zenon DEF Apart
  <1>6. InAll(r) \subseteq InAll(q) \ Elements(q[1])
    BY <1>1, <1>3, <1>5 DEF InAll
  <1>7. InAll(q) \ Elements(q[1]) \subseteq InAll(r)
    <2> SUFFICES ASSUME NEW x \in 1..n, x # 1 PROVE Elements(q[x]) \subseteq InAll(r)
      BY <1>1 DEF InAll
    <2>1. x - 1 \in 1..(n - 1) /\ (x - 1) + 1 = x
      BY <1>1
    <2>2. r[x - 1] = q[x]
      BY <1>1, <2>1
    <2> QED BY <1>1, <2>1, <2>2 DEF InAll
  <1> QED BY <1>1, <1>2, <1>4, <1>6, <1>7 DEF r

\* Sending one more sequence.
LEMMA FamilyAppend ==
  ASSUME NEW M, NEW q \in Seq(Seq(M)), NEW s \in Seq(M), Apart(q), Distinct(s),
         Elements(s) \cap InAll(q) = {}
  PROVE  /\ Apart(Append(q, s))
         /\ InAll(Append(q, s)) = InAll(q) \cup Elements(s)
  <1> DEFINE r == Append(q, s)
             n == Len(q)
  <1>1. /\ n \in Nat /\ DOMAIN q = 1..n /\ DOMAIN r = 1..(n + 1)
        /\ r[n + 1] = s /\ \A x \in 1..n : r[x] = q[x]
    OBVIOUS
  <1> HIDE DEF r, n
  <1>2. /\ n + 1 \in 1..(n + 1) /\ \A x \in 1..(n + 1) : x \in 1..n \/ x = n + 1
        /\ \A x \in 1..n : x \in 1..(n + 1)
    BY <1>1
  <1>3. ASSUME NEW x \in 1..n, NEW i \in 1..Len(q[x]), NEW j \in 1..Len(s), q[x][i] = s[j]
        PROVE  FALSE
    <2>1. q[x][i] \in InAll(q) /\ s[j] \in Elements(s)
      BY <1>1 DEF InAll, Elements
    <2> QED BY <1>3, <2>1
  <1>4. Apart(r)
    <2> SUFFICES ASSUME NEW x \in 1..(n + 1), NEW y \in 1..(n + 1), NEW i \in 1..Len(r[x]),
                        NEW j \in 1..Len(r[y]), r[x][i] = r[y][j]
                 PROVE  x = y /\ i = j
      BY <1>1 DEF Apart
    <2>1. CASE x = n + 1 /\ y = n + 1
      BY <1>1, <2>1 DEF Distinct
    <2>2. CASE x \in 1..n /\ y \in 1..n
      <3>1. /\ x \in DOMAIN q /\ y \in DOMAIN q /\ i \in 1..Len(q[x]) /\ j \in 1..Len(q[y])
            /\ q[x][i] = q[y][j]
        BY <1>1, <2>2
      <3> QED BY <3>1, Zenon DEF Apart
    <2>3. CASE x \in 1..n /\ y = n + 1
      BY <1>1, <1>3, <2>3
    <2>4. CASE x = n + 1 /\ y \in 1..n
      BY <1>1, <1>3, <2>4
    <2> QED BY <1>2, <2>1, <2>2, <2>3, <2>4
  <1>5. InAll(r) = InAll(q) \cup Elements(s)
    <2>1. InAll(r) \subseteq InAll(q) \cup Elements(s)
      BY <1>1, <1>2 DEF InAll
    <2>2. InAll(q) \subseteq InAll(r)
      BY <1>1, <1>2 DEF InAll
    <2>3. Elements(s) \subseteq InAll(r)
      BY <1>1, <1>2 DEF InAll
    <2> QED BY <2>1, <2>2, <2>3
  <1> QED BY <1>4, <1>5 DEF r

\* Taking the first element, appending one, and joining two sequences.
LEMMA DistinctTail ==
  ASSUME NEW M, NEW s \in Seq(M), s # <<>>, Distinct(s)
  PROVE  /\ Head(s) \in M /\ Head(s) \in Elements(s)
         /\ Tail(s) \in Seq(M) /\ Distinct(Tail(s))
         /\ Elements(Tail(s)) = Elements(s) \ {Head(s)}
  <1> DEFINE r == Tail(s)
             n == Len(s)
  <1>1. /\ n \in Nat /\ Len(r) = n - 1 /\ 1 \in 1..n /\ Head(s) = s[1] /\ Head(s) \in M
        /\ r \in Seq(M) /\ \A x \in 1..(n - 1) : r[x] = s[x + 1]
    OBVIOUS
  <1>2. Len(s) = n
    OBVIOUS
  <1> HIDE DEF r, n
  <1>3. \A x \in 1..(n - 1) : x \in Int /\ x + 1 \in 1..n /\ x + 1 # 1
    BY <1>1
  <1>4. Distinct(r)
    <2> SUFFICES ASSUME NEW i \in 1..(n - 1), NEW j \in 1..(n - 1), r[i] = r[j] PROVE i = j
      BY <1>1 DEF Distinct
    <2>1. i + 1 = j + 1
      BY <1>1, <1>2, <1>3 DEF Distinct
    <2> QED BY <1>3, <2>1
  <1>5. Elements(r) \subseteq Elements(s) \ {s[1]}
    BY <1>1, <1>2, <1>3 DEF Elements, Distinct
  <1>6. Elements(s) \ {s[1]} \subseteq Elements(r)
    <2> SUFFICES ASSUME NEW x \in 1..n, x # 1 PROVE s[x] \in Elements(r)
      BY <1>2 DEF Elements
    <2>1. x - 1 \in 1..(n - 1) /\ (x - 1) + 1 = x
      BY <1>1
    <2>2. r[x - 1] = s[x]
      BY <1>1, <2>1
    <2> QED BY <1>1, <2>1, <2>2 DEF Elements
  <1>7. Head(s) \in Elements(s)
    BY <1>1, <1>2 DEF Elements
  <1> QED BY <1>1, <1>4, <1>5, <1>6, <1>7 DEF r

\* Another element at the end.
LEMMA DistinctAppend ==
  ASSUME NEW M, NEW s \in Seq(M), NEW e \in M, Distinct(s), e \notin Elements(s)
  PROVE  /\ Append(s, e) \in Seq(M) /\ Distinct(Append(s, e))
         /\ Elements(Append(s, e)) = Elements(s) \cup {e}
  <1> DEFINE r == Append(s, e)
             n == Len(s)
  <1>1. /\ n \in Nat /\ Len(r) = n + 1 /\ r[n + 1] = e /\ \A x \in 1..n : r[x] = s[x]
        /\ Len(s) = n /\ r \in Seq(M)
    OBVIOUS
  <1> HIDE DEF r, n
  <1>2. /\ n + 1 \in 1..(n + 1) /\ \A x \in 1..(n + 1) : x \in 1..n \/ x = n + 1
        /\ \A x \in 1..n : x \in 1..(n + 1)
    BY <1>1
  <1>3. \A x \in 1..n : s[x] # e
    BY <1>1 DEF Elements
  <1>4. Distinct(r)
    BY <1>1, <1>2, <1>3 DEF Distinct
  <1>5. Elements(r) = Elements(s) \cup {e}
    BY <1>1, <1>2 DEF Elements
  <1> QED BY <1>1, <1>4, <1>5 DEF r

\* Two sequences joined.
LEMMA DistinctConcat ==
  ASSUME NEW M, NEW s \in Seq(M), NEW t \in Seq(M), Distinct(s), Distinct(t),
         Elements(s) \cap Elements(t) = {}
  PROVE  /\ s \o t \in Seq(M) /\ Distinct(s \o t)
         /\ Elements(s \o t) = Elements(s) \cup Elements(t)
  <1> DEFINE r == s \o t
             n == Len(s)
             k == Len(t)
  <1>1. /\ n \in Nat /\ k \in Nat /\ Len(r) = n + k /\ Len(s) = n /\ Len(t) = k
        /\ r \in Seq(M)
        /\ \A x \in 1..(n + k) : r[x] = IF x <= n THEN s[x] ELSE t[x - n]
    BY ConcatProperties
  <1> HIDE DEF r, n, k
  <1>2. \A x \in 1..(n + k) :
          \/ x \in 1..n /\ r[x] = s[x]
          \/ x \notin 1..n /\ x - n \in 1..k /\ r[x] = t[x - n]
    BY <1>1
  <1>3. \A i \in 1..n, j \in 1..k : s[i] # t[j]
    BY <1>1 DEF Elements
  <1>4. Distinct(r)
    <2> SUFFICES ASSUME NEW i \in 1..(n + k), NEW j \in 1..(n + k), r[i] = r[j] PROVE i = j
      BY <1>1 DEF Distinct
    <2>1. CASE i \in 1..n /\ j \in 1..n
      BY <1>1, <1>2, <2>1 DEF Distinct
    <2>2. CASE i \notin 1..n /\ j \notin 1..n
      <3>1. i - n = j - n
        BY <1>1, <1>2, <2>2 DEF Distinct
      <3> QED BY <1>1, <3>1
    <2>3. CASE (i \in 1..n) # (j \in 1..n)
      BY <1>2, <1>3, <2>3
    <2> QED BY <2>1, <2>2, <2>3
  <1>5. Elements(r) \subseteq Elements(s) \cup Elements(t)
    BY <1>1, <1>2 DEF Elements
  <1>6. Elements(s) \subseteq Elements(r)
    <2> SUFFICES ASSUME NEW x \in 1..n PROVE s[x] \in Elements(r)
      BY <1>1 DEF Elements
    <2>1. x \in 1..(n + k) /\ r[x] = s[x]
      BY <1>1
    <2> QED BY <1>1, <2>1 DEF Elements
  <1>7. Elements(t) \subseteq Elements(r)
    <2> SUFFICES ASSUME NEW x \in 1..k PROVE t[x] \in Elements(r)
      BY <1>1 DEF Elements
    <2>1. x + n \in 1..(n + k) /\ ~(x + n <= n) /\ (x + n) - n = x
      BY <1>1
    <2>2. r[x + n] = t[x]
      BY <1>1, <2>1
    <2> QED BY <1>1, <2>1, <2>2 DEF Elements
  <1> QED BY <1>1, <1>4, <1>5, <1>6, <1>7 DEF r

\* A set of payloads as a family of sequences: one more, and one less.
LEMMA PayloadAdd ==
  ASSUME NEW S, NEW p, Apart([q \in S |-> q]), Distinct(p),
         Elements(p) \cap InAll([q \in S |-> q]) = {}
  PROVE  /\ Apart([q \in S \cup {p} |-> q])
         /\ InAll([q \in S \cup {p} |-> q]) = InAll([q \in S |-> q]) \cup Elements(p)
  <1>1. \A T : InAll([q \in T |-> q]) = UNION {Elements(x) : x \in T}
    BY DEF InAll
  <1>2. ASSUME NEW x \in S, NEW i \in 1..Len(x), NEW j \in 1..Len(p), x[i] = p[j]
        PROVE  FALSE
    <2>1. x[i] \in Elements(x) /\ p[j] \in Elements(p)
      BY DEF Elements
    <2>2. x[i] \in InAll([q \in S |-> q])
      BY <1>1, <2>1
    <2> QED BY <1>2, <2>1, <2>2
  <1>3. Apart([q \in S \cup {p} |-> q])
    <2> SUFFICES ASSUME NEW x \in S \cup {p}, NEW y \in S \cup {p}, NEW i \in 1..Len(x),
                        NEW j \in 1..Len(y), x[i] = y[j]
                 PROVE  x = y /\ i = j
      BY DEF Apart
    <2>1. CASE x = p /\ y = p
      BY <2>1 DEF Distinct
    <2>2. CASE x \in S /\ y \in S
      BY <2>2 DEF Apart
    <2> QED BY <1>2, <2>1, <2>2
  <1> QED BY <1>1, <1>3

\* One of them sent.
LEMMA PayloadRemove ==
  ASSUME NEW S, NEW p \in S, Apart([q \in S |-> q])
  PROVE  /\ Apart([q \in S \ {p} |-> q])
         /\ Elements(p) \subseteq InAll([q \in S |-> q])
         /\ InAll([q \in S \ {p} |-> q]) = InAll([q \in S |-> q]) \ Elements(p)
  <1>1. \A T : InAll([q \in T |-> q]) = UNION {Elements(x) : x \in T}
    BY DEF InAll
  <1>2. \A x \in S : x # p => Elements(x) \cap Elements(p) = {}
    BY DEF Apart, Elements
  <1>3. Apart([q \in S \ {p} |-> q])
    BY DEF Apart
  <1> QED BY <1>1, <1>2, <1>3

-----------------------------------------------------------------------------
(***************************************************************************)
(* Every event is at one stage of its way to the serializer.               *)
(***************************************************************************)
\* At the start all messages wait in the input.
LEMMA InitEvents == Init => EventStages
  <1> SUFFICES ASSUME Init PROVE EventStages
    OBVIOUS
  <1> USE BatchingAssumption DEF BatchingAssumption
  <1>1. Elements(<<>>) = {} /\ Distinct(<<>>) /\ InAll(<<>>) = {} /\ Apart(<<>>)
    BY DEF Elements, Distinct, InAll, Apart
  <1>2. InAll([w \in Workers |-> <<>>]) = {} /\ Apart([w \in Workers |-> <<>>])
    BY <1>1 DEF InAll, Apart
  <1>3. InAll(Payloads) = {} /\ Apart(Payloads)
    BY DEF InAll, Apart, Payloads, Init
  <1>4. StagesApart
    BY <1>1, <1>2, <1>3 DEF StagesApart, Init
  <1>5. StagesDisjoint
    BY <1>1, <1>2, <1>3 DEF StagesDisjoint, NoneInTwo, Init
  <1>6. StagesComplete
    BY DEF StagesComplete, Init
  <1>7. LastFlushDone
    BY DEF LastFlushDone, Init
  <1> QED BY <1>4, <1>5, <1>6, <1>7 DEF EventStages

\* A worker receives a group of packets.
LEMMA ReceivePacketsEvents ==
  ASSUME IInv, EventStages, NEW w \in Workers, ReceivePackets(w)
  PROVE  EventStages'
  <1>1. /\ packetsIn \in Seq(Seq(Messages)) /\ todo \in [Workers -> Seq(Messages)]
        /\ Apart(packetsIn) /\ Apart(todo)
    BY DEF IInv, TypeOK, WorkerTypeOK, EventStages, StagesApart
  <1>2. /\ packetsIn # <<>> /\ packetsIn' = Tail(packetsIn) /\ pc[w] = "wait"
        /\ todo' = [todo EXCEPT ![w] = Head(packetsIn)]
        /\ UNCHANGED <<events, eventIn, aggEvents, sending, sent, failed, running>>
    BY DEF ReceivePackets, Goto, chanVars, aggVars
  <1>3. PICK s \in Seq(Messages) : s = Head(packetsIn)
    BY <1>1, <1>2, FamilyTail
  <1>4. /\ Apart(packetsIn') /\ Distinct(s) /\ Elements(s) \subseteq InAll(packetsIn)
        /\ InAll(packetsIn') = InAll(packetsIn) \ Elements(s)
    BY <1>1, <1>2, <1>3, FamilyTail
  <1>5. InAll(packetsIn) \cap InAll(todo) = {}
    BY DEF EventStages, StagesDisjoint, NoneInTwo
  <1>6. Elements(todo[w]) = {}
    <2>1. todo[w] = <<>>
      BY <1>2 DEF IInv, Flushing
    <2> QED BY <2>1 DEF Elements
  <1>7. Apart(todo') /\ InAll(todo') = InAll(todo) \cup Elements(s)
    <2>1. w \in DOMAIN todo /\ todo' = [todo EXCEPT ![w] = s]
      BY <1>1, <1>2, <1>3
    <2>2. Elements(s) \cap InAll(todo) \subseteq Elements(todo[w])
      BY <1>4, <1>5
    <2>3. Apart(todo') /\ InAll(todo') = (InAll(todo) \ Elements(todo[w])) \cup Elements(s)
      BY <1>1, <1>4, <2>1, <2>2, FamilyUpdate
    <2> QED BY <1>6, <2>3
  <1>8. Payloads' = Payloads
    BY <1>2 DEF Payloads
  <1>9. StagesApart'
    BY <1>2, <1>4, <1>7, <1>8 DEF EventStages, StagesApart
  <1>10. StagesDisjoint'
    BY <1>2, <1>4, <1>7, <1>8 DEF EventStages, StagesDisjoint, NoneInTwo
  <1>11. StagesComplete'
    BY <1>2, <1>4, <1>7, <1>8 DEF EventStages, StagesComplete
  <1>12. LastFlushDone'
    BY <1>2 DEF EventStages, LastFlushDone
  <1> QED BY <1>9, <1>10, <1>11, <1>12 DEF EventStages

\* A worker parses a message; an event goes into its batch.
LEMMA ParseMessageEvents ==
  ASSUME IInv, EventStages, NEW w \in Workers, ParseMessage(w)
  PROVE  EventStages'
  <1>1. /\ todo \in [Workers -> Seq(Messages)] /\ events \in [Workers -> Seq(Messages)]
        /\ Apart(todo) /\ Apart(events)
    BY DEF IInv, TypeOK, WorkerTypeOK, EventStages, StagesApart
  <1>2. /\ todo[w] # <<>> /\ todo' = [todo EXCEPT ![w] = Tail(todo[w])]
        /\ events' = IF Type[Head(todo[w])] = "event"
                     THEN [events EXCEPT ![w] = Append(events[w], Head(todo[w]))] ELSE events
        /\ UNCHANGED <<packetsIn, eventIn, aggEvents, sending, sent, failed, running>>
    BY <1>1 DEF ParseMessage, chanVars, aggVars
  <1>3. Distinct(todo[w]) /\ Elements(todo[w]) \subseteq InAll(todo)
    BY <1>1, FamilyMember
  <1>4. PICK m \in Messages : m = Head(todo[w])
    BY <1>1, <1>2, <1>3, DistinctTail
  <1>5. /\ m \in Elements(todo[w]) /\ Tail(todo[w]) \in Seq(Messages)
        /\ Distinct(Tail(todo[w])) /\ Elements(Tail(todo[w])) = Elements(todo[w]) \ {m}
    BY <1>1, <1>2, <1>3, <1>4, DistinctTail
  <1>6. Apart(todo') /\ InAll(todo') = InAll(todo) \ {m}
    <2>1. /\ Apart(todo')
          /\ InAll(todo') = (InAll(todo) \ Elements(todo[w])) \cup Elements(Tail(todo[w]))
      <3>1. PICK r \in Seq(Messages) : r = Tail(todo[w])
        BY <1>5
      <3>2. w \in DOMAIN todo /\ todo' = [todo EXCEPT ![w] = r]
        BY <1>1, <1>2, <3>1
      <3>3. Distinct(r) /\ Elements(r) \cap InAll(todo) \subseteq Elements(todo[w])
        BY <1>5, <3>1
      <3>4. Apart(todo') /\ InAll(todo') = (InAll(todo) \ Elements(todo[w])) \cup Elements(r)
        BY <1>1, <3>2, <3>3, FamilyUpdate
      <3> QED BY <3>1, <3>4
    <2> QED BY <1>3, <1>5, <2>1
  <1>7. /\ Apart(events')
        /\ InAll(events') = IF Type[m] = "event" THEN InAll(events) \cup {m} ELSE InAll(events)
    <2>1. CASE Type[m] = "event"
      <3>1. events' = [events EXCEPT ![w] = Append(events[w], m)]
        BY <1>2, <1>4, <2>1
      <3>2. Distinct(events[w]) /\ Elements(events[w]) \subseteq InAll(events)
        BY <1>1, FamilyMember
      <3>3. m \in InAll(todo) /\ m \notin InAll(events)
        BY <1>3, <1>5 DEF EventStages, StagesDisjoint, NoneInTwo
      <3>4. /\ Append(events[w], m) \in Seq(Messages) /\ Distinct(Append(events[w], m))
            /\ Elements(Append(events[w], m)) = Elements(events[w]) \cup {m}
        BY <1>1, <3>2, <3>3, DistinctAppend
      <3>5. /\ Apart(events')
            /\ InAll(events') = (InAll(events) \ Elements(events[w]))
                                  \cup Elements(Append(events[w], m))
        <4>1. PICK r \in Seq(Messages) : r = Append(events[w], m)
          BY <3>4
        <4>2. w \in DOMAIN events /\ events' = [events EXCEPT ![w] = r]
          BY <1>1, <3>1, <4>1
        <4>3. Distinct(r) /\ Elements(r) \cap InAll(events) \subseteq Elements(events[w])
          BY <3>3, <3>4, <4>1
        <4>4. Apart(events') /\ InAll(events') = (InAll(events) \ Elements(events[w])) \cup Elements(r)
          BY <1>1, <4>2, <4>3, FamilyUpdate
        <4> QED BY <4>1, <4>4
      <3> QED BY <2>1, <3>2, <3>4, <3>5
    <2>2. CASE Type[m] # "event"
      BY <1>1, <1>2, <1>4, <2>2
    <2> QED BY <2>1, <2>2
  <1>8. Payloads' = Payloads /\ m \in InAll(todo)
    BY <1>2, <1>3, <1>5 DEF Payloads
  <1>9. StagesApart'
    BY <1>2, <1>6, <1>7, <1>8 DEF EventStages, StagesApart
  <1>10. StagesDisjoint'
    <2>1. CASE Type[m] = "event"
      <3>1. InAll(events') = InAll(events) \cup {m}
        BY <1>7, <2>1
      <3>2. UNCHANGED <<packetsIn, eventIn, aggEvents, Payloads, sent, failed>>
        BY <1>2, <1>8
      <3>3. /\ m \notin InAll(packetsIn) /\ m \notin InAll(eventIn)
            /\ m \notin Elements(aggEvents) /\ m \notin InAll(Payloads)
            /\ m \notin sent /\ m \notin failed
        BY <1>8 DEF EventStages, StagesDisjoint, NoneInTwo
      <3> QED BY <1>6, <3>1, <3>2, <3>3 DEF EventStages, StagesDisjoint, NoneInTwo
    <2>2. CASE Type[m] # "event"
      <3>1. InAll(events') = InAll(events)
        BY <1>7, <2>2
      <3> QED BY <1>2, <1>6, <1>8, <3>1 DEF EventStages, StagesDisjoint, NoneInTwo
    <2> QED BY <2>1, <2>2
  <1>11. StagesComplete'
    BY <1>2, <1>6, <1>7, <1>8 DEF EventStages, StagesComplete
  <1>12. LastFlushDone'
    BY <1>2 DEF EventStages, LastFlushDone
  <1> QED BY <1>9, <1>10, <1>11, <1>12 DEF EventStages

\* The batch of events goes into the channel.
LEMMA FlushEventsEvents ==
  ASSUME IInv, EventStages, NEW w \in Workers, FlushEvents(w)
  PROVE  EventStages'
  <1>1. /\ events \in [Workers -> Seq(Messages)] /\ eventIn \in Seq(Seq(Messages))
        /\ Apart(events) /\ Apart(eventIn)
    BY DEF IInv, TypeOK, WorkerTypeOK, ChannelTypeOK, EventStages, StagesApart
  <1>2. /\ events' = [events EXCEPT ![w] = <<>>]
        /\ \/ events[w] = <<>> /\ eventIn' = eventIn
           \/ eventIn' = Append(eventIn, events[w])
        /\ UNCHANGED <<packetsIn, todo, aggEvents, sending, sent, failed, running>>
    BY DEF FlushEvents, SendBatchedEvents, aggVars
  <1>3. PICK s \in Seq(Messages) : s = events[w]
    BY <1>1
  <1>4. Distinct(s) /\ Elements(s) \subseteq InAll(events)
    BY <1>1, <1>3, FamilyMember
  <1>5. Elements(<<>>) = {} /\ Distinct(<<>>) /\ <<>> \in Seq(Messages)
    BY DEF Elements, Distinct
  <1>6. Apart(events') /\ InAll(events') = InAll(events) \ Elements(s)
    <2>1. PICK r \in Seq(Messages) : r = <<>>
      BY <1>5
    <2>2. w \in DOMAIN events /\ events' = [events EXCEPT ![w] = r]
      BY <1>1, <1>2, <2>1
    <2>3. Distinct(r) /\ Elements(r) = {} /\ Elements(r) \cap InAll(events) \subseteq Elements(events[w])
      BY <1>5, <2>1
    <2>4. Apart(events') /\ InAll(events') = (InAll(events) \ Elements(events[w])) \cup Elements(r)
      BY <1>1, <2>2, <2>3, FamilyUpdate
    <2> QED BY <1>3, <2>3, <2>4
  <1>7. Elements(s) \cap InAll(eventIn) = {}
    BY <1>4 DEF EventStages, StagesDisjoint, NoneInTwo
  <1>8. Apart(eventIn') /\ InAll(eventIn') = InAll(eventIn) \cup Elements(s)
    <2>1. CASE events[w] = <<>> /\ eventIn' = eventIn
      BY <1>1, <1>3, <1>5, <2>1
    <2>2. CASE eventIn' = Append(eventIn, s)
      BY <1>1, <1>4, <1>7, <2>2, FamilyAppend
    <2> QED BY <1>2, <1>3, <2>1, <2>2
  <1>9. Payloads' = Payloads
    BY <1>2 DEF Payloads
  <1>10. StagesApart'
    BY <1>2, <1>6, <1>8, <1>9 DEF EventStages, StagesApart
  <1>11. StagesDisjoint'
    BY <1>2, <1>4, <1>6, <1>8, <1>9 DEF EventStages, StagesDisjoint, NoneInTwo
  <1>12. StagesComplete'
    BY <1>2, <1>6, <1>8, <1>9 DEF EventStages, StagesComplete
  <1>13. LastFlushDone'
    BY <1>2 DEF EventStages, LastFlushDone
  <1> QED BY <1>10, <1>11, <1>12, <1>13 DEF EventStages

\* The aggregator receives a batch of events.
LEMMA ReceiveEventsEvents ==
  ASSUME IInv, EventStages, ReceiveEvents
  PROVE  EventStages'
  <1>1. /\ eventIn \in Seq(Seq(Messages)) /\ aggEvents \in Seq(Messages)
        /\ Apart(eventIn) /\ Distinct(aggEvents)
    BY DEF IInv, TypeOK, ChannelTypeOK, AggregatorTypeOK, EventStages, StagesApart
  <1>2. /\ eventIn # <<>> /\ eventIn' = Tail(eventIn) /\ running = "select"
        /\ aggEvents' = aggEvents \o Head(eventIn)
        /\ UNCHANGED <<packetsIn, todo, events, sending, sent, failed, running>>
    BY DEF ReceiveEvents, workerVars
  <1>3. PICK s \in Seq(Messages) : s = Head(eventIn)
    BY <1>1, <1>2, FamilyTail
  <1>4. /\ Apart(eventIn') /\ Distinct(s) /\ Elements(s) \subseteq InAll(eventIn)
        /\ InAll(eventIn') = InAll(eventIn) \ Elements(s)
    BY <1>1, <1>2, <1>3, FamilyTail
  <1>5. Elements(aggEvents) \cap Elements(s) = {}
    BY <1>4 DEF EventStages, StagesDisjoint, NoneInTwo
  <1>6. Distinct(aggEvents') /\ Elements(aggEvents') = Elements(aggEvents) \cup Elements(s)
    <2>1. /\ Distinct(aggEvents \o s)
          /\ Elements(aggEvents \o s) = Elements(aggEvents) \cup Elements(s)
      BY <1>1, <1>4, <1>5, DistinctConcat
    <2> QED BY <1>2, <1>3, <2>1
  <1>7. Payloads' = Payloads
    BY <1>2 DEF Payloads
  <1>8. StagesApart'
    BY <1>2, <1>4, <1>6, <1>7 DEF EventStages, StagesApart
  <1>9. UNCHANGED <<packetsIn, todo, events, Payloads, sent, failed>>
    BY <1>2, <1>7
  <1>10. StagesDisjoint'
    BY <1>4, <1>6, <1>9 DEF EventStages, StagesDisjoint, NoneInTwo
  <1>11. StagesComplete'
    BY <1>4, <1>6, <1>9 DEF EventStages, StagesComplete
  <1>12. LastFlushDone'
    BY <1>2 DEF LastFlushDone
  <1> QED BY <1>8, <1>10, <1>11, <1>12 DEF EventStages

\* A flush gives the buffered events to a goroutine that sends them.
LEMMA FlushEventStages ==
  ASSUME IInv, EventStages, Flush \/ LastFlush
  PROVE  EventStages'
  <1>1. aggEvents' = <<>> /\ sending' = IF aggEvents = <<>> THEN sending ELSE sending \cup {aggEvents}
    BY DEF Flush, LastFlush, TakeEvents, FlushKeeping
  <1>2. UNCHANGED <<packetsIn, todo, events, eventIn, sent, failed>>
    BY DEF Flush, LastFlush, workerVars, chanVars
  <1>3. Elements(<<>>) = {} /\ Distinct(<<>>)
    BY DEF Elements, Distinct
  <1>4. Apart(Payloads') /\ InAll(Payloads') = InAll(Payloads) \cup Elements(aggEvents)
    <2>1. CASE aggEvents = <<>>
      <3>1. Payloads' = Payloads
        BY <1>1, <2>1 DEF Payloads
      <3> QED BY <1>3, <2>1, <3>1 DEF EventStages, StagesApart
    <2>2. CASE aggEvents # <<>>
      <3>1. sending' = sending \cup {aggEvents}
        BY <1>1, <2>2
      <3>2. /\ Apart([p \in sending |-> p]) /\ Distinct(aggEvents)
            /\ Elements(aggEvents) \cap InAll([p \in sending |-> p]) = {}
        BY DEF EventStages, StagesApart, StagesDisjoint, NoneInTwo, Payloads
      <3>3. /\ Apart([p \in sending \cup {aggEvents} |-> p])
            /\ InAll([p \in sending \cup {aggEvents} |-> p])
                 = InAll([p \in sending |-> p]) \cup Elements(aggEvents)
        BY <3>2, PayloadAdd
      <3> QED BY <3>1, <3>3 DEF Payloads
    <2> QED BY <2>1, <2>2
  <1>5. Distinct(aggEvents') /\ Elements(aggEvents') = {}
    BY <1>1, <1>3
  <1>6. StagesApart'
    BY <1>2, <1>4, <1>5 DEF EventStages, StagesApart
  <1>7. StagesDisjoint'
    BY <1>2, <1>4, <1>5 DEF EventStages, StagesDisjoint, NoneInTwo
  <1>8. StagesComplete'
    BY <1>2, <1>4, <1>5 DEF EventStages, StagesComplete
  <1>9. LastFlushDone'
    BY <1>1 DEF LastFlushDone
  <1> QED BY <1>6, <1>7, <1>8, <1>9 DEF EventStages

\* The serializer answers.
LEMMA SendEventsEvents ==
  ASSUME IInv, EventStages, NEW payload \in sending, SendEvents(payload)
  PROVE  EventStages'
  <1>1. /\ sending' = sending \ {payload}
        /\ UNCHANGED <<packetsIn, todo, events, eventIn, aggEvents, running>>
    BY DEF SendEvents, workerVars, chanVars
  <1>2. /\ Apart([p \in sending \ {payload} |-> p])
        /\ Elements(payload) \subseteq InAll([p \in sending |-> p])
        /\ InAll([p \in sending \ {payload} |-> p])
             = InAll([p \in sending |-> p]) \ Elements(payload)
    <2>1. Apart([p \in sending |-> p])
      BY DEF EventStages, StagesApart, Payloads
    <2> QED BY <2>1, PayloadRemove
  <1>3. /\ Apart(Payloads') /\ Elements(payload) \subseteq InAll(Payloads)
        /\ InAll(Payloads') = InAll(Payloads) \ Elements(payload)
    BY <1>1, <1>2 DEF Payloads
  <1>4. \/ sent' = sent \cup Elements(payload) /\ failed' = failed
        \/ failed' = failed \cup Elements(payload) /\ sent' = sent
    BY DEF SendEvents
  <1>5. StagesApart'
    BY <1>1, <1>3 DEF EventStages, StagesApart
  <1>6. StagesDisjoint'
    <2>1. CASE sent' = sent \cup Elements(payload) /\ failed' = failed
      BY <1>1, <1>3, <2>1 DEF EventStages, StagesDisjoint, NoneInTwo
    <2>2. CASE failed' = failed \cup Elements(payload) /\ sent' = sent
      BY <1>1, <1>3, <2>2 DEF EventStages, StagesDisjoint, NoneInTwo
    <2> QED BY <1>4, <2>1, <2>2
  <1>7. StagesComplete'
    BY <1>1, <1>3, <1>4 DEF EventStages, StagesComplete
  <1>8. LastFlushDone'
    BY <1>1 DEF EventStages, LastFlushDone
  <1> QED BY <1>5, <1>6, <1>7, <1>8 DEF EventStages

\* All other steps leave the events where they are.
LEMMA QuietEvents ==
  ASSUME EventStages, LastFlushDone',
         UNCHANGED <<packetsIn, todo, events, eventIn, aggEvents, sending, sent, failed>>
  PROVE  EventStages'
  <1>1. Payloads' = Payloads
    BY DEF Payloads
  <1>2. StagesApart'
    BY <1>1 DEF EventStages, StagesApart
  <1>3. StagesDisjoint' /\ StagesComplete'
    BY <1>1 DEF EventStages, StagesDisjoint, StagesComplete, NoneInTwo
  <1> QED BY <1>2, <1>3 DEF EventStages

\* Every step keeps the stages of the events.
LEMMA NextEvents == IInv /\ EventStages /\ [Next]_vars => EventStages'
  <1> SUFFICES ASSUME IInv, EventStages, [Next]_vars PROVE EventStages'
    OBVIOUS
  <1>1. ASSUME UNCHANGED <<packetsIn, todo, events, eventIn, aggEvents, sending, sent, failed>>,
               running' = "done" => running = "done" \/ ~FlushOnStop
        PROVE  EventStages'
    <2>1. LastFlushDone'
      BY <1>1, Zenon DEF EventStages, LastFlushDone
    <2> QED BY <1>1, <2>1, QuietEvents
  <1>2. ASSUME NEW w \in Workers, Worker(w) PROVE EventStages'
    <2>1. CASE Refill(w)
      BY <1>1, <2>1 DEF Refill, GetBatch, chanVars, aggVars
    <2>2. CASE AppendSample(w) \/ FlushFull(w) \/ FlushSamples(w, "flush", "getLast")
      BY <1>1, <2>2 DEF AppendSample, FlushFull, FlushSamples, SendSamples, chanVars, aggVars
    <2>3. CASE EndOfPackets(w) \/ NoSamples(w) \/ ExitWorker(w) \/ FlushServiceChecks(w)
      BY <1>1, <2>3 DEF EndOfPackets, NoSamples, ExitWorker, FlushServiceChecks,
         SendBatchedChecks, chanVars, aggVars
    <2> QED BY <1>2, <2>1, <2>2, <2>3, ReceivePacketsEvents, ParseMessageEvents, FlushEventsEvents
            DEF Worker
  <1>3. CASE (\E s \in pool : Collect(s)) \/ StopServer \/ ReceiveSamples \/ Export
             \/ ReceiveServiceChecks
    <2>1. UNCHANGED <<packetsIn, todo, events, eventIn, aggEvents, sending, sent, failed>>
      BY <1>3 DEF Collect, StopServer, ReceiveSamples, Export, AddSample, PutBatch,
         ReceiveServiceChecks, workerVars, chanVars, aggVars
    <2>2. running' = "done" => running = "done"
      BY <1>3 DEF Collect, StopServer, ReceiveSamples, Export, AddSample, PutBatch,
         ReceiveServiceChecks, aggVars
    <2> QED BY <1>1, <2>1, <2>2
  <1>4. CASE StopAggregator
    <2>1. UNCHANGED <<packetsIn, todo, events, eventIn, aggEvents, sending, sent, failed>>
      BY <1>4 DEF StopAggregator, workerVars, chanVars
    <2>2. running' = "done" => ~FlushOnStop
      BY <1>4, BatchingAssumption DEF StopAggregator, BatchingAssumption
    <2> QED BY <1>1, <2>1, <2>2
  <1>5. CASE UNCHANGED vars
    BY <1>1, <1>5 DEF vars, workerVars, chanVars, aggVars
  <1> QED BY <1>2, <1>3, <1>4, <1>5, ReceiveEventsEvents, FlushEventStages, SendEventsEvents DEF Next

\* One place among sets and sequences that have nothing twice.
LEMMA OneIn ==
  ASSUME NEW f, NEW m, Apart(f)
  PROVE  Cardinality({x \in DOMAIN f : m \in Elements(f[x])})
           = IF m \in InAll(f) THEN 1 ELSE 0
  <1> DEFINE S == {x \in DOMAIN f : m \in Elements(f[x])}
  <1>1. \A x, y \in S : x = y
    BY DEF Apart, Elements
  <1>2. S # {} <=> m \in InAll(f)
    BY DEF InAll
  <1>3. CASE S = {}
    BY <1>2, <1>3, FS_EmptySet
  <1>4. CASE S # {}
    <2>1. PICK x \in S : S = {x}
      BY <1>1, <1>4
    <2>2. Cardinality({x}) = 1
      BY FS_Singleton
    <2> QED BY <1>2, <1>4, <2>1, <2>2
  <1> QED BY <1>3, <1>4

\* The same in one sequence.
LEMMA OnceIn ==
  ASSUME NEW s, NEW m, Distinct(s)
  PROVE  Cardinality({i \in 1..Len(s) : s[i] = m}) = IF m \in Elements(s) THEN 1 ELSE 0
  <1> DEFINE S == {i \in 1..Len(s) : s[i] = m}
  <1>1. \A i, j \in S : i = j
    BY DEF Distinct
  <1>2. S # {} <=> m \in Elements(s)
    BY DEF Elements
  <1>3. CASE S = {}
    BY <1>2, <1>3, FS_EmptySet
  <1>4. CASE S # {}
    <2>1. PICK x \in S : S = {x}
      BY <1>1, <1>4
    <2>2. Cardinality({x}) = 1
      BY FS_Singleton
    <2> QED BY <1>2, <1>4, <2>1, <2>2
  <1> QED BY <1>3, <1>4

(***************************************************************************)
(* EventsOnTheWay: an event a worker has parsed is in one batch, one slot  *)
(* of the channel, the aggregator's buffer or one payload, or its payload  *)
(* was accepted or refused, once; the last flush of a stopped aggregator   *)
(* leaves none in the buffer.                                              *)
(***************************************************************************)
THEOREM EventsOnTheWay == Spec => []EventsSentOnce
  <1>1. ASSUME IInv, EventStages PROVE EventsSentOnce
    <2>1. sent \cap failed = {}
      BY <1>1 DEF EventStages, StagesDisjoint, NoneInTwo
    <2>2. running = "done" /\ FlushOnStop => aggEvents = <<>>
      BY <1>1 DEF EventStages, LastFlushDone
    <2>3. ASSUME NEW m \in Messages, Type[m] = "event", Parsed(m)
          PROVE  Cardinality({w \in Workers : m \in Elements(events[w])})
                   + Cardinality({i \in 1..Len(eventIn) : m \in Elements(eventIn[i])})
                   + Cardinality({i \in 1..Len(aggEvents) : aggEvents[i] = m})
                   + Cardinality({p \in sending : m \in Elements(p)})
                   + (IF m \in sent \cup failed THEN 1 ELSE 0) = 1
      <3>1. DOMAIN packetsIn = 1..Len(packetsIn) /\ DOMAIN eventIn = 1..Len(eventIn)
        BY <1>1 DEF IInv, TypeOK, WorkerTypeOK, ChannelTypeOK
      <3>2. DOMAIN todo = Workers /\ DOMAIN events = Workers
        BY <1>1 DEF IInv, TypeOK, WorkerTypeOK
      <3>3. m \notin InAll(packetsIn) /\ m \notin InAll(todo)
        BY <2>3, <3>1, <3>2 DEF Parsed, InAll
      <3>4. Cardinality({w \in Workers : m \in Elements(events[w])})
              = IF m \in InAll(events) THEN 1 ELSE 0
        BY <1>1, <3>2, OneIn DEF EventStages, StagesApart
      <3>5. Cardinality({i \in 1..Len(eventIn) : m \in Elements(eventIn[i])})
              = IF m \in InAll(eventIn) THEN 1 ELSE 0
        BY <1>1, <3>1, OneIn DEF EventStages, StagesApart
      <3>6. Cardinality({i \in 1..Len(aggEvents) : aggEvents[i] = m})
              = IF m \in Elements(aggEvents) THEN 1 ELSE 0
        BY <1>1, OnceIn DEF EventStages, StagesApart
      <3>7. Cardinality({p \in sending : m \in Elements(p)})
              = IF m \in InAll(Payloads) THEN 1 ELSE 0
        <4>1. {p \in DOMAIN Payloads : m \in Elements(Payloads[p])} = {p \in sending : m \in Elements(p)}
          BY DEF Payloads
        <4>2. Apart(Payloads)
          BY <1>1 DEF EventStages, StagesApart
        <4>3. Cardinality({p \in DOMAIN Payloads : m \in Elements(Payloads[p])})
                = IF m \in InAll(Payloads) THEN 1 ELSE 0
          BY <4>2, OneIn
        <4> QED BY <4>1, <4>3
      <3>8. /\ m \in InAll(events) \cup InAll(eventIn) \cup Elements(aggEvents)
                       \cup InAll(Payloads) \cup sent \cup failed
            /\ m \in InAll(events) => m \notin InAll(eventIn) \cup Elements(aggEvents)
                                              \cup InAll(Payloads) \cup sent \cup failed
            /\ m \in InAll(eventIn) => m \notin Elements(aggEvents) \cup InAll(Payloads)
                                               \cup sent \cup failed
            /\ m \in Elements(aggEvents) => m \notin InAll(Payloads) \cup sent \cup failed
            /\ m \in InAll(Payloads) => m \notin sent \cup failed
        <4>1. m \in InAll(events) \cup InAll(eventIn) \cup Elements(aggEvents)
                      \cup InAll(Payloads) \cup sent \cup failed
          BY <1>1, <2>3, <3>3 DEF EventStages, StagesComplete
        <4> QED BY <1>1, <4>1 DEF EventStages, StagesDisjoint, NoneInTwo
      <3> QED BY <3>4, <3>5, <3>6, <3>7, <3>8
    <2> QED BY <2>1, <2>2, <2>3 DEF EventsSentOnce
  <1> QED BY <1>1, InitIInv, NextIInv, InitEvents, NextEvents, PTL DEF Spec

-----------------------------------------------------------------------------
(***************************************************************************)
(* Samples, one stage behind the other.                                    *)
(***************************************************************************)
\* The place of a message in the input.
LEMMA RankIs ==
  ASSUME NEW m \in Messages
  PROVE  /\ Group(m) \in 1..Len(Input) /\ Index(m) \in 1..Len(Input[Group(m)])
         /\ Input[Group(m)][Index(m)] = m
  <1> USE BatchingAssumption DEF BatchingAssumption
  <1> DEFINE P == UNION {{g} \X (1..Len(Input[g])) : g \in 1..Len(Input)}
  <1>1. \A p \in P : p[1] \in 1..Len(Input) /\ p[2] \in 1..Len(Input[p[1]])
    OBVIOUS
  <1>2. PICK g \in DOMAIN Input : m \in Elements(Input[g])
    BY DEF InAll
  <1>3. PICK i \in 1..Len(Input[g]) : Input[g][i] = m
    BY <1>2 DEF Elements
  <1>4. <<g, i>> \in P /\ Input[<<g, i>>[1]][<<g, i>>[2]] = m
    BY <1>2, <1>3
  <1>5. Rank(m) \in P /\ Input[Rank(m)[1]][Rank(m)[2]] = m
    <2> HIDE DEF P
    <2>1. \E p \in P : Input[p[1]][p[2]] = m
      BY <1>4, Zenon
    <2>2. Rank(m) = CHOOSE p \in P : Input[p[1]][p[2]] = m
      BY DEF Rank, P
    <2> QED BY <2>1, <2>2
  <1> QED BY <1>1, <1>5 DEF Group, Index

\* And the message at a place.
LEMMA RankOf ==
  ASSUME NEW g \in 1..Len(Input), NEW i \in 1..Len(Input[g])
  PROVE  /\ Input[g][i] \in Messages
         /\ Group(Input[g][i]) = g /\ Index(Input[g][i]) = i
  <1>1. /\ Apart(Input) /\ DOMAIN Input = 1..Len(Input) /\ Input[g] \in Seq(Messages)
    BY BatchingAssumption DEF BatchingAssumption
  <1>2. PICK m \in Messages : m = Input[g][i]
    BY <1>1
  <1>3. /\ Group(m) \in 1..Len(Input) /\ Index(m) \in 1..Len(Input[Group(m)])
        /\ Input[Group(m)][Index(m)] = m
    BY RankIs
  <1> QED BY <1>1, <1>2, <1>3, ApartAt

\* Nothing precedes itself.
LEMMA PrecedesStrict ==
  ASSUME NEW s \in Samples
  PROVE  ~Precedes(s, s)
  <1>1. s[1] \in Messages
    BY DEF Samples
  <1>2. Index(s[1]) \in Nat
    <2>1. Index(s[1]) \in 1..Len(Input[Group(s[1])])
      BY <1>1, RankIs
    <2> QED BY <2>1
  <1> QED BY <1>2 DEF Precedes

\* Samples of different groups have no order to keep.
LEMMA OtherAhead ==
  ASSUME NEW A, NEW B, OtherGroups(A, B)
  PROVE  Ahead(A, B)
  BY DEF OtherGroups, Ahead, Precedes

\* Moves along the stages: a sample is exported,
LEMMA LinedExport ==
  ASSUME NEW d, NEW e, NEW q, NEW b, NEW p, NEW c, Lined(d, e, q, b, p, c),
         NEW d2, NEW e2, NEW X, Ahead(X, e2), e = X \cup e2, d2 = d \cup X
  PROVE  Lined(d2, e2, q, b, p, c)
  BY DEF Lined, Ahead

\* a slice is received from the channel,
LEMMA LinedReceive ==
  ASSUME NEW d, NEW e, NEW q, NEW b, NEW p, NEW c, Lined(d, e, q, b, p, c), e = {},
         NEW e2, NEW q2, q = e2 \cup q2, Ahead(e2, q2)
  PROVE  Lined(d, e2, q2, b, p, c)
  BY DEF Lined, Ahead

\* a batch is sent,
LEMMA LinedSend ==
  ASSUME NEW d, NEW e, NEW q, NEW b, NEW p, NEW c, Lined(d, e, q, b, p, c),
         NEW w \in Workers, NEW q2, NEW b2, q2 = q \cup b[w], b2[w] = {},
         \A v \in Workers : v # w => b2[v] = b[v]
  PROVE  Lined(d, e, q2, b2, p, c)
  <1>1. Ahead(d, e) /\ Ahead(d \cup e, q2)
    BY DEF Lined, Ahead
  <1>2. ASSUME NEW v \in Workers
        PROVE  /\ Ahead(d \cup e \cup q2, b2[v] \cup p[v] \cup c[v])
               /\ Ahead(b2[v], p[v] \cup c[v]) /\ Ahead(p[v], c[v])
    <2>1. CASE v = w
      BY <2>1 DEF Lined, Ahead
    <2>2. CASE v # w
      <3>1. OtherGroups(b[w], b[v] \cup p[v] \cup c[v])
        BY <2>2 DEF Lined, OtherGroups
      <3>2. Ahead(b[w], b[v] \cup p[v] \cup c[v])
        BY <3>1, OtherAhead
      <3> QED BY <2>2, <3>2 DEF Lined, Ahead
    <2> QED BY <2>1, <2>2
  <1>3. ASSUME NEW u \in Workers, NEW v \in Workers, u # v
        PROVE  OtherGroups(b2[u] \cup p[u] \cup c[u], b2[v] \cup p[v] \cup c[v])
    <2>1. OtherGroups(b[u] \cup p[u] \cup c[u], b[v] \cup p[v] \cup c[v])
      BY <1>3 DEF Lined
    <2>2. b2[u] \subseteq b[u] /\ b2[v] \subseteq b[v]
      OBVIOUS
    <2> QED BY <2>1, <2>2 DEF OtherGroups
  <1> QED BY <1>1, <1>2, <1>3 DEF Lined

\* a sample is appended to a batch,
LEMMA LinedAppend ==
  ASSUME NEW d, NEW e, NEW q, NEW b, NEW p, NEW c, Lined(d, e, q, b, p, c),
         NEW w \in Workers, NEW b2, NEW p2, NEW X, Ahead(X, p2[w]),
         p[w] = X \cup p2[w], b2[w] = b[w] \cup X,
         \A v \in Workers : v # w => b2[v] = b[v] /\ p2[v] = p[v]
  PROVE  Lined(d, e, q, b2, p2, c)
  <1>1. \A v \in Workers : b2[v] \cup p2[v] \cup c[v] = b[v] \cup p[v] \cup c[v]
    OBVIOUS
  <1>2. ASSUME NEW v \in Workers
        PROVE  Ahead(b2[v], p2[v] \cup c[v]) /\ Ahead(p2[v], c[v])
    <2>1. CASE v = w
      BY <2>1 DEF Lined, Ahead
    <2>2. CASE v # w
      BY <2>2 DEF Lined
    <2> QED BY <2>1, <2>2
  <1> QED BY <1>1, <1>2 DEF Lined

\* a message is parsed,
LEMMA LinedParse ==
  ASSUME NEW d, NEW e, NEW q, NEW b, NEW p, NEW c, Lined(d, e, q, b, p, c),
         NEW w \in Workers, NEW p2, NEW c2, NEW m, <<m, "parsed">> \in c[w], p[w] = {},
         \A t \in p2[w] : t[1] = m, c2[w] \subseteq c[w], Ahead(p2[w], c2[w]),
         \A v \in Workers : v # w => p2[v] = p[v] /\ c2[v] = c[v]
  PROVE  Lined(d, e, q, b, p2, c2)
  <1> DEFINE r == p2[w]
             k == c2[w]
  <1>1. ASSUME NEW A, Ahead(A, c[w]) PROVE Ahead(A, r \cup k)
    <2>1. ASSUME NEW s \in A, NEW t \in r PROVE Precedes(s, t)
      <3>1. Precedes(s, <<m, "parsed">>)
        BY <1>1 DEF Ahead
      <3> QED BY <3>1 DEF Precedes
    <2> QED BY <1>1, <2>1 DEF Ahead
  <1>2. ASSUME NEW A, OtherGroups(A, c[w]) PROVE OtherGroups(A, r \cup k)
    BY <1>2 DEF OtherGroups
  <1>3. ASSUME NEW A, OtherGroups(c[w], A) PROVE OtherGroups(r \cup k, A)
    BY <1>3 DEF OtherGroups
  <1>4. ASSUME NEW v \in Workers
        PROVE  /\ Ahead(d \cup e \cup q, b[v] \cup p2[v] \cup c2[v])
               /\ Ahead(b[v], p2[v] \cup c2[v]) /\ Ahead(p2[v], c2[v])
    <2>1. CASE v = w
      <3>1. /\ Ahead(d \cup e \cup q, b[w]) /\ Ahead(d \cup e \cup q, c[w])
            /\ Ahead(b[w], c[w])
        BY DEF Lined, Ahead
      <3>2. Ahead(d \cup e \cup q, r \cup k) /\ Ahead(b[w], r \cup k)
        BY <1>1, <3>1
      <3>3. Ahead(d \cup e \cup q, b[w] \cup r \cup k)
        BY <3>1, <3>2 DEF Ahead
      <3> QED BY <2>1, <3>2, <3>3
    <2>2. CASE v # w
      BY <2>2 DEF Lined
    <2> QED BY <2>1, <2>2
  <1>5. ASSUME NEW u \in Workers, NEW v \in Workers, u # v
        PROVE  OtherGroups(b[u] \cup p2[u] \cup c2[u], b[v] \cup p2[v] \cup c2[v])
    <2> DEFINE U == b[u] \cup p[u] \cup c[u]
               V == b[v] \cup p[v] \cup c[v]
    <2>1. OtherGroups(U, V)
      BY <1>5 DEF Lined
    <2>2. CASE u # w /\ v # w
      BY <2>1, <2>2
    <2>3. CASE u = w
      <3>1. OtherGroups(c[w], V) /\ OtherGroups(b[w], V)
        BY <2>1, <2>3 DEF OtherGroups
      <3> HIDE DEF V
      <3>2. OtherGroups(r \cup k, V)
        BY <1>3, <3>1
      <3>3. OtherGroups(b[w] \cup r \cup k, V)
        BY <3>1, <3>2 DEF OtherGroups
      <3> QED BY <1>5, <2>3, <3>3 DEF V
    <2>4. CASE v = w
      <3>1. OtherGroups(U, c[w]) /\ OtherGroups(U, b[w])
        BY <2>1, <2>4 DEF OtherGroups
      <3> HIDE DEF U
      <3>2. OtherGroups(U, r \cup k)
        BY <1>2, <3>1
      <3>3. OtherGroups(U, b[w] \cup r \cup k)
        BY <3>1, <3>2 DEF OtherGroups
      <3> QED BY <1>5, <2>4, <3>3 DEF U
    <2> QED BY <2>2, <2>3, <2>4
  <1> QED BY <1>4, <1>5 DEF Lined

\* and a group is received.
LEMMA LinedTake ==
  ASSUME NEW d, NEW e, NEW q, NEW b, NEW p, NEW c, Lined(d, e, q, b, p, c),
         NEW w \in Workers, NEW c2, b[w] = {}, p[w] = {},
         OtherGroups(d \cup e \cup q, c2[w]),
         \A v \in Workers : v # w =>
           OtherGroups(b[v] \cup p[v] \cup c[v], c2[w]) /\ c2[v] = c[v]
  PROVE  Lined(d, e, q, b, p, c2)
  <1> DEFINE k == c2[w]
  <1>1. ASSUME NEW v \in Workers
        PROVE  /\ Ahead(d \cup e \cup q, b[v] \cup p[v] \cup c2[v])
               /\ Ahead(b[v], p[v] \cup c2[v]) /\ Ahead(p[v], c2[v])
    <2>1. CASE v = w
      <3>1. Ahead(d \cup e \cup q, k)
        BY OtherAhead
      <3> QED BY <2>1, <3>1 DEF Ahead
    <2>2. CASE v # w
      BY <2>2 DEF Lined
    <2> QED BY <2>1, <2>2
  <1>2. \A v \in Workers : v # w => OtherGroups(k, b[v] \cup p[v] \cup c[v])
    BY DEF OtherGroups
  <1>3. ASSUME NEW u \in Workers, NEW v \in Workers, u # v
        PROVE  OtherGroups(b[u] \cup p[u] \cup c2[u], b[v] \cup p[v] \cup c2[v])
    <2>1. CASE u # w /\ v # w
      BY <1>3, <2>1 DEF Lined
    <2>2. CASE u = w
      BY <1>2, <1>3, <2>2
    <2>3. CASE v = w
      BY <1>3, <2>3
    <2> QED BY <2>1, <2>2, <2>3
  <1> QED BY <1>1, <1>3 DEF Lined

-----------------------------------------------------------------------------
\* An array that only a worker, or nobody, refers to shows nowhere else.
LEMMA GivenKept ==
  ASSUME IInv, NEW a, a # batch.array,
         \A k \in 1..Len(metricIn) : metricIn[k].array # a,
         \A x \in Arrays : x # a => memory'[x] = memory[x],
         UNCHANGED <<exported, batch, next, metricIn>>
  PROVE  /\ Exported' = Exported /\ Exporting' = Exporting /\ Queued' = Queued
         /\ GivenInOrder => GivenInOrder'
  <1>1. /\ metricIn \in Seq(Slices) /\ batch \in Slices \cup {NoSlice}
        /\ next \in Nat \ {0}
    BY DEF IInv, TypeOK, ChannelTypeOK, AggregatorTypeOK
  <1>2. Exported' = Exported
    BY DEF Exported, Elements
  <1>3. \A k \in 1..Len(metricIn) :
          metricIn[k].array \in Arrays /\ memory'[metricIn[k].array] = memory[metricIn[k].array]
    <2>1. ASSUME NEW k \in 1..Len(metricIn) PROVE metricIn[k].array \in Arrays
      <3>1. metricIn[k] \in Slices
        BY <1>1
      <3> QED BY <3>1 DEF Slices
    <2>2. ASSUME NEW k \in 1..Len(metricIn)
          PROVE  memory'[metricIn[k].array] = memory[metricIn[k].array]
      <3>1. PICK x \in Arrays : x = metricIn[k].array
        BY <2>1
      <3> QED BY <3>1
    <2> QED BY <2>1, <2>2
  <1>4. Queued' = Queued
    BY <1>3 DEF Queued, Part
  <1>5. \A i \in next..batch.len : memory'[batch.array][i] = memory[batch.array][i]
    BY <1>1 DEF Slices, NoSlice
  <1>6. Exporting' = Exporting
    BY <1>5 DEF Exporting, Part
  <1>7. ASSUME GivenInOrder PROVE GivenInOrder'
    <2>1. InOrder(exported)'
      BY <1>7 DEF GivenInOrder, InOrder
    <2>2. PartInOrder(batch.array, next, batch.len)'
      BY <1>5, <1>7 DEF GivenInOrder, PartInOrder
    <2>3. ASSUME NEW k \in 1..Len(metricIn)
          PROVE  PartInOrder(metricIn[k].array, 1, metricIn[k].len)'
      BY <1>3, <1>7 DEF GivenInOrder, PartInOrder
    <2>4. \A k, l \in 1..Len(metricIn) : k < l => Ahead(Queued[k], Queued[l])
      BY <1>7 DEF GivenInOrder
    <2>5. (\A k, l \in 1..Len(metricIn) : k < l => Ahead(Queued[k], Queued[l]))'
      BY <1>4, <2>4 DEF Ahead
    <2> QED BY <2>1, <2>2, <2>3, <2>5 DEF GivenInOrder
  <1> QED BY <1>2, <1>4, <1>6, <1>7

\* What is somewhere stays complete as long as no message is parsed.
LEMMA CompleteKept ==
  ASSUME SamplesComplete, UNCHANGED <<packetsIn, todo>>, Somewhere' = Somewhere
  PROVE  SamplesComplete'
  <1>1. Received' = Received /\ \A m \in Messages : Parsed(m)' = Parsed(m)
    BY DEF Received, Parsed
  <1> QED BY <1>1 DEF SamplesComplete

\* What a worker has is somewhere.
LEMMA StagedType ==
  ASSUME IInv, SamplesComplete, NEW w \in Workers
  PROVE  /\ Batched[w] \subseteq Somewhere /\ Staged[w] \subseteq Somewhere
         /\ \A s \in Batched[w] \cup Staged[w] : s \in Samples
  BY DEF SamplesComplete, Somewhere, Union, Batched, Staged

\* The elements of a sequence are its first and those of its rest.
LEMMA HeadOfElements ==
  ASSUME NEW M, NEW q \in Seq(M), q # <<>>
  PROVE  /\ Head(q) \in M /\ Tail(q) \in Seq(M)
         /\ Elements(q) = {Head(q)} \cup Elements(Tail(q))
  <1>1. /\ Len(q) \in Nat /\ 1 \in 1..Len(q) /\ Len(Tail(q)) = Len(q) - 1
        /\ Head(q) = q[1] /\ \A i \in 1..(Len(q) - 1) : Tail(q)[i] = q[i + 1]
        /\ Head(q) \in M /\ Tail(q) \in Seq(M)
    OBVIOUS
  <1>2. \A i \in 1..Len(q) : i # 1 => i - 1 \in 1..(Len(q) - 1) /\ (i - 1) + 1 = i
    BY <1>1
  <1>3. \A i \in 1..(Len(q) - 1) : i + 1 \in 1..Len(q)
    BY <1>1
  <1>4. \A i \in 1..Len(q) : q[i] \in {Head(q)} \cup Elements(Tail(q))
    <2> SUFFICES ASSUME NEW i \in 1..Len(q), i # 1 PROVE q[i] \in Elements(Tail(q))
      BY <1>1
    <2>1. PICK k \in 1..(Len(q) - 1) : k + 1 = i
      BY <1>2
    <2> QED BY <1>1, <2>1 DEF Elements
  <1>5. \A i \in 1..(Len(q) - 1) : Tail(q)[i] \in Elements(q)
    BY <1>1, <1>3 DEF Elements
  <1> QED BY <1>1, <1>4, <1>5 DEF Elements

\* It comes before the others.
LEMMA HeadAhead ==
  ASSUME NEW M, NEW q \in Seq(M), q # <<>>, InOrder(q)
  PROVE  Ahead({Head(q)}, Elements(Tail(q))) /\ InOrder(Tail(q))
  <1>1. /\ Len(q) \in Nat /\ 1 \in 1..Len(q) /\ Len(Tail(q)) = Len(q) - 1
        /\ Head(q) = q[1] /\ \A i \in 1..(Len(q) - 1) : Tail(q)[i] = q[i + 1]
    OBVIOUS
  <1>2. ASSUME NEW i \in 1..Len(Tail(q)) PROVE Precedes(Head(q), Tail(q)[i])
    <2>1. PICK k \in 1..Len(q) : k = i + 1
      BY <1>1
    <2> QED BY <1>1, <2>1 DEF InOrder
  <1>3. ASSUME NEW i \in 1..Len(Tail(q)), NEW j \in 1..Len(Tail(q)), i < j
        PROVE  Precedes(Tail(q)[i], Tail(q)[j])
    <2>1. PICK k \in 1..Len(q) : k = i + 1
      BY <1>1
    <2>2. PICK l \in 1..Len(q) : l = j + 1
      BY <1>1
    <2> QED BY <1>1, <1>3, <2>1, <2>2 DEF InOrder
  <1> QED BY <1>2, <1>3 DEF Ahead, Elements, InOrder

\* appendSample moves a sample from the message into the batch.
LEMMA AppendSampleStages ==
  ASSUME IInv, SampleStages, NEW w \in Workers, AppendSample(w)
  PROVE  SampleStages'
  <1> DEFINE a == samples[w].array
             n == samplesCount[w]
             x == Head(staged[w])
  <1>1. /\ pc[w] = "parse" /\ staged[w] # <<>> /\ n # samples[w].len
        /\ memory' = [memory EXCEPT ![a][n + 1] = x]
        /\ samplesCount' = [samplesCount EXCEPT ![w] = n + 1]
        /\ staged' = [staged EXCEPT ![w] = Tail(staged[w])]
        /\ UNCHANGED <<packetsIn, todo, samples, pc, metricIn, batch, next, exported>>
    BY DEF AppendSample, chanVars, aggVars
  <1>2. w \in Holders /\ samples[w] \in Slices /\ samples[w].len = BatchSize
    BY <1>1 DEF Holders, Refilling, IInv, WholeSlices
  <1>3. /\ a \in Arrays /\ n \in 0..BatchSize /\ n + 1 \in 1..BatchSize
    BY <1>1, <1>2, BatchingAssumption DEF Slices, BatchingAssumption, IInv, TypeOK, WorkerTypeOK
  <1>4. memory \in [Arrays -> [1..BatchSize -> Samples \cup {None}]]
    BY DEF IInv, TypeOK, ChannelTypeOK
  <1>5. /\ \A y \in Arrays : y # a => memory'[y] = memory[y]
        /\ \A i \in 1..n : memory'[a][i] = memory[a][i]
        /\ memory'[a][n + 1] = x
    <2> HIDE DEF a, n, x
    <2>1. PICK k \in 1..BatchSize : k = n + 1
      BY <1>3
    <2>2. memory' = [memory EXCEPT ![a] = [memory[a] EXCEPT ![k] = x]]
      BY <1>1, <2>1
    <2>3. memory[a] \in [1..BatchSize -> Samples \cup {None}]
      BY <1>3, <1>4
    <2>4. memory'[a] = [memory[a] EXCEPT ![k] = x]
      BY <1>3, <1>4, <2>2
    <2>5. \A y \in Arrays : y # a => memory'[y] = memory[y]
      BY <1>4, <2>2
    <2>6. memory'[a][k] = x
      BY <2>3, <2>4
    <2>7. \A i \in 1..n : i \in 1..BatchSize /\ i # k
      BY <1>3, <2>1, BatchingAssumption DEF BatchingAssumption
    <2>8. \A i \in 1..n : memory'[a][i] = memory[a][i]
      BY <2>3, <2>4, <2>7
    <2> QED BY <2>1, <2>5, <2>6, <2>8
  <1>6. /\ a # batch.array /\ \A k \in 1..Len(metricIn) : metricIn[k].array # a
        /\ \A v \in Holders : v # w => samples[v].array # a
    BY <1>2 DEF IInv, ExclusiveArrays
  <1>7. /\ Exported' = Exported /\ Exporting' = Exporting /\ Queued' = Queued
        /\ GivenInOrder'
    <2> HIDE DEF a
    <2> QED BY <1>1, <1>5, <1>6, GivenKept DEF SampleStages
  <1>8. /\ staged[w] \in Seq(Samples) /\ DOMAIN staged = Workers /\ DOMAIN samplesCount = Workers
    BY DEF IInv, TypeOK, WorkerTypeOK
  <1>9. ASSUME NEW v \in Workers, v # w
        PROVE  /\ samplesCount'[v] = samplesCount[v] /\ staged'[v] = staged[v]
               /\ \A i \in 1..samplesCount[v] :
                    memory'[samples[v].array][i] = memory[samples[v].array][i]
    <2>1. samplesCount'[v] = samplesCount[v] /\ staged'[v] = staged[v]
      BY <1>1, <1>8, <1>9
    <2>2. CASE v \in Holders
      <3>1. samples[v].array \in Arrays /\ samples[v].array # a
        BY <1>6, <1>9, <2>2 DEF IInv, WholeSlices, Slices
      <3> QED BY <1>5, <2>1, <3>1
    <2>3. CASE v \notin Holders
      <3>1. samplesCount[v] = 0
        BY <2>3 DEF Holders, Refilling, IInv, Flushing
      <3> QED BY <2>1, <3>1
    <2> QED BY <2>2, <2>3
  <1>10. /\ samplesCount'[w] = n + 1 /\ staged'[w] = Tail(staged[w])
    BY <1>1, <1>8
  <1>11. /\ Batched'[w] = Batched[w] \cup {x}
         /\ \A v \in Workers : v # w => Batched'[v] = Batched[v]
    <2>1. {memory'[a][i] : i \in 1..(n + 1)} = {memory[a][i] : i \in 1..n} \cup {x}
      <3>1. \A i : i \in 1..(n + 1) <=> i \in 1..n \/ i = n + 1
        BY <1>3
      <3> HIDE DEF a, n, x
      <3> QED BY <1>5, <3>1
    <2>2. ASSUME NEW v \in Workers, v # w PROVE Batched'[v] = Batched[v]
      BY <1>1, <1>9, <2>2 DEF Batched, Part
    <2>3. /\ Batched'[w] = {memory'[a][i] : i \in 1..(n + 1)}
          /\ Batched[w] = {memory[a][i] : i \in 1..n}
      BY <1>1, <1>10 DEF Batched, Part
    <2> QED BY <2>1, <2>2, <2>3
  <1>12. /\ Staged[w] = {x} \cup Staged'[w]
         /\ \A v \in Workers : v # w => Staged'[v] = Staged[v]
    <2>1. Elements(staged[w]) = {x} \cup Elements(Tail(staged[w]))
      BY <1>1, <1>8, HeadOfElements
    <2>2. ASSUME NEW v \in Workers, v # w PROVE Staged'[v] = Staged[v]
      BY <1>9, <2>2 DEF Staged
    <2> QED BY <1>10, <2>1, <2>2 DEF Staged
  <1>13. Ahead({x}, Staged'[w]) /\ InOrder(Tail(staged[w]))
    <2>1. InOrder(staged[w])
      BY DEF SampleStages, HandsInOrder
    <2> QED BY <1>1, <1>8, <1>10, <2>1, HeadAhead DEF Staged
  <1>14. Coming' = Coming /\ Union(Queued)' = Union(Queued)
    BY <1>1, <1>7 DEF Coming, Union
  <1>15. StagesLined'
    <2>1. Lined(Exported, Exporting, Union(Queued), Batched, Staged, Coming)
      BY DEF SampleStages, StagesLined
    <2>2. Lined(Exported, Exporting, Union(Queued), Batched', Staged', Coming)
      <3>1. PICK b2 : b2 = Batched'
        OBVIOUS
      <3>2. PICK p2 : p2 = Staged'
        OBVIOUS
      <3>3. PICK X : X = {x}
        OBVIOUS
      <3> HIDE DEF x
      <3>4. /\ Staged[w] = X \cup p2[w] /\ b2[w] = Batched[w] \cup X
            /\ \A v \in Workers : v # w => b2[v] = Batched[v] /\ p2[v] = Staged[v]
        BY <1>11, <1>12, <3>1, <3>2, <3>3
      <3>5. Ahead(X, p2[w])
        BY <1>13, <3>2, <3>3
      <3>6. Lined(Exported, Exporting, Union(Queued), b2, p2, Coming)
        BY <2>1, <3>4, <3>5, LinedAppend
      <3> QED BY <3>1, <3>2, <3>6
    <2> QED BY <1>7, <1>14, <2>2 DEF StagesLined
  <1>16. HandsInOrder'
    <2>1. ASSUME NEW v \in Workers PROVE PartInOrder(samples[v].array, 1, samplesCount[v])'
      <3>1. PartInOrder(samples[v].array, 1, samplesCount[v])
        BY DEF SampleStages, HandsInOrder
      <3>2. CASE v # w
        BY <1>1, <1>9, <3>1, <3>2 DEF PartInOrder
      <3>3. CASE v = w
        <4>1. Ahead(Batched[w], Staged[w])
          BY DEF SampleStages, StagesLined, Lined, Ahead
        <4>2. \A i \in 1..n : Precedes(memory[a][i], x)
          <5>1. x \in Staged[w]
            BY <1>12
          <5>2. \A i \in 1..n : memory[a][i] \in Batched[w]
            BY DEF Batched, Part
          <5> QED BY <4>1, <5>1, <5>2 DEF Ahead
        <4>3. ASSUME NEW i \in 1..(n + 1), NEW j \in 1..(n + 1), i < j
              PROVE  Precedes(memory'[a][i], memory'[a][j])
          <5>1. i \in 1..n /\ memory'[a][i] = memory[a][i]
            BY <1>3, <1>5, <4>3
          <5>2. CASE j = n + 1
            BY <1>5, <4>2, <5>1, <5>2
          <5>3. CASE j # n + 1
            <6>1. j \in 1..n /\ memory'[a][j] = memory[a][j]
              BY <1>3, <1>5, <5>3
            <6> QED BY <3>1, <3>3, <4>3, <5>1, <6>1 DEF PartInOrder
          <5> QED BY <5>2, <5>3
        <4> QED BY <1>1, <1>10, <3>3, <4>3 DEF PartInOrder
      <3> QED BY <3>2, <3>3
    <2>2. ASSUME NEW v \in Workers PROVE InOrder(staged'[v])
      BY <1>9, <1>10, <1>13 DEF SampleStages, HandsInOrder
    <2>3. ASSUME NEW v \in Workers
          PROVE  \A i, j \in 1..Len(todo'[v]) : i < j => Index(todo'[v][i]) < Index(todo'[v][j])
      BY <1>1 DEF SampleStages, HandsInOrder
    <2>4. \A v \in Workers : InOrder(staged[v])'
      BY <2>2 DEF InOrder
    <2> QED BY <2>1, <2>3, <2>4 DEF HandsInOrder
  <1>17. SamplesComplete'
    <2>1. Union(Batched)' \cup Union(Staged)' = Union(Batched) \cup Union(Staged)
      <3>1. DOMAIN Batched = Workers /\ DOMAIN Batched' = Workers /\ DOMAIN Staged = Workers
            /\ DOMAIN Staged' = Workers
        BY DEF Batched, Staged
      <3>2. Union(Batched)' = Union(Batched) \cup {x}
        BY <1>11, <3>1 DEF Union
      <3>3. Union(Staged) = Union(Staged)' \cup {x}
        BY <1>12, <3>1 DEF Union
      <3> QED BY <3>2, <3>3
    <2>2. Somewhere' = Somewhere
      BY <1>7, <1>14, <2>1 DEF Somewhere
    <2> QED BY <1>1, <2>2, CompleteKept DEF SampleStages
  <1> QED BY <1>7, <1>15, <1>16, <1>17 DEF SampleStages

\* A worker's batch shows the same samples in the same elements.
LEMMA HandsKept ==
  ASSUME UNCHANGED <<todo, staged, samplesCount>>,
         \A v \in Workers : \A i \in 1..samplesCount[v] :
           memory'[samples'[v].array][i] = memory[samples[v].array][i]
  PROVE  /\ Batched' = Batched /\ Staged' = Staged /\ Coming' = Coming
         /\ HandsInOrder => HandsInOrder'
  <1>1. Staged' = Staged /\ Coming' = Coming
    BY DEF Staged, Coming
  <1>2. Batched' = Batched
    BY DEF Batched, Part
  <1>3. ASSUME HandsInOrder PROVE HandsInOrder'
    <2>1. ASSUME NEW v \in Workers PROVE PartInOrder(samples[v].array, 1, samplesCount[v])'
      BY <1>3 DEF HandsInOrder, PartInOrder
    <2>2. ASSUME NEW v \in Workers PROVE InOrder(staged[v])'
      BY <1>3 DEF HandsInOrder, InOrder
    <2>3. ASSUME NEW v \in Workers
          PROVE  \A i, j \in 1..Len(todo'[v]) : i < j => Index(todo'[v][i]) < Index(todo'[v][j])
      BY <1>3 DEF HandsInOrder
    <2> QED BY <2>1, <2>2, <2>3 DEF HandsInOrder
  <1> QED BY <1>1, <1>2, <1>3

\* No stage changes.
LEMMA StagesKept ==
  ASSUME SampleStages, UNCHANGED <<packetsIn, todo>>, GivenInOrder', HandsInOrder',
         Exported' = Exported, Exporting' = Exporting, Queued' = Queued,
         Batched' = Batched, Staged' = Staged, Coming' = Coming
  PROVE  SampleStages'
  <1>1. Union(Queued)' = Union(Queued) /\ Union(Batched)' = Union(Batched)
        /\ Union(Staged)' = Union(Staged)
    BY DEF Union
  <1>2. StagesLined'
    BY <1>1 DEF SampleStages, StagesLined
  <1>3. Somewhere' = Somewhere
    BY <1>1 DEF Somewhere
  <1>4. SamplesComplete'
    BY <1>3, CompleteKept DEF SampleStages
  <1> QED BY <1>2, <1>4 DEF SampleStages

\* A step that touches no sample.
LEMMA QuietStages ==
  ASSUME SampleStages,
         UNCHANGED <<packetsIn, todo, staged, samples, samplesCount, memory, metricIn,
                     batch, next, exported>>
  PROVE  SampleStages'
  <1>1. /\ Batched' = Batched /\ Staged' = Staged /\ Coming' = Coming
        /\ HandsInOrder'
    BY HandsKept DEF SampleStages
  <1>2. Exported' = Exported /\ Exporting' = Exporting /\ Queued' = Queued
    BY DEF Exported, Exporting, Queued, Part
  <1>3. GivenInOrder'
    BY <1>2 DEF SampleStages, GivenInOrder, InOrder, PartInOrder, Ahead
  <1> QED BY <1>1, <1>2, <1>3, StagesKept

\* An array that comes from the pool, or is new, is the batch of a worker that has no samples.
LEMMA GetBatchStages ==
  ASSUME IInv, SampleStages, NEW w \in Workers, NEW s \in Slices,
         NEW from \in Refilling, NEW to, GetBatch(w, s, from, to)
  PROVE  SampleStages'
  <1>1. /\ pc[w] = from /\ samples' = [samples EXCEPT ![w] = s]
        /\ UNCHANGED <<packetsIn, todo, staged, samplesCount, metricIn, batch, next, exported>>
    BY DEF GetBatch, Goto, chanVars, aggVars
  <1>2. PICK a : a = s.array
    OBVIOUS
  <1>3. \A x \in Arrays : x # a => memory'[x] = memory[x]
    BY <1>2 DEF GetBatch, IInv, TypeOK, ChannelTypeOK
  <1>4. /\ a # batch.array /\ \A k \in 1..Len(metricIn) : metricIn[k].array # a
        /\ \A v \in Holders : samples[v].array # a
    <2>1. CASE s \in pool
      BY <1>2, <2>1 DEF IInv, ExclusiveArrays
    <2>2. CASE s.array \notin Referenced
      BY <1>2, <2>2 DEF Referenced
    <2> QED BY <2>1, <2>2 DEF GetBatch
  <1>5. /\ Exported' = Exported /\ Exporting' = Exporting /\ Queued' = Queued
        /\ GivenInOrder'
    BY <1>1, <1>3, <1>4, GivenKept DEF SampleStages
  <1>6. ASSUME NEW v \in Workers, NEW i \in 1..samplesCount[v]
        PROVE  memory'[samples'[v].array][i] = memory[samples[v].array][i]
    <2>1. samplesCount[v] # 0
      OBVIOUS
    <2>2. v \in Holders
      BY <2>1 DEF Holders, Refilling, IInv, Flushing
    <2>3. v # w
      BY <1>1, <2>2 DEF Holders
    <2>4. samples'[v] = samples[v]
      BY <1>1, <2>3 DEF IInv, TypeOK, WorkerTypeOK
    <2>5. samples[v].array \in Arrays
      BY <2>2 DEF IInv, WholeSlices, Slices
    <2> QED BY <1>3, <1>4, <2>2, <2>4, <2>5
  <1>7. /\ Batched' = Batched /\ Staged' = Staged /\ Coming' = Coming
        /\ HandsInOrder'
    BY <1>1, <1>6, HandsKept DEF SampleStages
  <1> QED BY <1>1, <1>5, <1>7, StagesKept

\* An array goes back when all of it is exported.
LEMMA PutBatchStages ==
  ASSUME IInv, SampleStages, PutBatch
  PROVE  SampleStages'
  <1>1. /\ next > batch.len /\ batch' = NoSlice
        /\ UNCHANGED <<packetsIn, todo, staged, samples, samplesCount, memory, metricIn,
                       next, exported>>
    BY DEF PutBatch, workerVars, chanVars
  <1>2. next \in Nat \ {0} /\ batch.len \in Nat
    <2>1. batch \in Slices
      BY DEF PutBatch, IInv, WholeSlices
    <2> QED BY <2>1, BatchingAssumption
            DEF IInv, TypeOK, AggregatorTypeOK, Slices, BatchingAssumption
  <1>3. next..batch.len = {} /\ next'..batch'.len = {}
    BY <1>1, <1>2 DEF NoSlice
  <1>4. Exporting = {} /\ Exporting' = {} /\ PartInOrder(batch.array, next, batch.len)'
    BY <1>3 DEF Exporting, Part, PartInOrder
  <1>5. Exported' = Exported /\ Queued' = Queued
    BY <1>1 DEF Exported, Queued, Part
  <1>6. GivenInOrder'
    BY <1>1, <1>4, <1>5 DEF SampleStages, GivenInOrder, InOrder, PartInOrder, Ahead
  <1>7. /\ Batched' = Batched /\ Staged' = Staged /\ Coming' = Coming
        /\ HandsInOrder'
    BY <1>1, HandsKept DEF SampleStages
  <1> QED BY <1>1, <1>4, <1>5, <1>6, <1>7, StagesKept

\* The batch becomes the last one in the channel.
LEMMA FlushSamplesStages ==
  ASSUME IInv, SampleStages, NEW w \in Workers, NEW from, NEW to, FlushSamples(w, from, to)
  PROVE  SampleStages'
  <1> DEFINE n == Len(metricIn)
             slice == [samples[w] EXCEPT !.len = samplesCount[w]]
  <1>1. /\ metricIn' = Append(metricIn, slice)
        /\ samplesCount' = [samplesCount EXCEPT ![w] = 0] /\ samplesCount[w] > 0
        /\ UNCHANGED <<packetsIn, todo, staged, samples, memory, batch, next, exported>>
    BY DEF FlushSamples, SendSamples, heapVars, aggVars
  <1>2. w \in Holders /\ samples[w] \in Slices
    <2>1. samplesCount[w] # 0
      BY <1>1
    <2> QED BY <2>1 DEF Holders, Refilling, IInv, Flushing, WholeSlices
  <1>3. /\ slice \in Slices /\ slice.array = samples[w].array /\ slice.len = samplesCount[w]
    BY <1>2 DEF Slices, IInv, TypeOK, WorkerTypeOK
  <1>4. /\ n \in Nat /\ Len(metricIn') = n + 1 /\ metricIn'[n + 1] = slice
        /\ \A k \in 1..n : metricIn'[k] = metricIn[k]
    <2>1. metricIn \in Seq(Slices)
      BY DEF IInv, TypeOK, ChannelTypeOK
    <2> HIDE DEF slice
    <2> QED BY <1>1, <1>3, <2>1
  <1> HIDE DEF slice, n
  <1>5. /\ DOMAIN Queued = 1..n /\ DOMAIN Queued' = 1..(n + 1)
        /\ Queued'[n + 1] = Batched[w] /\ \A k \in 1..n : Queued'[k] = Queued[k]
    <2>1. DOMAIN Queued = 1..n /\ DOMAIN Queued' = 1..(n + 1)
      BY <1>4 DEF Queued, n
    <2>2. n + 1 \in 1..(n + 1) /\ \A k \in 1..n : k \in 1..(n + 1)
      BY <1>4
    <2>3. Queued'[n + 1] = Batched[w]
      <3>1. Queued'[n + 1] = {memory'[slice.array][i] : i \in 1..slice.len}
        BY <1>4, <2>2 DEF Queued, Part
      <3> QED BY <1>1, <1>3, <3>1 DEF Batched, Part
    <2>4. ASSUME NEW k \in 1..n PROVE Queued'[k] = Queued[k]
      BY <1>1, <1>4, <2>2 DEF Queued, Part, n
    <2> QED BY <2>1, <2>3, <2>4
  <1>6. Union(Queued)' = Union(Queued) \cup Batched[w]
    <2>1. \A k : k \in 1..(n + 1) <=> k \in 1..n \/ k = n + 1
      BY <1>4
    <2> QED BY <1>5, <2>1 DEF Union
  <1>7. /\ samplesCount'[w] = 0 /\ \A v \in Workers : v # w => samplesCount'[v] = samplesCount[v]
    BY <1>1 DEF IInv, TypeOK, WorkerTypeOK
  <1>8. /\ Batched'[w] = {} /\ \A v \in Workers : v # w => Batched'[v] = Batched[v]
        /\ DOMAIN Batched = Workers /\ DOMAIN Batched' = Workers
    BY <1>1, <1>7 DEF Batched, Part
  <1>9. /\ Exported' = Exported /\ Exporting' = Exporting /\ Staged' = Staged /\ Coming' = Coming
    BY <1>1 DEF Exported, Exporting, Part, Staged, Coming
  <1>10. StagesLined'
    <2>1. PICK q2 : q2 = Union(Queued)'
      OBVIOUS
    <2>2. PICK b2 : b2 = Batched'
      OBVIOUS
    <2>3. Lined(Exported, Exporting, Union(Queued), Batched, Staged, Coming)
      BY DEF SampleStages, StagesLined
    <2>4. Lined(Exported, Exporting, q2, b2, Staged, Coming)
      BY <1>6, <1>8, <2>1, <2>2, <2>3, LinedSend
    <2> QED BY <1>9, <2>1, <2>2, <2>4 DEF StagesLined
  <1>11. GivenInOrder'
    <2>1. InOrder(exported)' /\ PartInOrder(batch.array, next, batch.len)'
      BY <1>1 DEF SampleStages, GivenInOrder, InOrder, PartInOrder
    <2>2. ASSUME NEW k \in 1..(n + 1)
          PROVE  PartInOrder(metricIn[k].array, 1, metricIn[k].len)'
      <3>1. CASE k = n + 1
        <4>1. PartInOrder(samples[w].array, 1, samplesCount[w])
          BY DEF SampleStages, HandsInOrder
        <4> QED BY <1>1, <1>3, <1>4, <3>1, <4>1 DEF PartInOrder
      <3>2. CASE k # n + 1
        <4>1. k \in 1..n /\ metricIn'[k] = metricIn[k]
          BY <1>4, <3>2
        <4>2. PartInOrder(metricIn[k].array, 1, metricIn[k].len)
          BY <4>1 DEF SampleStages, GivenInOrder, n
        <4> QED BY <1>1, <4>1, <4>2 DEF PartInOrder
      <3> QED BY <3>1, <3>2
    <2>3. ASSUME NEW k \in 1..(n + 1), NEW l \in 1..(n + 1), k < l
          PROVE  Ahead(Queued'[k], Queued'[l])
      <3>1. k \in 1..n
        BY <1>4, <2>3
      <3>2. CASE l = n + 1
        <4>1. Queued[k] \subseteq Union(Queued)
          BY <1>5, <3>1 DEF Union
        <4>2. Ahead(Union(Queued), Batched[w])
          BY DEF SampleStages, StagesLined, Lined, Ahead
        <4> QED BY <1>5, <3>1, <3>2, <4>1, <4>2 DEF Ahead
      <3>3. CASE l # n + 1
        <4>1. l \in 1..n
          BY <1>4, <3>3
        <4> QED BY <1>5, <2>3, <3>1, <4>1 DEF SampleStages, GivenInOrder, n
      <3> QED BY <3>2, <3>3
    <2>4. (\A k, l \in 1..Len(metricIn) : k < l => Ahead(Queued[k], Queued[l]))'
      BY <1>4, <2>3 DEF Ahead
    <2> QED BY <1>4, <2>1, <2>2, <2>4 DEF GivenInOrder
  <1>12. HandsInOrder'
    <2>1. ASSUME NEW v \in Workers PROVE PartInOrder(samples[v].array, 1, samplesCount[v])'
      <3>1. samplesCount'[v] = 0 \/ samplesCount'[v] = samplesCount[v]
        BY <1>7
      <3> QED BY <1>1, <3>1 DEF SampleStages, HandsInOrder, PartInOrder
    <2>2. ASSUME NEW v \in Workers
          PROVE  /\ InOrder(staged[v])'
                 /\ (\A i, j \in 1..Len(todo[v]) : i < j => Index(todo[v][i]) < Index(todo[v][j]))'
      BY <1>1 DEF SampleStages, HandsInOrder, InOrder
    <2> QED BY <2>1, <2>2 DEF HandsInOrder
  <1>13. SamplesComplete'
    <2>1. Union(Batched) = Union(Batched)' \cup Batched[w]
      BY <1>8 DEF Union
    <2>2. Union(Staged)' = Union(Staged)
      BY <1>9 DEF Union
    <2>3. Somewhere' = Somewhere
      BY <1>6, <1>9, <2>1, <2>2 DEF Somewhere
    <2> QED BY <1>1, <2>3, CompleteKept DEF SampleStages
  <1> QED BY <1>10, <1>11, <1>12, <1>13 DEF SampleStages

\* The aggregator takes the first one.
LEMMA ReceiveSamplesStages ==
  ASSUME IInv, SampleStages, ReceiveSamples
  PROVE  SampleStages'
  <1> DEFINE n == Len(metricIn)
  <1>1. /\ running = "select" /\ metricIn # <<>> /\ batch' = Head(metricIn) /\ next' = 1
        /\ metricIn' = Tail(metricIn)
        /\ UNCHANGED <<packetsIn, todo, staged, samples, samplesCount, memory, exported>>
    BY DEF ReceiveSamples, workerVars, heapVars
  <1>2. /\ n \in Nat /\ 1 \in 1..n /\ Len(metricIn') = n - 1 /\ batch' = metricIn[1]
        /\ \A k \in 1..(n - 1) : k + 1 \in 1..n /\ metricIn'[k] = metricIn[k + 1]
    <2>1. metricIn \in Seq(Slices)
      BY DEF IInv, TypeOK, ChannelTypeOK
    <2> QED BY <1>1, <2>1
  <1> HIDE DEF n
  <1>3. Exporting = {}
    <2>1. batch = NoSlice /\ next \in Nat \ {0}
      BY <1>1 DEF IInv, WholeSlices, TypeOK, AggregatorTypeOK
    <2>2. next..batch.len = {}
      BY <2>1 DEF NoSlice
    <2> QED BY <2>2 DEF Exporting, Part
  <1>4. /\ DOMAIN Queued = 1..n /\ DOMAIN Queued' = 1..(n - 1)
        /\ Exporting' = Queued[1] /\ \A k \in 1..(n - 1) : Queued'[k] = Queued[k + 1]
    <2>1. DOMAIN Queued = 1..n /\ DOMAIN Queued' = 1..(n - 1)
      BY <1>2 DEF Queued, n
    <2>2. Exporting' = Queued[1]
      BY <1>1, <1>2 DEF Exporting, Queued, Part, n
    <2>3. ASSUME NEW k \in 1..(n - 1) PROVE Queued'[k] = Queued[k + 1]
      <3>1. PICK l \in 1..n : l = k + 1 /\ metricIn'[k] = metricIn[l]
        BY <1>2
      <3> QED BY <1>1, <1>2, <3>1 DEF Queued, Part, n
    <2> QED BY <2>1, <2>2, <2>3
  <1>5. Union(Queued) = Exporting' \cup Union(Queued)'
    <2>1. \A k \in 1..n : k # 1 => \E l \in 1..(n - 1) : k = l + 1
      <3> SUFFICES ASSUME NEW k \in 1..n, k # 1 PROVE \E l \in 1..(n - 1) : k = l + 1
        OBVIOUS
      <3>1. k - 1 \in 1..(n - 1) /\ k = (k - 1) + 1
        BY <1>2
      <3> QED BY <3>1
    <2>2. ASSUME NEW x \in Union(Queued) PROVE x \in Exporting' \cup Union(Queued)'
      <3>1. PICK k \in 1..n : x \in Queued[k]
        BY <1>4 DEF Union
      <3>2. CASE k = 1
        BY <1>4, <3>1, <3>2
      <3>3. CASE k # 1
        <4>1. PICK l \in 1..(n - 1) : k = l + 1
          BY <2>1, <3>3
        <4>2. x \in Queued'[l]
          BY <1>4, <3>1, <4>1
        <4> QED BY <1>4, <4>2 DEF Union
      <3> QED BY <3>2, <3>3
    <2>3. Exporting' \subseteq Union(Queued)
      BY <1>2, <1>4 DEF Union
    <2>4. ASSUME NEW x \in Union(Queued)' PROVE x \in Union(Queued)
      <3>1. PICK k \in 1..(n - 1) : x \in Queued'[k]
        BY <1>4 DEF Union
      <3>2. PICK l \in 1..n : l = k + 1
        BY <1>2
      <3>3. x \in Queued[l]
        BY <1>4, <3>1, <3>2
      <3> QED BY <1>4, <3>3 DEF Union
    <2> QED BY <2>2, <2>3, <2>4
  <1>6. Ahead(Exporting', Union(Queued)')
    <2>1. ASSUME NEW k \in 1..(n - 1) PROVE Ahead(Exporting', Queued'[k])
      <3>1. PICK l \in 1..n : l = k + 1 /\ 1 < l
        BY <1>2
      <3>2. Ahead(Queued[1], Queued[l])
        BY <1>2, <3>1 DEF SampleStages, GivenInOrder, n
      <3> QED BY <1>4, <3>1, <3>2
    <2> QED BY <1>4, <2>1 DEF Ahead, Union
  <1>7. Exported' = Exported
    BY <1>1 DEF Exported
  <1>8. /\ Batched' = Batched /\ Staged' = Staged /\ Coming' = Coming
        /\ HandsInOrder'
    BY <1>1, HandsKept DEF SampleStages
  <1>9. StagesLined'
    <2>1. PICK e2 : e2 = Exporting'
      OBVIOUS
    <2>2. PICK q2 : q2 = Union(Queued)'
      OBVIOUS
    <2>3. Lined(Exported, Exporting, Union(Queued), Batched, Staged, Coming)
      BY DEF SampleStages, StagesLined
    <2>4. Lined(Exported, e2, q2, Batched, Staged, Coming)
      BY <1>3, <1>5, <1>6, <2>1, <2>2, <2>3, LinedReceive
    <2> QED BY <1>7, <1>8, <2>1, <2>2, <2>4 DEF StagesLined
  <1>10. GivenInOrder'
    <2>1. InOrder(exported)'
      BY <1>1 DEF SampleStages, GivenInOrder, InOrder
    <2>2. PartInOrder(batch.array, next, batch.len)'
      <3>1. PartInOrder(metricIn[1].array, 1, metricIn[1].len)
        BY <1>2 DEF SampleStages, GivenInOrder, n
      <3> QED BY <1>1, <1>2, <3>1 DEF PartInOrder
    <2>3. ASSUME NEW k \in 1..(n - 1) PROVE PartInOrder(metricIn[k].array, 1, metricIn[k].len)'
      <3>1. PICK l \in 1..n : l = k + 1 /\ metricIn'[k] = metricIn[l]
        BY <1>2
      <3>2. PartInOrder(metricIn[l].array, 1, metricIn[l].len)
        BY DEF SampleStages, GivenInOrder, n
      <3> QED BY <1>1, <3>1, <3>2 DEF PartInOrder
    <2>4. ASSUME NEW k \in 1..(n - 1), NEW l \in 1..(n - 1), k < l
          PROVE  Ahead(Queued'[k], Queued'[l])
      <3>1. PICK i \in 1..n : i = k + 1
        BY <1>2
      <3>2. PICK j \in 1..n : j = l + 1
        BY <1>2
      <3>3. Ahead(Queued[i], Queued[j])
        BY <2>4, <3>1, <3>2 DEF SampleStages, GivenInOrder, n
      <3> QED BY <1>4, <3>1, <3>2, <3>3
    <2>5. (\A k, l \in 1..Len(metricIn) : k < l => Ahead(Queued[k], Queued[l]))'
      BY <1>2, <2>4 DEF Ahead
    <2> QED BY <1>2, <2>1, <2>2, <2>3, <2>5 DEF GivenInOrder
  <1>11. SamplesComplete'
    <2>1. Union(Batched)' = Union(Batched) /\ Union(Staged)' = Union(Staged)
      BY <1>8 DEF Union
    <2>2. Somewhere' = Somewhere
      BY <1>3, <1>5, <1>7, <2>1 DEF Somewhere
    <2> QED BY <1>1, <2>2, CompleteKept DEF SampleStages
  <1> QED BY <1>8, <1>9, <1>10, <1>11 DEF SampleStages

\* It exports the next sample.
LEMMA AddSampleStages ==
  ASSUME IInv, SampleStages, AddSample
  PROVE  SampleStages'
  <1> DEFINE x == memory[batch.array][next]
             n == Len(exported)
  <1>1. /\ next <= batch.len /\ exported' = Append(exported, x) /\ next' = next + 1
        /\ UNCHANGED <<packetsIn, todo, staged, samples, samplesCount, memory, metricIn, batch>>
    BY DEF AddSample, workerVars, heapVars, chanVars
  <1>2. next \in Nat /\ batch.len \in Nat
    <2>1. batch \in Slices
      BY DEF AddSample, IInv, WholeSlices
    <2> QED BY <2>1, BatchingAssumption
            DEF IInv, TypeOK, AggregatorTypeOK, Slices, BatchingAssumption
  <1>3. \A i : i \in next..batch.len <=> i = next \/ i \in (next + 1)..batch.len
    BY <1>1, <1>2
  <1>4. Exporting = {x} \cup Exporting'
    BY <1>1, <1>3 DEF Exporting, Part
  <1>5. /\ n \in Nat /\ Len(exported') = n + 1 /\ exported'[n + 1] = x
        /\ \A i \in 1..n : exported'[i] = exported[i]
    <2>1. exported \in Seq(Samples \cup {None})
      BY DEF IInv, TypeOK, AggregatorTypeOK
    <2> HIDE DEF x
    <2> QED BY <1>1, <2>1
  <1>6. Ahead({x}, Exporting') /\ PartInOrder(batch.array, next, batch.len)'
    <2>1. \A i \in (next + 1)..batch.len : next < i
      BY <1>2
    <2>2. PartInOrder(batch.array, next, batch.len)
      BY DEF SampleStages, GivenInOrder
    <2>3. \A i \in (next + 1)..batch.len : Precedes(x, memory[batch.array][i])
      BY <1>1, <1>3, <2>1, <2>2 DEF PartInOrder
    <2>4. Exporting' = {memory[batch.array][i] : i \in (next + 1)..batch.len}
      BY <1>1 DEF Exporting, Part
    <2>5. Ahead({x}, Exporting')
      BY <2>3, <2>4 DEF Ahead
    <2>6. PartInOrder(batch.array, next, batch.len)'
      BY <1>1, <1>3, <2>2 DEF PartInOrder
    <2> QED BY <2>5, <2>6
  <1> HIDE DEF x, n
  <1>7. Exported' = Exported \cup {x}
    <2>1. \A i : i \in 1..(n + 1) <=> i \in 1..n \/ i = n + 1
      BY <1>5
    <2> QED BY <1>5, <2>1 DEF Exported, Elements, n
  <1>8. Queued' = Queued
    BY <1>1 DEF Queued, Part
  <1>9. /\ Batched' = Batched /\ Staged' = Staged /\ Coming' = Coming
        /\ HandsInOrder'
    BY <1>1, HandsKept DEF SampleStages
  <1>10. Union(Queued)' = Union(Queued) /\ Union(Batched)' = Union(Batched)
         /\ Union(Staged)' = Union(Staged)
    BY <1>8, <1>9 DEF Union
  <1>11. StagesLined'
    <2>1. PICK d2 : d2 = Exported'
      OBVIOUS
    <2>2. PICK e2 : e2 = Exporting'
      OBVIOUS
    <2>3. PICK X : X = {x}
      OBVIOUS
    <2>4. Lined(Exported, Exporting, Union(Queued), Batched, Staged, Coming)
      BY DEF SampleStages, StagesLined
    <2>5. /\ Ahead(X, e2) /\ Exporting = X \cup e2 /\ d2 = Exported \cup X
      BY <1>4, <1>6, <1>7, <2>1, <2>2, <2>3
    <2>6. Lined(d2, e2, Union(Queued), Batched, Staged, Coming)
      BY <2>4, <2>5, LinedExport
    <2> QED BY <1>9, <1>10, <2>1, <2>2, <2>6 DEF StagesLined
  <1>12. InOrder(exported)'
    <2>1. \A i \in 1..n : Precedes(exported[i], x)
      <3>1. Ahead(Exported, Exporting)
        BY DEF SampleStages, StagesLined, Lined
      <3>2. \A i \in 1..n : exported[i] \in Exported
        BY DEF Exported, Elements, n
      <3> QED BY <1>4, <3>1, <3>2 DEF Ahead
    <2>2. ASSUME NEW i \in 1..(n + 1), NEW j \in 1..(n + 1), i < j
          PROVE  Precedes(exported'[i], exported'[j])
      <3>1. i \in 1..n
        BY <1>5, <2>2
      <3>2. CASE j = n + 1
        BY <1>5, <2>1, <3>1, <3>2
      <3>3. CASE j # n + 1
        <4>1. j \in 1..n
          BY <1>5, <3>3
        <4> QED BY <1>5, <2>2, <3>1, <4>1 DEF SampleStages, GivenInOrder, InOrder, n
      <3> QED BY <3>2, <3>3
    <2> QED BY <1>5, <2>2 DEF InOrder
  <1>13. GivenInOrder'
    <2>1. \A k \in 1..Len(metricIn) : PartInOrder(metricIn[k].array, 1, metricIn[k].len)'
      BY <1>1 DEF SampleStages, GivenInOrder, PartInOrder
    <2>2. (\A k, l \in 1..Len(metricIn) : k < l => Ahead(Queued[k], Queued[l]))'
      BY <1>1, <1>8 DEF SampleStages, GivenInOrder, Ahead
    <2> QED BY <1>1, <1>6, <1>12, <2>1, <2>2 DEF GivenInOrder
  <1>14. SamplesComplete'
    <2>1. Somewhere' = Somewhere
      BY <1>4, <1>7, <1>10 DEF Somewhere
    <2> QED BY <1>1, <2>1, CompleteKept DEF SampleStages
  <1> QED BY <1>9, <1>11, <1>13, <1>14 DEF SampleStages

\* The group a worker receives is later than all that were received.
LEMMA ReceivePacketsStages ==
  ASSUME IInv, SampleStages, NEW w \in Workers, ReceivePackets(w)
  PROVE  SampleStages'
  <1> DEFINE g == Received + 1
             n == Len(packetsIn)
  <1>1. /\ pc[w] = "wait" /\ packetsIn # <<>> /\ packetsIn' = Tail(packetsIn)
        /\ todo' = [todo EXCEPT ![w] = Head(packetsIn)]
        /\ UNCHANGED <<staged, samples, samplesCount, memory, metricIn, batch, next, exported>>
    BY DEF ReceivePackets, Goto, heapVars, chanVars, aggVars
  <1>2. samplesCount[w] = 0 /\ staged[w] = <<>> /\ todo[w] = <<>>
    BY <1>1 DEF IInv, Flushing
  <1>3. /\ n \in Nat /\ 1 \in 1..n /\ Len(packetsIn') = n - 1 /\ Head(packetsIn) = packetsIn[1]
        /\ \A h \in 1..(n - 1) : h + 1 \in 1..n /\ packetsIn'[h] = packetsIn[h + 1]
    <2>1. packetsIn \in Seq(Seq(Messages))
      BY DEF IInv, TypeOK, WorkerTypeOK
    <2> QED BY <1>1, <2>1
  <1>4. /\ Len(Input) \in Nat /\ n <= Len(Input) /\ Received = Len(Input) - n
        /\ \A h \in 1..n : packetsIn[h] = Input[Received + h]
    BY BatchingAssumption DEF BatchingAssumption, SampleStages, SamplesComplete, Received
  <1>5. /\ Received \in Nat /\ g \in 1..Len(Input) /\ Head(packetsIn) = Input[g]
    BY <1>3, <1>4
  <1>6. Received' = g
    BY <1>3, <1>4 DEF Received
  <1> HIDE DEF g, n
  <1>7. /\ todo'[w] = Input[g] /\ \A v \in Workers : v # w => todo'[v] = todo[v]
    BY <1>1, <1>5 DEF IInv, TypeOK, WorkerTypeOK
  <1>8. \A i \in 1..Len(Input[g]) :
          Input[g][i] \in Messages /\ Group(Input[g][i]) = g /\ Index(Input[g][i]) = i
    BY <1>5, RankOf
  <1>9. /\ Exported' = Exported /\ Exporting' = Exporting /\ Queued' = Queued
        /\ Batched' = Batched /\ Staged' = Staged
    BY <1>1 DEF Exported, Exporting, Queued, Batched, Staged, Part
  <1>10. Union(Queued)' = Union(Queued) /\ Union(Batched)' = Union(Batched)
         /\ Union(Staged)' = Union(Staged)
    BY <1>9 DEF Union
  <1>11. Somewhere' = Somewhere
    BY <1>9, <1>10 DEF Somewhere
  <1>12. GivenInOrder'
    BY <1>1, <1>9 DEF SampleStages, GivenInOrder, InOrder, PartInOrder, Ahead
  <1>13. HandsInOrder'
    <2>1. ASSUME NEW v \in Workers
          PROVE  PartInOrder(samples[v].array, 1, samplesCount[v])' /\ InOrder(staged[v])'
      BY <1>1 DEF SampleStages, HandsInOrder, PartInOrder, InOrder
    <2>2. ASSUME NEW v \in Workers, NEW i \in 1..Len(todo'[v]), NEW j \in 1..Len(todo'[v]), i < j
          PROVE  Index(todo'[v][i]) < Index(todo'[v][j])
      <3>1. CASE v = w
        BY <1>7, <1>8, <2>2, <3>1
      <3>2. CASE v # w
        BY <1>7, <2>2, <3>2 DEF SampleStages, HandsInOrder
      <3> QED BY <3>1, <3>2
    <2> QED BY <2>1, <2>2 DEF HandsInOrder
  <1>14. \A s \in Somewhere : Group(s[1]) \in Nat /\ Group(s[1]) # g
    <2>1. ASSUME NEW s \in Somewhere PROVE Group(s[1]) \in Nat /\ Group(s[1]) # g
      <3>1. s[1] \in Messages /\ Group(s[1]) <= Received
        BY DEF SampleStages, SamplesComplete, Samples
      <3>2. Group(s[1]) \in 1..Len(Input)
        BY <3>1, RankIs
      <3> QED BY <1>5, <3>1, <3>2 DEF g
    <2> QED BY <2>1
  <1>15. \A v \in Workers : \A m \in Elements(todo[v]) : Group(m) # g
    <2>1. ASSUME NEW v \in Workers, NEW m \in Elements(todo[v]) PROVE Group(m) # g
      <3>1. m \in Messages /\ Group(m) <= Received
        BY DEF SampleStages, SamplesComplete, Elements, IInv, TypeOK, WorkerTypeOK
      <3>2. Group(m) \in 1..Len(Input)
        BY <3>1, RankIs
      <3> QED BY <1>5, <3>1, <3>2 DEF g
    <2> QED BY <2>1
  <1>16. /\ \A t \in Coming'[w] : Group(t[1]) = g
         /\ \A v \in Workers : v # w => Coming'[v] = Coming[v]
    <2>1. Coming'[w] = Elements(Input[g]) \X {"parsed"}
      BY <1>7 DEF Coming
    <2>2. \A t \in Coming'[w] : Group(t[1]) = g
      BY <1>8, <2>1 DEF Elements
    <2>3. \A v \in Workers : v # w => Coming'[v] = Coming[v]
      BY <1>7 DEF Coming
    <2> QED BY <2>2, <2>3
  <1>17. StagesLined'
    <2>1. PICK c2 : c2 = Coming'
      OBVIOUS
    <2>2. Lined(Exported, Exporting, Union(Queued), Batched, Staged, Coming)
      BY DEF SampleStages, StagesLined
    <2>3. Batched[w] = {} /\ Staged[w] = {}
      BY <1>2 DEF Batched, Staged, Part, Elements
    <2>4. OtherGroups(Exported \cup Exporting \cup Union(Queued), c2[w])
      BY <1>14, <1>16, <2>1 DEF OtherGroups, Somewhere
    <2>5. ASSUME NEW v \in Workers, v # w
          PROVE  OtherGroups(Batched[v] \cup Staged[v] \cup Coming[v], c2[w]) /\ c2[v] = Coming[v]
      <3>1. Batched[v] \subseteq Somewhere /\ Staged[v] \subseteq Somewhere
        BY StagedType DEF SampleStages
      <3>2. \A t \in Coming[v] : Group(t[1]) # g
        BY <1>15 DEF Coming
      <3> QED BY <1>14, <1>16, <2>1, <2>5, <3>1, <3>2 DEF OtherGroups
    <2>6. Lined(Exported, Exporting, Union(Queued), Batched, Staged, c2)
      BY <2>2, <2>3, <2>4, <2>5, LinedTake
    <2> QED BY <1>9, <1>10, <2>1, <2>6 DEF StagesLined
  <1>18. SamplesComplete'
    <2>1. Len(packetsIn') <= Len(Input) /\ n - 1 \in Nat
      BY <1>3, <1>4
    <2>2. ASSUME NEW h \in 1..(n - 1) PROVE packetsIn'[h] = Input[g + h]
      <3>1. PICK k \in 1..n : k = h + 1 /\ packetsIn'[h] = packetsIn[k]
        BY <1>3
      <3>2. Received + k = g + h
        BY <1>5, <3>1 DEF g
      <3> QED BY <1>4, <3>1, <3>2
    <2>3. ASSUME NEW v \in Workers, NEW m \in Elements(todo'[v]) PROVE Group(m) <= g
      <3>1. CASE v = w
        <4>1. Group(m) = g
          BY <1>7, <1>8, <3>1 DEF Elements
        <4> QED BY <1>5, <4>1
      <3>2. CASE v # w
        <4>1. m \in Messages /\ Group(m) <= Received
          <5>1. m \in Elements(todo[v])
            BY <1>7, <3>2
          <5> QED BY <5>1 DEF SampleStages, SamplesComplete, Elements, IInv, TypeOK, WorkerTypeOK
        <4>2. Group(m) \in 1..Len(Input)
          BY <4>1, RankIs
        <4> QED BY <1>5, <4>1, <4>2 DEF g
      <3> QED BY <3>1, <3>2
    <2>4. ASSUME NEW s \in Somewhere
          PROVE  s \in Samples /\ s \in Elements(SamplesOf(s[1])) /\ Group(s[1]) <= g
      <3>1. s \in Samples /\ s \in Elements(SamplesOf(s[1])) /\ Group(s[1]) <= Received
        BY DEF SampleStages, SamplesComplete
      <3> QED BY <1>5, <1>14, <3>1 DEF g
    <2>5. ASSUME NEW m \in Messages, Parsed(m)' PROVE Parsed(m)
      <3>1. \A v \in Workers : m \notin Elements(todo[v])
        <4>1. m \notin Elements(todo[w])
          BY <1>2 DEF Elements
        <4> QED BY <1>7, <2>5, <4>1 DEF Parsed
      <3>2. ASSUME NEW k \in 1..n PROVE m \notin Elements(packetsIn[k])
        <4>1. CASE k = 1
          <5>1. m \notin Elements(todo'[w])
            BY <2>5 DEF Parsed
          <5>2. todo'[w] = packetsIn[1]
            BY <1>3, <1>5, <1>7
          <5> QED BY <4>1, <5>1, <5>2
        <4>2. CASE k # 1
          <5>1. PICK h \in 1..(n - 1) : k = h + 1
            <6>1. k - 1 \in 1..(n - 1) /\ k = (k - 1) + 1
              BY <1>3, <4>2
            <6> QED BY <6>1
          <5>2. m \notin Elements(packetsIn'[h])
            BY <1>3, <2>5, <5>1 DEF Parsed
          <5> QED BY <1>3, <5>1, <5>2
        <4> QED BY <4>1, <4>2
      <3> QED BY <3>1, <3>2 DEF Parsed, n
    <2>6. \A m \in Messages : Parsed(m)' => Elements(SamplesOf(m)) \subseteq Somewhere
      BY <2>5 DEF SampleStages, SamplesComplete
    <2> QED BY <1>3, <1>6, <1>11, <2>1, <2>2, <2>3, <2>4, <2>6 DEF SamplesComplete
  <1> QED BY <1>12, <1>13, <1>17, <1>18 DEF SampleStages

\* A message and the samples of it.
LEMMA SamplesOfOrder ==
  ASSUME NEW m \in Messages
  PROVE  /\ InOrder(SamplesOf(m)) /\ SamplesOf(m) \in Seq(Samples)
         /\ \A t \in Elements(SamplesOf(m)) : t[1] = m
  <1> DEFINE original == <<m, "parsed">>
             copy     == <<m, "distribution">>
  <1>1. SamplesOf(m) \in {<<>>, <<original>>, <<original, copy>>}
    BY DEF SamplesOf
  <1>2. Precedes(original, copy) /\ original[1] = m /\ copy[1] = m
    BY DEF Precedes
  <1> HIDE DEF original, copy
  <1>3. CASE SamplesOf(m) = <<>>
    BY <1>3, SamplesOfType DEF InOrder, Elements
  <1>4. CASE SamplesOf(m) = <<original>>
    BY <1>2, <1>4, SamplesOfType DEF InOrder, Elements
  <1>5. CASE SamplesOf(m) = <<original, copy>>
    BY <1>2, <1>5, SamplesOfType DEF InOrder, Elements
  <1> QED BY <1>1, <1>3, <1>4, <1>5

\* The samples of a message come behind those of the messages before it.
LEMMA ParseMessageStages ==
  ASSUME IInv, SampleStages, NEW w \in Workers, ParseMessage(w)
  PROVE  SampleStages'
  <1> DEFINE q == todo[w]
  <1>1. PICK m : m = Head(q)
    OBVIOUS
  <1>2. /\ staged[w] = <<>> /\ q # <<>> /\ todo' = [todo EXCEPT ![w] = Tail(q)]
        /\ staged' = [staged EXCEPT ![w] = SamplesOf(m)]
        /\ UNCHANGED <<packetsIn, samples, samplesCount, memory, metricIn, batch, next, exported>>
    BY <1>1 DEF ParseMessage, heapVars, chanVars, aggVars
  <1>3. q \in Seq(Messages)
    BY DEF IInv, TypeOK, WorkerTypeOK
  <1>4. /\ m \in Messages /\ Elements(q) = {m} \cup Elements(Tail(q))
    BY <1>1, <1>2, <1>3, HeadOfElements
  <1>5. /\ staged'[w] = SamplesOf(m) /\ todo'[w] = Tail(q)
        /\ \A v \in Workers : v # w => staged'[v] = staged[v] /\ todo'[v] = todo[v]
    BY <1>2 DEF IInv, TypeOK, WorkerTypeOK
  <1>6. /\ InOrder(SamplesOf(m)) /\ SamplesOf(m) \in Seq(Samples)
        /\ \A t \in Elements(SamplesOf(m)) : t[1] = m
    BY <1>4, SamplesOfOrder
  <1>7. /\ Len(q) \in Nat /\ 1 \in 1..Len(q) /\ m = q[1] /\ Len(Tail(q)) = Len(q) - 1
        /\ \A i \in 1..(Len(q) - 1) : i + 1 \in 1..Len(q) /\ 1 < i + 1 /\ Tail(q)[i] = q[i + 1]
    BY <1>1, <1>2, <1>3
  <1>8. \A i, j \in 1..Len(q) : i < j => Index(q[i]) < Index(q[j])
    BY DEF SampleStages, HandsInOrder
  <1> HIDE DEF q
  <1>9. \A k \in Elements(Tail(q)) : Index(m) < Index(k)
    <2>1. ASSUME NEW i \in 1..Len(Tail(q)) PROVE Index(m) < Index(Tail(q)[i])
      <3>1. PICK j \in 1..Len(q) : j = i + 1 /\ 1 < j /\ Tail(q)[i] = q[j]
        BY <1>7
      <3> QED BY <1>7, <1>8, <3>1
    <2> QED BY <2>1 DEF Elements
  <1>10. \A i, j \in 1..Len(Tail(q)) : i < j => Index(Tail(q)[i]) < Index(Tail(q)[j])
    <2>1. ASSUME NEW i \in 1..Len(Tail(q)), NEW j \in 1..Len(Tail(q)), i < j
          PROVE  Index(Tail(q)[i]) < Index(Tail(q)[j])
      <3>1. PICK a \in 1..Len(q) : a = i + 1 /\ Tail(q)[i] = q[a]
        BY <1>7
      <3>2. PICK b \in 1..Len(q) : b = j + 1 /\ Tail(q)[j] = q[b]
        BY <1>7
      <3>3. a < b
        BY <2>1, <3>1, <3>2
      <3> QED BY <1>8, <3>1, <3>2, <3>3
    <2> QED BY <2>1
  <1>11. /\ Exported' = Exported /\ Exporting' = Exporting /\ Queued' = Queued
         /\ Batched' = Batched
    BY <1>2 DEF Exported, Exporting, Queued, Batched, Part
  <1>12. Union(Queued)' = Union(Queued) /\ Union(Batched)' = Union(Batched)
    BY <1>11 DEF Union
  <1>13. /\ Staged[w] = {} /\ Staged'[w] = Elements(SamplesOf(m))
         /\ Coming[w] = ({m} \cup Elements(Tail(q))) \X {"parsed"}
         /\ Coming'[w] = Elements(Tail(q)) \X {"parsed"}
         /\ \A v \in Workers : v # w => Staged'[v] = Staged[v] /\ Coming'[v] = Coming[v]
    <2>1. Staged[w] = {} /\ Staged'[w] = Elements(SamplesOf(m))
      BY <1>2, <1>5 DEF Staged, Elements
    <2>2. /\ Coming[w] = ({m} \cup Elements(Tail(q))) \X {"parsed"}
          /\ Coming'[w] = Elements(Tail(q)) \X {"parsed"}
      BY <1>4, <1>5 DEF Coming, q
    <2>3. \A v \in Workers : v # w => Staged'[v] = Staged[v] /\ Coming'[v] = Coming[v]
      BY <1>5 DEF Staged, Coming
    <2> QED BY <2>1, <2>2, <2>3
  <1>14. StagesLined'
    <2>1. PICK p2 : p2 = Staged'
      OBVIOUS
    <2>2. PICK c2 : c2 = Coming'
      OBVIOUS
    <2>3. Lined(Exported, Exporting, Union(Queued), Batched, Staged, Coming)
      BY DEF SampleStages, StagesLined
    <2>4. \A t \in p2[w] : t[1] = m
      BY <1>6, <1>13, <2>1
    <2>5. <<m, "parsed">> \in Coming[w] /\ c2[w] \subseteq Coming[w]
      BY <1>13, <2>2
    <2>6. Ahead(p2[w], c2[w])
      <3>1. ASSUME NEW s \in p2[w], NEW t \in c2[w] PROVE Precedes(s, t)
        <4>1. s[1] = m /\ t[1] \in Elements(Tail(q))
          BY <1>13, <2>2, <2>4
        <4>2. Index(s[1]) < Index(t[1])
          BY <1>9, <4>1
        <4> QED BY <4>2 DEF Precedes
      <3> QED BY <3>1 DEF Ahead
    <2>7. Lined(Exported, Exporting, Union(Queued), Batched, p2, c2)
      <3>1. /\ Staged[w] = {}
            /\ \A v \in Workers : v # w => p2[v] = Staged[v] /\ c2[v] = Coming[v]
        BY <1>13, <2>1, <2>2
      <3> QED BY <2>3, <2>4, <2>5, <2>6, <3>1, LinedParse
    <2> QED BY <1>11, <1>12, <2>1, <2>2, <2>7 DEF StagesLined
  <1>15. GivenInOrder'
    BY <1>2, <1>11 DEF SampleStages, GivenInOrder, InOrder, PartInOrder, Ahead
  <1>16. HandsInOrder'
    <2>1. ASSUME NEW v \in Workers PROVE PartInOrder(samples[v].array, 1, samplesCount[v])'
      BY <1>2 DEF SampleStages, HandsInOrder, PartInOrder
    <2>2. ASSUME NEW v \in Workers PROVE InOrder(staged'[v])
      BY <1>5, <1>6 DEF SampleStages, HandsInOrder
    <2>3. \A v \in Workers : InOrder(staged[v])'
      BY <2>2 DEF InOrder
    <2>4. ASSUME NEW v \in Workers, NEW i \in 1..Len(todo'[v]), NEW j \in 1..Len(todo'[v]), i < j
          PROVE  Index(todo'[v][i]) < Index(todo'[v][j])
      <3>1. CASE v = w
        BY <1>5, <1>10, <2>4, <3>1
      <3>2. CASE v # w
        BY <1>5, <2>4, <3>2 DEF SampleStages, HandsInOrder
      <3> QED BY <3>1, <3>2
    <2> QED BY <2>1, <2>3, <2>4 DEF HandsInOrder
  <1>17. Somewhere' = Somewhere \cup Elements(SamplesOf(m))
    <2>1. DOMAIN Staged = Workers /\ DOMAIN Staged' = Workers
      BY DEF Staged
    <2>2. Union(Staged)' = Union(Staged) \cup Elements(SamplesOf(m))
      BY <1>13, <2>1 DEF Union
    <2> QED BY <1>11, <1>12, <2>2 DEF Somewhere
  <1>18. SamplesComplete'
    <2>1. Received' = Received
      BY <1>2 DEF Received
    <2>2. m \in Elements(todo[w])
      BY <1>4 DEF q
    <2>3. Group(m) <= Received
      BY <2>2 DEF SampleStages, SamplesComplete
    <2>4. ASSUME NEW v \in Workers PROVE Elements(todo'[v]) \subseteq Elements(todo[v])
      BY <1>4, <1>5 DEF q
    <2>5. ASSUME NEW s \in Somewhere'
          PROVE  s \in Samples /\ s \in Elements(SamplesOf(s[1])) /\ Group(s[1]) <= Received
      <3>1. CASE s \in Somewhere
        BY <3>1 DEF SampleStages, SamplesComplete
      <3>2. CASE s \in Elements(SamplesOf(m))
        <4>1. s[1] = m
          BY <1>6, <3>2
        <4>2. s \in Samples
          BY <1>6, <3>2 DEF Elements
        <4> QED BY <2>3, <3>2, <4>1, <4>2
      <3> QED BY <1>17, <3>1, <3>2
    <2>6. ASSUME NEW k \in Messages, Parsed(k)' PROVE Elements(SamplesOf(k)) \subseteq Somewhere'
      <3>1. CASE k = m
        BY <1>17, <3>1
      <3>2. CASE k # m
        <4>1. \A v \in Workers : k \notin Elements(todo'[v])
          BY <2>6 DEF Parsed
        <4>2. \A v \in Workers : k \notin Elements(todo[v])
          BY <1>4, <1>5, <3>2, <4>1 DEF q
        <4>3. Parsed(k)
          BY <1>2, <2>6, <4>2 DEF Parsed
        <4> QED BY <1>17, <4>3 DEF SampleStages, SamplesComplete
      <3> QED BY <3>1, <3>2
    <2>7. /\ Len(packetsIn') <= Len(Input)
          /\ \A h \in 1..Len(packetsIn') : packetsIn'[h] = Input[Received + h]
          /\ \A v \in Workers : \A k \in Elements(todo'[v]) : Group(k) <= Received
      BY <1>2, <2>4 DEF SampleStages, SamplesComplete
    <2> QED BY <2>1, <2>5, <2>6, <2>7 DEF SamplesComplete
  <1> QED BY <1>14, <1>15, <1>16, <1>18 DEF SampleStages

\* At first everything is in the input.
LEMMA InitStages == Init => SampleStages
  <1> SUFFICES ASSUME Init PROVE SampleStages
    OBVIOUS
  <1>1. Elements(<<>>) = {} /\ InOrder(<<>>)
    BY DEF Elements, InOrder
  <1>2. /\ Exported = {} /\ Exporting = {} /\ Queued = <<>> /\ Union(Queued) = {}
    <2>1. Exported = {}
      BY <1>1 DEF Init, Exported
    <2>2. Exporting = {}
      BY DEF Init, Exporting, Part, NoSlice
    <2>3. DOMAIN Queued = {}
      BY DEF Init, Queued
    <2>4. Union(Queued) = {}
      BY <2>3 DEF Union
    <2>5. Queued = <<>>
      BY DEF Init, Queued
    <2> QED BY <2>1, <2>2, <2>4, <2>5
  <1>3. \A w \in Workers : Batched[w] = {} /\ Staged[w] = {} /\ Coming[w] = {}
    BY <1>1 DEF Init, Batched, Staged, Coming, Part
  <1>4. StagesLined
    BY <1>2, <1>3 DEF StagesLined, Lined, Ahead, OtherGroups
  <1>5. GivenInOrder
    BY <1>1 DEF Init, GivenInOrder, PartInOrder, NoSlice
  <1>6. HandsInOrder
    BY <1>1 DEF Init, HandsInOrder, PartInOrder
  <1>7. Somewhere = {}
    BY <1>2, <1>3 DEF Somewhere, Union, Batched, Staged
  <1>8. SamplesComplete
    <2>1. packetsIn = Input /\ Len(Input) \in Nat /\ Received = 0
      BY BatchingAssumption DEF Init, BatchingAssumption, Received
    <2>2. ASSUME NEW m \in Messages PROVE ~Parsed(m)
      <3>1. m \in InAll(Input) /\ DOMAIN Input = 1..Len(Input)
        BY BatchingAssumption DEF BatchingAssumption
      <3>2. PICK g \in 1..Len(Input) : m \in Elements(Input[g])
        BY <3>1 DEF InAll
      <3> QED BY <2>1, <3>2 DEF Parsed
    <2>3. \A w \in Workers : Elements(todo[w]) = {}
      BY <1>1 DEF Init
    <2> QED BY <1>7, <2>1, <2>2, <2>3 DEF SamplesComplete
  <1> QED BY <1>4, <1>5, <1>6, <1>8 DEF SampleStages

\* Every step keeps the stages in line.
LEMMA NextStages == IInv /\ SampleStages /\ [Next]_vars => SampleStages'
  <1> SUFFICES ASSUME IInv, SampleStages, [Next]_vars PROVE SampleStages'
    OBVIOUS
  <1>1. ASSUME NEW w \in Workers, Worker(w) PROVE SampleStages'
    <2>1. CASE Refill(w)
      <3>1. PICK s \in Slices : \E from \in Refilling : \E to : GetBatch(w, s, from, to)
        BY <2>1 DEF Refill, Refilling
      <3> QED BY <3>1, GetBatchStages
    <2>2. CASE FlushFull(w) \/ FlushSamples(w, "flush", "getLast")
      <3>1. \E from, to : FlushSamples(w, from, to)
        BY <2>2 DEF FlushFull
      <3> QED BY <3>1, FlushSamplesStages
    <2>3. CASE \/ EndOfPackets(w) \/ NoSamples(w) \/ ExitWorker(w)
               \/ FlushEvents(w) \/ FlushServiceChecks(w)
      BY <2>3, QuietStages DEF EndOfPackets, NoSamples, ExitWorker, FlushEvents, SendBatchedEvents,
         FlushServiceChecks, SendBatchedChecks, heapVars, chanVars, aggVars
    <2> QED BY <1>1, <2>1, <2>2, <2>3, ReceivePacketsStages, ParseMessageStages, AppendSampleStages
            DEF Worker
  <1>2. CASE \/ \E s \in pool : Collect(s)
             \/ StopServer \/ ReceiveEvents \/ ReceiveServiceChecks
             \/ Flush \/ StopAggregator \/ LastFlush
             \/ \E payload \in sending : SendEvents(payload)
    <2>1. UNCHANGED <<packetsIn, todo, staged, samples, samplesCount, memory, metricIn,
                      batch, next, exported>>
      BY <1>2 DEF Collect, StopServer, ReceiveEvents, ReceiveServiceChecks, Flush,
         StopAggregator, LastFlush, SendEvents, workerVars, heapVars, chanVars, aggVars
    <2> QED BY <2>1, QuietStages
  <1>3. CASE UNCHANGED vars
    BY <1>3, QuietStages DEF vars, workerVars, heapVars, chanVars, aggVars
  <1> QED BY <1>1, <1>2, <1>3, ReceiveSamplesStages, AddSampleStages, PutBatchStages
          DEF Next, Export

\* A set of one element, or empty.
LEMMA AtMostOne ==
  ASSUME NEW S, \A x, y \in S : x = y
  PROVE  Cardinality(S) = IF S = {} THEN 0 ELSE 1
  <1>1. CASE S = {}
    BY <1>1, FS_EmptySet
  <1>2. CASE S # {}
    <2>1. PICK x \in S : S = {x}
      BY <1>2
    <2>2. Cardinality({x}) = 1
      BY FS_Singleton
    <2> QED BY <1>2, <2>1, <2>2
  <1> QED BY <1>1, <1>2

\* A sample is in one element of what is in order.
LEMMA OneElement ==
  ASSUME NEW q, InOrder(q), NEW s \in Samples, Len(q) \in Nat
  PROVE  Cardinality({i \in 1..Len(q) : q[i] = s}) = IF s \in Elements(q) THEN 1 ELSE 0
  <1> DEFINE S == {i \in 1..Len(q) : q[i] = s}
  <1>1. \A i, j \in S : i = j
    <2> SUFFICES ASSUME NEW i \in S, NEW j \in S, i < j PROVE FALSE
      OBVIOUS
    <2> QED BY PrecedesStrict DEF InOrder
  <1>2. S = {} <=> s \notin Elements(q)
    BY DEF Elements
  <1>3. Cardinality(S) = IF S = {} THEN 0 ELSE 1
    <2> HIDE DEF S
    <2> QED BY <1>1, AtMostOne
  <1> QED BY <1>2, <1>3

\* The same in a part of an array.
LEMMA OnePart ==
  ASSUME NEW a, NEW from \in Nat, NEW to \in Nat, PartInOrder(a, from, to), NEW s \in Samples,
         NEW i \in from..to, NEW j \in from..to, memory[a][i] = s, memory[a][j] = s
  PROVE  i = j
  <1> SUFFICES ASSUME i # j PROVE FALSE
    OBVIOUS
  <1>1. i < j \/ j < i
    OBVIOUS
  <1> QED BY <1>1, PrecedesStrict DEF PartInOrder

\* What Occurrences counts at each stage.
LEMMA StagedOnce ==
  ASSUME IInv, SampleStages, NEW s \in Samples
  PROVE  Cardinality({p \in UNION {{w} \X (1..Len(staged[w])) : w \in Workers} :
                        staged[p[1]][p[2]] = s})
           = IF s \in Union(Staged) THEN 1 ELSE 0
  <1> DEFINE P == UNION {{w} \X (1..Len(staged[w])) : w \in Workers}
             S == {p \in P : staged[p[1]][p[2]] = s}
  <1>1. \A p \in P : p[1] \in Workers /\ p[2] \in 1..Len(staged[p[1]]) /\ p = <<p[1], p[2]>>
    OBVIOUS
  <1>2. \A w \in Workers : \A i \in 1..Len(staged[w]) : <<w, i>> \in P
    OBVIOUS
  <1> HIDE DEF P
  <1>3. ASSUME NEW p \in S, NEW q \in S PROVE p = q
    <2>1. /\ p[1] \in Workers /\ p[2] \in 1..Len(staged[p[1]]) /\ staged[p[1]][p[2]] = s
          /\ q[1] \in Workers /\ q[2] \in 1..Len(staged[q[1]]) /\ staged[q[1]][q[2]] = s
          /\ p = <<p[1], p[2]>> /\ q = <<q[1], q[2]>>
      BY <1>1
    <2>2. s \in Staged[p[1]] /\ s \in Staged[q[1]]
      BY <2>1 DEF Staged, Elements
    <2>3. p[1] = q[1]
      <3> SUFFICES ASSUME p[1] # q[1] PROVE FALSE
        OBVIOUS
      <3> QED BY <2>1, <2>2 DEF SampleStages, StagesLined, Lined, OtherGroups
    <2>4. p[2] = q[2]
      <3> SUFFICES ASSUME p[2] # q[2] PROVE FALSE
        OBVIOUS
      <3>1. InOrder(staged[p[1]])
        BY <2>1 DEF SampleStages, HandsInOrder
      <3>2. p[2] < q[2] \/ q[2] < p[2]
        BY <2>1
      <3> QED BY <2>1, <2>3, <3>1, <3>2, PrecedesStrict DEF InOrder
    <2> QED BY <2>1, <2>3, <2>4
  <1>4. S = {} <=> s \notin Union(Staged)
    <2>1. ASSUME NEW p \in S PROVE s \in Union(Staged)
      BY <1>1, <2>1 DEF Union, Staged, Elements
    <2>2. ASSUME s \in Union(Staged) PROVE S # {}
      <3>1. PICK w \in Workers : s \in Elements(staged[w])
        BY <2>2 DEF Union, Staged
      <3>2. PICK i \in 1..Len(staged[w]) : staged[w][i] = s
        BY <3>1 DEF Elements
      <3>3. <<w, i>> \in S
        BY <1>2, <3>2
      <3> QED BY <3>3
    <2> QED BY <2>1, <2>2
  <1>5. Cardinality(S) = IF S = {} THEN 0 ELSE 1
    <2> HIDE DEF S
    <2> QED BY <1>3, AtMostOne
  <1> QED BY <1>4, <1>5 DEF P

\* The batches.
LEMMA BatchedOnce ==
  ASSUME IInv, SampleStages, NEW s \in Samples
  PROVE  Cardinality({p \in UNION {{w} \X (1..samplesCount[w]) : w \in Holders} :
                        memory[samples[p[1]].array][p[2]] = s})
           = IF s \in Union(Batched) THEN 1 ELSE 0
  <1> DEFINE P == UNION {{w} \X (1..samplesCount[w]) : w \in Holders}
             S == {p \in P : memory[samples[p[1]].array][p[2]] = s}
  <1>1. \A p \in P : p[1] \in Holders /\ p[2] \in 1..samplesCount[p[1]] /\ p = <<p[1], p[2]>>
    OBVIOUS
  <1>2. \A w \in Holders : \A i \in 1..samplesCount[w] : <<w, i>> \in P
    OBVIOUS
  <1>6. Holders \subseteq Workers
    BY DEF Holders
  <1> HIDE DEF P
  <1>3. ASSUME NEW p \in S, NEW q \in S PROVE p = q
    <2>1. /\ p[1] \in Workers /\ p[2] \in 1..samplesCount[p[1]]
          /\ memory[samples[p[1]].array][p[2]] = s
          /\ q[1] \in Workers /\ q[2] \in 1..samplesCount[q[1]]
          /\ memory[samples[q[1]].array][q[2]] = s
          /\ p = <<p[1], p[2]>> /\ q = <<q[1], q[2]>>
      BY <1>1, <1>6
    <2>2. s \in Batched[p[1]] /\ s \in Batched[q[1]]
      BY <2>1 DEF Batched, Part
    <2>3. p[1] = q[1]
      <3> SUFFICES ASSUME p[1] # q[1] PROVE FALSE
        OBVIOUS
      <3> QED BY <2>1, <2>2 DEF SampleStages, StagesLined, Lined, OtherGroups
    <2>4. p[2] = q[2]
      <3> SUFFICES ASSUME p[2] # q[2] PROVE FALSE
        OBVIOUS
      <3>1. PartInOrder(samples[p[1]].array, 1, samplesCount[p[1]])
        BY <2>1 DEF SampleStages, HandsInOrder
      <3>2. p[2] < q[2] \/ q[2] < p[2]
        BY <2>1
      <3> QED BY <2>1, <2>3, <3>1, <3>2, PrecedesStrict DEF PartInOrder
    <2> QED BY <2>1, <2>3, <2>4
  <1>4. S = {} <=> s \notin Union(Batched)
    <2>1. ASSUME NEW p \in S PROVE s \in Union(Batched)
      BY <1>1, <1>6, <2>1 DEF Union, Batched, Part
    <2>2. ASSUME s \in Union(Batched) PROVE S # {}
      <3>1. PICK w \in Workers : s \in Part(samples[w].array, 1, samplesCount[w])
        BY <2>2 DEF Union, Batched
      <3>2. PICK i \in 1..samplesCount[w] : memory[samples[w].array][i] = s
        BY <3>1 DEF Part
      <3>3. samplesCount[w] # 0
        BY <3>2
      <3>4. w \in Holders
        BY <3>3 DEF Holders, Refilling, IInv, Flushing
      <3>5. <<w, i>> \in S
        BY <1>2, <3>2, <3>4
      <3> QED BY <3>5
    <2> QED BY <2>1, <2>2
  <1>5. Cardinality(S) = IF S = {} THEN 0 ELSE 1
    <2> HIDE DEF S
    <2> QED BY <1>3, AtMostOne
  <1> QED BY <1>4, <1>5 DEF P

\* The channel.
LEMMA QueuedOnce ==
  ASSUME IInv, SampleStages, NEW s \in Samples
  PROVE  Cardinality({p \in UNION {{k} \X (1..metricIn[k].len) : k \in 1..Len(metricIn)} :
                        memory[metricIn[p[1]].array][p[2]] = s})
           = IF s \in Union(Queued) THEN 1 ELSE 0
  <1> DEFINE P == UNION {{k} \X (1..metricIn[k].len) : k \in 1..Len(metricIn)}
             S == {p \in P : memory[metricIn[p[1]].array][p[2]] = s}
  <1>1. \A p \in P : p[1] \in 1..Len(metricIn) /\ p[2] \in 1..metricIn[p[1]].len /\ p = <<p[1], p[2]>>
    OBVIOUS
  <1>2. \A k \in 1..Len(metricIn) : \A i \in 1..metricIn[k].len : <<k, i>> \in P
    OBVIOUS
  <1> HIDE DEF P
  <1>3. ASSUME NEW p \in S, NEW q \in S PROVE p = q
    <2>1. /\ p[1] \in 1..Len(metricIn) /\ p[2] \in 1..metricIn[p[1]].len
          /\ memory[metricIn[p[1]].array][p[2]] = s
          /\ q[1] \in 1..Len(metricIn) /\ q[2] \in 1..metricIn[q[1]].len
          /\ memory[metricIn[q[1]].array][q[2]] = s
          /\ p = <<p[1], p[2]>> /\ q = <<q[1], q[2]>>
      BY <1>1
    <2>2. s \in Queued[p[1]] /\ s \in Queued[q[1]]
      BY <2>1 DEF Queued, Part
    <2>3. p[1] = q[1]
      <3> SUFFICES ASSUME p[1] # q[1] PROVE FALSE
        OBVIOUS
      <3>1. p[1] < q[1] \/ q[1] < p[1]
        BY <2>1
      <3>2. Ahead(Queued[p[1]], Queued[q[1]]) \/ Ahead(Queued[q[1]], Queued[p[1]])
        BY <2>1, <3>1 DEF SampleStages, GivenInOrder
      <3> QED BY <2>2, <3>2, PrecedesStrict DEF Ahead
    <2>4. p[2] = q[2]
      <3> SUFFICES ASSUME p[2] # q[2] PROVE FALSE
        OBVIOUS
      <3>1. PartInOrder(metricIn[p[1]].array, 1, metricIn[p[1]].len)
        BY <2>1 DEF SampleStages, GivenInOrder
      <3>2. p[2] < q[2] \/ q[2] < p[2]
        BY <2>1
      <3> QED BY <2>1, <2>3, <3>1, <3>2, PrecedesStrict DEF PartInOrder
    <2> QED BY <2>1, <2>3, <2>4
  <1>4. S = {} <=> s \notin Union(Queued)
    <2>1. ASSUME NEW p \in S PROVE s \in Union(Queued)
      BY <1>1, <2>1 DEF Union, Queued, Part
    <2>2. ASSUME s \in Union(Queued) PROVE S # {}
      <3>1. PICK k \in 1..Len(metricIn) : s \in Part(metricIn[k].array, 1, metricIn[k].len)
        BY <2>2 DEF Union, Queued
      <3>2. PICK i \in 1..metricIn[k].len : memory[metricIn[k].array][i] = s
        BY <3>1 DEF Part
      <3>3. <<k, i>> \in S
        BY <1>2, <3>2
      <3> QED BY <3>3
    <2> QED BY <2>1, <2>2
  <1>5. Cardinality(S) = IF S = {} THEN 0 ELSE 1
    <2> HIDE DEF S
    <2> QED BY <1>3, AtMostOne
  <1> QED BY <1>4, <1>5 DEF P

\* The aggregator's slice.
LEMMA ExportingOnce ==
  ASSUME IInv, SampleStages, NEW s \in Samples
  PROVE  Cardinality({i \in next..batch.len : memory[batch.array][i] = s})
           = IF s \in Exporting THEN 1 ELSE 0
  <1> DEFINE S == {i \in next..batch.len : memory[batch.array][i] = s}
  <1>1. next \in Nat /\ batch.len \in Nat
    BY BatchingAssumption DEF IInv, TypeOK, AggregatorTypeOK, Slices, NoSlice, BatchingAssumption
  <1>2. \A i, j \in S : i = j
    <2>1. PartInOrder(batch.array, next, batch.len)
      BY DEF SampleStages, GivenInOrder
    <2>2. PICK a : a = batch.array
      OBVIOUS
    <2> QED BY <1>1, <2>1, <2>2, OnePart
  <1>3. S = {} <=> s \notin Exporting
    BY DEF Exporting, Part
  <1>4. Cardinality(S) = IF S = {} THEN 0 ELSE 1
    <2> HIDE DEF S
    <2> QED BY <1>2, AtMostOne
  <1> QED BY <1>3, <1>4

\* Nothing is in two stages.
LEMMA StagesExclude ==
  ASSUME IInv, SampleStages, NEW s \in Samples
  PROVE  /\ s \in Exported => s \notin Exporting
         /\ s \in Exported \cup Exporting => s \notin Union(Queued)
         /\ s \in Exported \cup Exporting \cup Union(Queued) => s \notin Union(Batched) \cup Union(Staged)
         /\ s \in Union(Batched) => s \notin Union(Staged)
  <1>1. ASSUME NEW A, NEW B, Ahead(A, B) PROVE ~(s \in A /\ s \in B)
    BY <1>1, PrecedesStrict DEF Ahead
  <1>2. /\ Ahead(Exported, Exporting) /\ Ahead(Exported \cup Exporting, Union(Queued))
        /\ \A w \in Workers :
             /\ Ahead(Exported \cup Exporting \cup Union(Queued),
                      Batched[w] \cup Staged[w] \cup Coming[w])
             /\ Ahead(Batched[w], Staged[w] \cup Coming[w])
    BY DEF SampleStages, StagesLined, Lined
  <1>3. /\ s \in Exported => s \notin Exporting
        /\ s \in Exported \cup Exporting => s \notin Union(Queued)
    BY <1>1, <1>2
  <1>4. ASSUME s \in Exported \cup Exporting \cup Union(Queued), NEW w \in Workers
        PROVE  s \notin Batched[w] /\ s \notin Staged[w]
    BY <1>1, <1>2, <1>4
  <1>5. ASSUME NEW w \in Workers, NEW v \in Workers, s \in Batched[w] PROVE s \notin Staged[v]
    <2>1. CASE w = v
      <3>1. Ahead(Batched[w], Staged[w] \cup Coming[w])
        BY <1>2
      <3>2. s \notin Staged[w] \cup Coming[w]
        BY <1>1, <1>5, <3>1
      <3> QED BY <2>1, <3>2
    <2>2. CASE w # v
      BY <1>5, <2>2 DEF SampleStages, StagesLined, Lined, OtherGroups
    <2> QED BY <2>1, <2>2
  <1> QED BY <1>3, <1>4, <1>5 DEF Union, Batched, Staged

\* What is somewhere is what was parsed.
LEMMA SomewhereIsProduced ==
  ASSUME IInv, SampleStages
  PROVE  Somewhere = Produced
  <1>1. ASSUME NEW s \in Produced PROVE s \in Somewhere
    BY <1>1 DEF Produced, SampleStages, SamplesComplete
  <1>2. ASSUME NEW s \in Somewhere PROVE s \in Produced
    <2>1. /\ s \in Samples /\ s[1] \in Messages /\ s \in Elements(SamplesOf(s[1]))
          /\ Group(s[1]) <= Received
      BY DEF SampleStages, SamplesComplete, Samples
    <2>2. PICK m \in Messages : m = s[1]
      BY <2>1
    <2>3. Group(m) \in Nat /\ Index(m) \in Nat
      BY RankIs
    <2>4. ASSUME NEW g \in 1..Len(packetsIn), NEW i \in 1..Len(packetsIn[g]), packetsIn[g][i] = m
          PROVE  FALSE
      <3>1. /\ packetsIn[g] = Input[Received + g] /\ Len(Input) \in Nat /\ Len(packetsIn) \in Nat
            /\ Received = Len(Input) - Len(packetsIn) /\ Len(packetsIn) <= Len(Input)
        BY BatchingAssumption DEF SampleStages, SamplesComplete, Received, BatchingAssumption,
           IInv, TypeOK, WorkerTypeOK
      <3>2. PICK h \in 1..Len(Input) : h = Received + g /\ h > Received
        BY <3>1
      <3>3. Group(m) = h
        BY <2>4, <3>1, <3>2, RankOf
      <3> QED BY <2>1, <2>2, <2>3, <3>1, <3>2, <3>3
    <2>5. ASSUME NEW w \in Workers, m \in Elements(todo[w]) PROVE FALSE
      <3>1. <<m, "parsed">> \in Coming[w]
        BY <2>5 DEF Coming
      <3>2. ~Precedes(s, <<m, "parsed">>)
        BY <2>2, <2>3 DEF Precedes
      <3>3. Group(s[1]) = Group(<<m, "parsed">>[1])
        BY <2>2
      <3>4. CASE s \in Exported \cup Exporting \cup Union(Queued)
        BY <3>1, <3>2, <3>4 DEF SampleStages, StagesLined, Lined, Ahead
      <3>5. ASSUME NEW v \in Workers, s \in Batched[v] \cup Staged[v] PROVE FALSE
        <4>1. CASE v = w
          BY <3>1, <3>2, <3>5, <4>1 DEF SampleStages, StagesLined, Lined, Ahead
        <4>2. CASE v # w
          BY <3>1, <3>3, <3>5, <4>2 DEF SampleStages, StagesLined, Lined, OtherGroups
        <4> QED BY <4>1, <4>2
      <3> QED BY <3>4, <3>5 DEF Somewhere, Union, Batched, Staged
    <2>6. Parsed(m)
      BY <2>4, <2>5 DEF Parsed, Elements
    <2> QED BY <2>1, <2>2, <2>6 DEF Produced
  <1> QED BY <1>1, <1>2

(***************************************************************************)
(* SamplesOnTheWay: every sample of a parsed message is in one place,      *)
(* read through the arrays that batchers, channel, aggregator and pool     *)
(* pass around, and the samples of a group reach the exporter in their     *)
(* order, for any number of workers and arrays and any batch size.         *)
(***************************************************************************)
THEOREM SamplesOnTheWay == Spec => []SamplesExact
  <1>1. ASSUME IInv, SampleStages, NEW s \in Samples
        PROVE  Occurrences(s) = IF s \in Produced THEN 1 ELSE 0
    <2>1. /\ s \in Produced <=> s \in Somewhere
      BY <1>1, SomewhereIsProduced
    <2>2. Cardinality({i \in 1..Len(exported) : exported[i] = s}) = IF s \in Exported THEN 1 ELSE 0
      <3>1. InOrder(exported) /\ Len(exported) \in Nat
        BY <1>1 DEF SampleStages, GivenInOrder, IInv, TypeOK, AggregatorTypeOK
      <3> QED BY <3>1, OneElement DEF Exported
    <2>3. Occurrences(s) = (IF s \in Union(Staged) THEN 1 ELSE 0)
                             + (IF s \in Union(Batched) THEN 1 ELSE 0)
                             + (IF s \in Union(Queued) THEN 1 ELSE 0)
                             + (IF s \in Exporting THEN 1 ELSE 0)
                             + (IF s \in Exported THEN 1 ELSE 0)
      BY <1>1, <2>2, StagedOnce, BatchedOnce, QueuedOnce, ExportingOnce DEF Occurrences
    <2>4. /\ s \in Exported => s \notin Exporting
          /\ s \in Exported \cup Exporting => s \notin Union(Queued)
          /\ s \in Exported \cup Exporting \cup Union(Queued)
               => s \notin Union(Batched) \cup Union(Staged)
          /\ s \in Union(Batched) => s \notin Union(Staged)
      BY <1>1, StagesExclude
    <2> QED BY <2>1, <2>3, <2>4 DEF Somewhere
  <1>2. ASSUME IInv, SampleStages PROVE None \notin Elements(exported)
    <2>1. Exported \subseteq Samples
      BY <1>2 DEF SampleStages, SamplesComplete, Somewhere
    <2> QED BY <2>1, BatchingAssumption DEF Exported, BatchingAssumption
  <1>3. ASSUME IInv, SampleStages PROVE ExportedInOrder
    <2> SUFFICES ASSUME NEW i \in 1..Len(exported), NEW j \in 1..Len(exported), i < j,
                        Rank(exported[i][1])[1] = Rank(exported[j][1])[1]
                 PROVE  \/ Rank(exported[i][1])[2] < Rank(exported[j][1])[2]
                        \/ /\ Rank(exported[i][1])[2] = Rank(exported[j][1])[2]
                           /\ exported[i][2] = "parsed"
                           /\ exported[j][2] = "distribution"
      BY DEF ExportedInOrder
    <2>1. Precedes(exported[i], exported[j])
      BY <1>3 DEF SampleStages, GivenInOrder, InOrder
    <2> QED BY <2>1 DEF Precedes, Group, Index
  <1>4. IInv /\ SampleStages => SamplesExact
    BY <1>1, <1>2, <1>3 DEF SamplesExact, SamplesAccounted
  <1> QED BY <1>4, InitIInv, NextIInv, InitStages, NextStages, PTL DEF Spec

=============================================================================
