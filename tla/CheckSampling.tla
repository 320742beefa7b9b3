--------------------------- MODULE CheckSampling ---------------------------
(***************************************************************************)
(* What checks send through their senders (aggregator/sender.go) and what  *)
(* the aggregator makes of it in the checks' samplers                      *)
(* (aggregator/check_sampler.go, context_resolver.go, sketch_map.go,       *)
(* metrics/count.go, metrics/monotonic_count.go): counts, monotonic counts *)
(* and histogram buckets, committed at the end of a run and taken by the   *)
(* next flush.                                                             *)
(*                                                                         *)
(* Two goroutines meet here.  A check's run calls GetSender, sends, and    *)
(* commits; a run that fails returns without its commit.  The aggregator's *)
(* loop receives samples and commits from one channel, buckets from        *)
(* another, and flushes; its select prefers neither channel.  mu makes a   *)
(* registration and each handler one step.                                 *)
(*                                                                         *)
(* A context is the name, host and tags of a metric: here the kind of the  *)
(* metric, one of each per check.  A series is kept as the sum of its      *)
(* points, a sketch as the number of values in it.  The clock counts whole *)
(* seconds, the grain of sketchMap's keys.                                 *)
(***************************************************************************)
EXTENDS Integers, Sequences, Functions

CONSTANTS
  Checks,           \* the check ids
  RawValues,        \* the values of a monotonic counter or bucket
  MaxSends,         \* bound on the samples and buckets sent
  MaxTime,          \* bound on the clock
  MaxFaults,        \* bound on runs without a commit and on DestroySender
  ChanSize,         \* capacity of each of the two channels
  ContextExpiry,    \* defaultExpiry
  BucketExpiry,     \* bucketExpiry
  Granularity,      \* interpolationGranularity
  None

ASSUME CheckSamplingAssumption ==
  /\ RawValues \subseteq Nat
  /\ {MaxSends, MaxTime, MaxFaults, BucketExpiry} \subseteq Nat
  /\ {ChanSize, Granularity, ContextExpiry} \subseteq Nat \ {0}
  /\ None \notin Nat

VARIABLES
  now,              \* the clock
  running,          \* the checks in the middle of a run
  sends,            \* how many samples and buckets were sent
  faults,           \* how many runs failed and senders were destroyed
  checkMetricIn,    \* samples and commits on their way to the aggregator
  bucketIn,         \* checkHistogramBucketIn
  checkSamplers,    \* the samplers, by the ids that are registered
  due               \* history: what each sampler was given and has not flushed

vars == <<now, running, sends, faults, checkMetricIn, bucketIn, checkSamplers, due>>
checkVars == <<running, sends, faults>>

Times == 0..MaxTime
Contexts == {"count", "mono", "bucket"}
Sample == [id : Checks, kind : {"count"}, value : {1}, ts : Times]
          \cup [id : Checks, kind : {"mono"}, value : RawValues, ts : Times]
CommitMessage == [id : Checks, kind : {"commit"}]
Bucket == [id : Checks, value : RawValues, ts : Times]

MonotonicCount == [previousSample : RawValues \cup {0}, currentSample : RawValues \cup {0},
                   sampledSinceLastFlush : BOOLEAN, hasPreviousSample : BOOLEAN, value : Nat]
Totals == [count : Nat, mono : Nat, bucket : Nat]
ContextTimes == UNION {[K -> Times] : K \in SUBSET Contexts}
Sampler == [count : Nat, mono : MonotonicCount, lastSeenByKey : ContextTimes,
            sketchMap : [Times -> Nat], lastBucketValue : RawValues \cup {None},
            lastSeenBucket : Times \cup {None}, committed : Totals]
Nothing == [count |-> 0, mono |-> 0, bucket |-> 0]

(* Maps: the empty one, and one with an entry set.                         *)
NoEntries == [k \in {} |-> 0]
With(map, key, value) == [k \in DOMAIN map \cup {key} |-> IF k = key THEN value ELSE map[k]]

newCheckSampler ==
  [count |-> 0,
   mono |-> [previousSample |-> 0, currentSample |-> 0,
             sampledSinceLastFlush |-> FALSE, hasPreviousSample |-> FALSE, value |-> 0],
   lastSeenByKey |-> NoEntries,
   sketchMap |-> [t \in Times |-> 0],
   lastBucketValue |-> None,
   lastSeenBucket |-> None,
   committed |-> Nothing]

(* What a sampler was given and has not flushed: counts, rises of the      *)
(* monotonic counter, rises of the bucket; and the last raw values.  That  *)
(* of the bucket is None once it was not the plain case: lower than        *)
(* before, more than Granularity higher, or forgotten in between.          *)
Due == [count : Nat, mono : Nat, bucket : Nat, lastMono : RawValues \cup {None},
        lastBucket : RawValues \cup {0, None}]
NothingDue == [count |-> 0, mono |-> 0, bucket |-> 0, lastMono |-> None, lastBucket |-> 0]
isPlain(d) == d.lastBucket # None

Init ==
  /\ now = 0
  /\ running = {}
  /\ sends = 0
  /\ faults = 0
  /\ checkMetricIn = <<>>
  /\ bucketIn = <<>>
  /\ checkSamplers = NoEntries
  /\ due = [c \in Checks |-> NothingDue]

(***************************************************************************)
(* The checks.                                                             *)
(***************************************************************************)
(* A run starts: getSender finds the sender, or mkSender makes one and     *)
(* registers a sampler for it.                                             *)
GetSender(c) ==
  /\ c \notin running
  /\ running' = running \cup {c}
  /\ IF c \in DOMAIN checkSamplers
     THEN UNCHANGED <<checkSamplers, due>>
     ELSE /\ checkSamplers' = With(checkSamplers, c, newCheckSampler)
          /\ UNCHANGED due
  /\ UNCHANGED <<now, sends, faults, checkMetricIn, bucketIn>>

(* Count and MonotonicCount stamp the sample and wait for room.            *)
sendMetricSample(c) ==
  /\ c \in running
  /\ sends < MaxSends
  /\ Len(checkMetricIn) < ChanSize
  /\ \E m \in [id : {c}, kind : {"count"}, value : {1}, ts : {now}]
              \cup [id : {c}, kind : {"mono"}, value : RawValues, ts : {now}] :
       checkMetricIn' = Append(checkMetricIn, m)
  /\ sends' = sends + 1
  /\ UNCHANGED <<now, running, faults, bucketIn, checkSamplers, due>>

HistogramBucket(c) ==
  /\ c \in running
  /\ sends < MaxSends
  /\ Len(bucketIn) < ChanSize
  /\ \E v \in RawValues : bucketIn' = Append(bucketIn, [id |-> c, value |-> v, ts |-> now])
  /\ sends' = sends + 1
  /\ UNCHANGED <<now, running, faults, checkMetricIn, checkSamplers, due>>

(* The commit travels with the samples, and ends the run.                  *)
Commit(c) ==
  /\ c \in running
  /\ Len(checkMetricIn) < ChanSize
  /\ checkMetricIn' = Append(checkMetricIn, [id |-> c, kind |-> "commit"])
  /\ running' = running \ {c}
  /\ UNCHANGED <<now, sends, faults, bucketIn, checkSamplers, due>>

(* A run that returns an error does so before its Commit.                  *)
FailRun(c) ==
  /\ c \in running
  /\ faults < MaxFaults
  /\ faults' = faults + 1
  /\ running' = running \ {c}
  /\ UNCHANGED <<now, sends, checkMetricIn, bucketIn, checkSamplers, due>>

DestroySender(c) ==
  /\ c \notin running
  /\ c \in DOMAIN checkSamplers
  /\ faults < MaxFaults
  /\ faults' = faults + 1
  /\ checkSamplers' = Restrict(checkSamplers, DOMAIN checkSamplers \ {c})
  /\ due' = [due EXCEPT ![c] = NothingDue]
  /\ UNCHANGED <<now, running, sends, checkMetricIn, bucketIn>>

(***************************************************************************)
(* The samplers.                                                           *)
(***************************************************************************)
\* Mutant: a context keeps the time it was first seen.
trackContextOnce(s, context, ts) ==
  IF context \in DOMAIN s.lastSeenByKey THEN s
  ELSE [s EXCEPT !.lastSeenByKey = With(@, context, ts)]

trackContext(s, context, ts) ==
  [s EXCEPT !.lastSeenByKey = With(@, context, ts)]

Rise(from, to) == IF to > from THEN to - from ELSE 0

(* MonotonicCount.addSample: consecutive samples add their rise.           *)
addMonotonic(mc, v) ==
  LET previous == IF mc.sampledSinceLastFlush THEN mc.currentSample ELSE mc.previousSample
      hasPrevious == mc.sampledSinceLastFlush \/ mc.hasPreviousSample
  IN [previousSample |-> previous, currentSample |-> v,
      sampledSinceLastFlush |-> TRUE, hasPreviousSample |-> hasPrevious,
      value |-> IF hasPrevious THEN mc.value + Rise(previous, v) ELSE mc.value]

hasSerie(mc) == mc.sampledSinceLastFlush /\ mc.hasPreviousSample

\* Mutant: a flush forgets the last sample.
flushMonotonicAll(mc) == newCheckSampler.mono

(* MonotonicCount.flush: without two samples there is nothing to flush and *)
(* nothing is reset.                                                       *)
flushMonotonic(mc) ==
  IF hasSerie(mc)
  THEN [previousSample |-> mc.currentSample, currentSample |-> 0,
        sampledSinceLastFlush |-> FALSE, hasPreviousSample |-> mc.hasPreviousSample,
        value |-> 0]
  ELSE mc

addSample(s, m) ==
  LET t == trackContext(s, m.kind, m.ts)
  IN IF m.kind = "count" THEN [t EXCEPT !.count = @ + m.value]
                         ELSE [t EXCEPT !.mono = addMonotonic(@, m.value)]

(* The linear interpolation: at most Granularity groups of values, each    *)
(* with the whole part of its share.                                       *)
interpolated(v) == IF v > Granularity THEN Granularity * (v \div Granularity) ELSE v

(* A zero is ignored before anything else.  The bucket is monotonic: only  *)
(* a rise over the last value is inserted, under the bucket's second.      *)
addBucket(s, b) ==
  LET t == trackContext(s, "bucket", b.ts)
      delta == IF s.lastBucketValue = None THEN b.value ELSE Rise(s.lastBucketValue, b.value)
  IN IF b.value = 0 THEN s
     ELSE [t EXCEPT !.lastBucketValue = b.value,
                    !.lastSeenBucket = now,
                    !.sketchMap[b.ts] = @ + interpolated(delta)]

(* Every metric is flushed and reset; a series whose context is no longer  *)
(* tracked is dropped.                                                     *)
commitSeries(s) ==
  LET ofTracked(context, n) == IF context \in DOMAIN s.lastSeenByKey THEN n ELSE 0
  IN [s EXCEPT !.count = 0,
               !.mono = flushMonotonic(@),
               !.committed =
                 [@ EXCEPT !.count = s.committed.count + ofTracked("count", s.count),
                           !.mono = s.committed.mono + IF hasSerie(s.mono) THEN ofTracked("mono", s.mono.value)
                                                                           ELSE 0]]

(* How many values are inserted for the seconds before t.                  *)
valuesBefore(sketches, t) ==
  LET upTo[u \in 0..t] == IF u = 0 THEN 0 ELSE upTo[u - 1] + sketches[u - 1]
  IN  upTo[t]

(* Sketches of seconds that have passed.  newSketchSeries reads the        *)
(* context without looking whether there is one.                           *)
flushBefore(s, t) ==
  [s EXCEPT !.sketchMap = [u \in Times |-> IF u < t THEN 0 ELSE @[u]],
            !.committed = [@ EXCEPT !.bucket = s.committed.bucket + valuesBefore(s.sketchMap, t)]]

expireContexts(s, t) ==
  [s EXCEPT !.lastSeenByKey = Restrict(@, {k \in DOMAIN @ : @[k] >= t})]

\* Mutant: sketches are not committed.
commitSeriesOnly(s) == expireContexts(commitSeries(s), now - ContextExpiry)

commit(s) ==
  expireContexts(flushBefore(commitSeries(s), now), now - ContextExpiry)

(* The deltas of a bucket that was not seen for BucketExpiry are forgotten.*)
forgets(s) == s.lastSeenBucket # None /\ now - s.lastSeenBucket > BucketExpiry

flushSampler(s) ==
  [s EXCEPT !.committed = Nothing,
            !.lastSeenBucket = IF forgets(s) THEN None ELSE @,
            !.lastBucketValue = IF forgets(s) THEN None ELSE @]

(***************************************************************************)
(* The aggregator's loop.  What comes for an id that is not registered is  *)
(* dropped.                                                                *)
(***************************************************************************)
DueSample(d, m) ==
  IF m.kind = "count" THEN [d EXCEPT !.count = @ + m.value]
  ELSE [d EXCEPT !.mono = IF d.lastMono = None THEN 0 ELSE @ + Rise(d.lastMono, m.value),
                 !.lastMono = m.value]

handleSenderSample ==
  /\ checkMetricIn # <<>>
  /\ checkMetricIn' = Tail(checkMetricIn)
  /\ LET m == Head(checkMetricIn) IN
       IF m.id \notin DOMAIN checkSamplers
       THEN UNCHANGED <<checkSamplers, due>>
       ELSE IF m.kind = "commit"
       THEN /\ checkSamplers' = [checkSamplers EXCEPT ![m.id] = commit(@)]
            /\ UNCHANGED due
       ELSE /\ checkSamplers' = [checkSamplers EXCEPT ![m.id] = addSample(@, m)]
            /\ due' = [due EXCEPT ![m.id] = DueSample(@, m)]
  /\ UNCHANGED <<now, checkVars, bucketIn>>

NoLongerPlain(d) == [d EXCEPT !.bucket = 0, !.lastBucket = None]

DueBucket(d, v) ==
  IF v = 0 \/ ~isPlain(d) THEN d
  ELSE IF v \in d.lastBucket..(d.lastBucket + Granularity)
  THEN [d EXCEPT !.bucket = @ + v - d.lastBucket, !.lastBucket = v]
  ELSE NoLongerPlain(d)

handleSenderBucket ==
  /\ bucketIn # <<>>
  /\ bucketIn' = Tail(bucketIn)
  /\ LET b == Head(bucketIn) IN
       IF b.id \notin DOMAIN checkSamplers
       THEN UNCHANGED <<checkSamplers, due>>
       ELSE /\ checkSamplers' = [checkSamplers EXCEPT ![b.id] = addBucket(@, b)]
            /\ due' = [due EXCEPT ![b.id] = DueBucket(@, b.value)]
  /\ UNCHANGED <<now, checkVars, checkMetricIn>>

DueAfter(d, s) ==
  LET left == [d EXCEPT !.count = @ - s.committed.count, !.mono = @ - s.committed.mono,
                        !.bucket = IF isPlain(d) THEN @ - s.committed.bucket ELSE 0]
  IN IF forgets(s) THEN NoLongerPlain(left) ELSE left

(* GetSeriesAndSketches: what every sampler has committed, at once.        *)
flush ==
  /\ checkSamplers' = [c \in DOMAIN checkSamplers |-> flushSampler(checkSamplers[c])]
  /\ due' = [c \in Checks |-> IF c \in DOMAIN checkSamplers THEN DueAfter(due[c], checkSamplers[c])
                                                             ELSE due[c]]
  /\ UNCHANGED <<now, checkVars, checkMetricIn, bucketIn>>

Tick ==
  /\ now < MaxTime
  /\ now' = now + 1
  /\ UNCHANGED <<checkVars, checkMetricIn, bucketIn, checkSamplers, due>>

Next ==
  \/ \E c \in Checks :
       \/ GetSender(c) \/ sendMetricSample(c) \/ HistogramBucket(c)
       \/ Commit(c) \/ FailRun(c) \/ DestroySender(c)
  \/ handleSenderSample \/ handleSenderBucket \/ flush \/ Tick

Spec == Init /\ [][Next]_vars

(* The collector runs a check again and again; the select of the           *)
(* aggregator's loop takes each ready case at some time; the ticker ticks; *)
(* and a sender waiting for room gets it.                                  *)
FairSpec ==
  /\ Spec
  /\ \A c \in Checks : WF_vars(GetSender(c)) /\ SF_vars(Commit(c))
  /\ WF_vars(handleSenderSample) /\ WF_vars(handleSenderBucket)
  /\ WF_vars(flush) /\ WF_vars(Tick)

(***************************************************************************)
(* Properties.                                                             *)
(***************************************************************************)
CheckTypeOK ==
  /\ now \in Times
  /\ running \subseteq Checks
  /\ sends \in 0..MaxSends
  /\ faults \in 0..MaxFaults
  /\ checkMetricIn \in Seq(Sample \cup CommitMessage) /\ Len(checkMetricIn) <= ChanSize
  /\ bucketIn \in Seq(Bucket) /\ Len(bucketIn) <= ChanSize

SamplerTypeOK ==
  /\ DOMAIN checkSamplers \subseteq Checks
  /\ checkSamplers \in [DOMAIN checkSamplers -> Sampler]
  /\ due \in [Checks -> Due]

TypeOK == CheckTypeOK /\ SamplerTypeOK

(***************************************************************************)
(* CountsConserved: every count a registered sampler was given and has not *)
(* flushed is there once, pending or committed, however commits, flushes,  *)
(* failed runs and the expiry of contexts fall between its samples.        *)
(***************************************************************************)
CountsConserved ==
  \A c \in DOMAIN checkSamplers : due[c].count = checkSamplers[c].committed.count + checkSamplers[c].count

(***************************************************************************)
(* IncreaseExact: what is reported of a monotonic counter adds up to the   *)
(* rises between its consecutive samples, those with a commit and a flush  *)
(* between them included, and those with an expired context in between.    *)
(***************************************************************************)
IncreaseExact ==
  \A c \in DOMAIN checkSamplers :
    due[c].mono = checkSamplers[c].committed.mono + checkSamplers[c].mono.value

(***************************************************************************)
(* SeriesExact: both, and every variable keeps its type.                   *)
(***************************************************************************)
SeriesExact == TypeOK /\ CountsConserved /\ IncreaseExact

(***************************************************************************)
(* BucketsOnce: the deltas inserted for a monotonic bucket that only grew, *)
(* in steps of at most Granularity and without a pause long enough to be   *)
(* forgotten, add up to its last raw value.                                *)
(***************************************************************************)
BucketsOnce ==
  \A c \in DOMAIN checkSamplers :
    isPlain(due[c]) =>
      due[c].bucket = checkSamplers[c].committed.bucket + valuesBefore(checkSamplers[c].sketchMap, MaxTime + 1)

(***************************************************************************)
(* SketchesNamed: a sketch that waits for a commit has its context, which  *)
(* newSketchSeries reads without a test; the expiry at the end of a commit *)
(* never takes the context of a sketch that the commit left for the next.  *)
(***************************************************************************)
SketchesNamed ==
  \A c \in DOMAIN checkSamplers :
    (\E t \in Times : checkSamplers[c].sketchMap[t] > 0) => "bucket" \in DOMAIN checkSamplers[c].lastSeenByKey

(***************************************************************************)
(* SketchesExact: what is inserted for a bucket is right, and its series   *)
(* can be named when it is committed.                                      *)
(***************************************************************************)
SketchesExact == BucketsOnce /\ SketchesNamed

(***************************************************************************)
(* EventuallyFlushed: what a sampler holds of counts and of buckets whose  *)
(* second has passed is flushed, also when the commit of its own run       *)
(* overtook a bucket or never came: a later run's commit takes it.         *)
(***************************************************************************)
Pending(c) ==
  /\ c \in DOMAIN checkSamplers
  /\ \/ checkSamplers[c].count + checkSamplers[c].committed.count + checkSamplers[c].committed.bucket > 0
     \/ \E t \in Times \ {MaxTime} : checkSamplers[c].sketchMap[t] > 0

EventuallyFlushed == \A c \in Checks : Pending(c) ~> ~Pending(c)

(***************************************************************************)
(* The inductive invariant of MetricsProofs.                               *)
(***************************************************************************)

(* A sampler that is not registered has nothing due.                       *)
UnregisteredClean == \A c \in Checks \ DOMAIN checkSamplers : due[c] = NothingDue

(* What waits for a commit has its context, so that the commit keeps it,   *)
(* and a rise is only there once the commit would report it.               *)
SeriesTracked ==
  \A c \in DOMAIN checkSamplers :
    LET s == checkSamplers[c] IN
      /\ s.count > 0 => "count" \in DOMAIN s.lastSeenByKey
      /\ s.mono.value > 0 => hasSerie(s.mono) /\ "mono" \in DOMAIN s.lastSeenByKey

(* The sampler remembers the last raw value of the counter, before and     *)
(* after a flush.                                                          *)
Remembers(d, mc) ==
  IF d.lastMono = None
  THEN d.mono = 0 /\ ~mc.sampledSinceLastFlush /\ ~mc.hasPreviousSample
  ELSE IF mc.sampledSinceLastFlush THEN mc.currentSample = d.lastMono
  ELSE mc.hasPreviousSample /\ mc.previousSample = d.lastMono

LastValueKept == \A c \in DOMAIN checkSamplers : Remembers(due[c], checkSamplers[c].mono)

(* So does the bucket, as long as it is plain.                             *)
LastBucketKept ==
  \A c \in DOMAIN checkSamplers :
    isPlain(due[c]) => due[c].lastBucket = IF checkSamplers[c].lastBucketValue = None THEN 0
                                        ELSE checkSamplers[c].lastBucketValue

(* Buckets arrive in the order of their seconds: none is older than the    *)
(* last one a sampler saw, nor are the sketches newer than that one.       *)
BucketsInOrder ==
  /\ \A i \in 1..Len(bucketIn) : bucketIn[i].ts <= now
  /\ \A i, j \in 1..Len(bucketIn) : i <= j => bucketIn[i].ts <= bucketIn[j].ts
  /\ \A c \in DOMAIN checkSamplers :
       LET s == checkSamplers[c] IN
         /\ "bucket" \in DOMAIN s.lastSeenByKey =>
              /\ s.lastSeenByKey["bucket"] <= now
              /\ \A i \in 1..Len(bucketIn) : s.lastSeenByKey["bucket"] <= bucketIn[i].ts
         /\ \A t \in Times : s.sketchMap[t] > 0 =>
              "bucket" \in DOMAIN s.lastSeenByKey /\ t <= s.lastSeenByKey["bucket"]

IInv ==
  /\ SeriesExact /\ BucketsOnce
  /\ UnregisteredClean /\ SeriesTracked /\ LastValueKept
  /\ LastBucketKept /\ BucketsInOrder
=============================================================================
