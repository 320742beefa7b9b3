---------------------------- MODULE ChecksProofs ----------------------------
(***************************************************************************)
(* Proofs about the agent's checks: CheckCollector, which schedules and    *)
(* runs them, and Autodiscovery, which tells which are to run.             *)
(***************************************************************************)
EXTENDS Autodiscovery, CheckCollector, TLAPS

-----------------------------------------------------------------------------
(***************************************************************************)
(* CheckCollector, for any sets of checks, any number of workers and any   *)
(* number of calls.                                                        *)
(***************************************************************************)
\* What the caller is doing, and the check it does it to.
LEMMA CallParts ==
  ASSUME CallTypeOK
  PROVE  /\ call.op \in {"cancel", "stop", "wait", "forget",
                         "ready", "oneTime", "halt", "down"}
         /\ call.op \in {"cancel", "stop", "wait", "forget"} =>
              /\ call.check \in Checks
              /\ \A o \in {"cancel", "stop", "wait", "forget"} :
                   [call EXCEPT !.op = o] = [op |-> o, check |-> call.check]
  BY DEF CallTypeOK

\* Who keeps r.m.
LEMMA MutexParts ==
  ASSUME RunnerTypeOK
  PROVE  /\ m.op \in {"free", "call", "read", "add"}
         /\ m = Free => m.op = "free"
         /\ m.op \in {"read", "add"} => m.check \in Checks
  BY DEF RunnerTypeOK, Free

\* Counting up and down.
LEMMA CountParts ==
  ASSUME NEW S, NEW f \in [S -> Nat], NEW c \in S
  PROVE  /\ Plus(f, c) \in [S -> Nat]
         /\ Plus(f, c)[c] = f[c] + 1 /\ f[c] \in Nat
         /\ f[c] > 0 => Minus(f, c) \in [S -> Nat] /\ Minus(f, c)[c] = f[c] - 1
         /\ \A d \in S : d # c => Plus(f, c)[d] = f[d] /\ Minus(f, c)[d] = f[d]
  BY DEF Plus, Minus

\* The counts, one by one.
LEMMA CountsApart ==
  CountTypeOK => /\ once \in [OneTime -> Nat] /\ idle \in Nat
                 /\ holding \in [Checks -> Nat] /\ running \in [Checks -> Nat]
                 /\ ended \in [Checks -> Nat] /\ publishing \in [Checks -> Nat]
  BY DEF CountTypeOK

\* A collector that was just built.
LEMMA CollectorInitIInv == CollectorInit => CollectorIInv
  <1> SUFFICES ASSUME CollectorInit PROVE CollectorIInv
    OBVIOUS
  <1> USE CollectorAssumption DEF CollectorAssumption, CollectorInit
  <1>1. FlagsTypeOK /\ ~closed
    BY Zenon DEF FlagsTypeOK
  <1>2. CallTypeOK /\ QueueTypeOK
    BY DEF CallTypeOK, QueueTypeOK, Ready
  <1>3. CountTypeOK /\ RunnerTypeOK
    BY DEF CountTypeOK, RunnerTypeOK
  <1>4. RunsCounted /\ StatsOfKnown
    BY DEF RunsCounted, StatsOfKnown
  <1>5. StopOrder /\ StopSound
    BY <1>1 DEF StopOrder, StopSound, Ready, Free
  <1> QED BY <1>1, <1>2, <1>3, <1>4, <1>5 DEF CollectorIInv, CollectorTypeOK

-----------------------------------------------------------------------------
(***************************************************************************)
(* Steps.                                                                  *)
(***************************************************************************)

\* Calls of Schedule, Unschedule and Stop begin.
LEMMA BeginCallIInv ==
  ASSUME CollectorIInv,
         \/ \E c \in Checks : RunCheckRefused(c) \/ StopCheck(c)
         \/ CollectorStop
  PROVE  CollectorIInv'
  <1> USE CollectorAssumption DEF CollectorAssumption
  <1>1. /\ call = Ready /\ loop = "run"
        /\ UNCHANGED <<checks, queueVars, once, mu, runVars>>
        /\ \/ /\ UNCHANGED <<loop, cancelOneTime>>
              /\ calls < MaxCalls /\ calls' = calls + 1
              /\ call' = call \/ \E c \in Checks : call' = [op |-> "cancel", check |-> c]
           \/ loop' = "lock" /\ call' = [op |-> "oneTime"] /\ calls' = calls
    BY DEF RunCheckRefused, StopCheck, CollectorStop, Calls, schedVars,
       CollectorIInv, StopOrder, Ready
  <1>2. CallTypeOK' /\ QueueTypeOK'
    BY <1>1 DEF CollectorIInv, CollectorTypeOK, CallTypeOK, QueueTypeOK,
       queueVars
  <1>3. CountTypeOK' /\ RunnerTypeOK' /\ RunsCounted' /\ StatsOfKnown'
    BY <1>1 DEF CollectorIInv, CollectorTypeOK, CountTypeOK, RunnerTypeOK,
       RunsCounted, StatsOfKnown, runVars, workVars
  <1>4. FlagsTypeOK'
    BY Zenon DEF CollectorIInv, CollectorTypeOK, FlagsTypeOK,
       RunCheckRefused, StopCheck, CollectorStop, schedVars, runVars
  <1>5. StopOrder'
    BY <1>1 DEF CollectorIInv, StopOrder, Ready, queueVars, runVars
  <1>6. StopSound'
    BY <1>1 DEF CollectorIInv, StopSound, Ready, queueVars, runVars
  <1> QED BY <1>2, <1>3, <1>4, <1>5, <1>6 DEF CollectorIInv, CollectorTypeOK

\* A check is scheduled: only while nobody stops the collector.
LEMMA ScheduleIInv ==
  ASSUME CollectorIInv,
         \/ \E c \in Periodic : RunPeriodic(c)
         \/ \E c \in OneTime : RunOneTime(c)
  PROVE  CollectorIInv'
  <1> USE CollectorAssumption DEF CollectorAssumption
  <1>1. /\ call = Ready /\ UNCHANGED <<call, cancelOneTime, loop, mu, closed, m, stats>>
        /\ calls < MaxCalls /\ calls' = calls + 1
        /\ UNCHANGED <<holding, running, ended, publishing, runningChecks, told>>
        /\ \E c \in Checks : checks' = checks \cup {c}
        /\ checkToQueue \subseteq checkToQueue'
        /\ checkToQueue' \ checkToQueue \subseteq checks'
    BY DEF RunPeriodic, RunOneTime, RunOneTimeWith, Calls, runVars, workVars,
       queueVars, Checks
  <1>2. CallTypeOK' /\ RunnerTypeOK'
    BY <1>1 DEF CollectorIInv, CollectorTypeOK, CallTypeOK, RunnerTypeOK
  <1>3. QueueTypeOK'
    BY <1>1 DEF CollectorIInv, CollectorTypeOK, QueueTypeOK, RunPeriodic,
       RunOneTime, RunOneTimeWith, queueVars
  <1>4. CountTypeOK'
    <2>1. once' \in [OneTime -> Nat] /\ idle' \in Nat
      BY CountsApart, CountParts DEF CollectorIInv, CollectorTypeOK,
         RunPeriodic, RunOneTime, RunOneTimeWith, runVars, workVars
    <2> QED BY <1>1, <2>1 DEF CollectorIInv, CollectorTypeOK, CountTypeOK
  <1>5. FlagsTypeOK'
    BY <1>1 DEF CollectorIInv, CollectorTypeOK, FlagsTypeOK
  <1>6. RunsCounted' /\ StatsOfKnown'
    BY <1>1 DEF CollectorIInv, RunsCounted, StatsOfKnown
  <1>7. StopOrder'
    BY <1>1 DEF CollectorIInv, StopOrder, Ready
  <1>8. StopSound'
    BY <1>1 DEF CollectorIInv, StopSound, Ready
  <1> QED BY <1>2, <1>3, <1>4, <1>5, <1>6, <1>7, <1>8 DEF CollectorIInv,
             CollectorTypeOK

\* Unschedule, step by step.
LEMMA UnscheduleIInv ==
  ASSUME CollectorIInv, Cancel \/ RunnerStopCheck \/ StopAnswered \/ Forget
  PROVE  CollectorIInv'
  <1> USE CollectorAssumption DEF CollectorAssumption
  <1>1. /\ call.op \in {"cancel", "stop", "wait", "forget"} /\ call.check \in Checks
        /\ UNCHANGED <<calls, queue, todo, offer, once, cancelOneTime, loop, mu, workVars,
                       runningChecks, closed>>
    BY CallParts DEF CollectorIInv, CollectorTypeOK, Cancel, CancelKeeping,
       RunnerStopCheck, StopAnswered, Forget, runVars, schedVars, queueVars
  <1>2. /\ checks' \subseteq checks /\ jobs' \subseteq jobs /\ checkToQueue' \subseteq checkToQueue
        /\ stats' \subseteq stats /\ told' \subseteq runningChecks
    BY DEF CollectorIInv, CollectorTypeOK, RunnerTypeOK, Cancel,
       CancelKeeping, RunnerStopCheck, StopAnswered, Forget, runVars,
       schedVars, queueVars
  <1>3. /\ call' \in {Ready} \cup [op : {"stop", "wait", "forget"}, check : {call.check}]
        /\ m' \in {m, Free, [op |-> "call"]}
    BY <1>1, CallParts DEF CollectorIInv, CollectorTypeOK, Cancel,
       CancelKeeping, RunnerStopCheck, StopAnswered, Forget, runVars
  <1>4. CallTypeOK' /\ QueueTypeOK' /\ RunnerTypeOK'
    BY <1>1, <1>2, <1>3 DEF CollectorIInv, CollectorTypeOK, CallTypeOK,
       QueueTypeOK, RunnerTypeOK, Ready
  <1>5. CountTypeOK' /\ FlagsTypeOK' /\ RunsCounted'
    BY <1>1 DEF CollectorIInv, CollectorTypeOK, CountTypeOK, FlagsTypeOK,
       RunsCounted, workVars
  <1>6. StopOrder'
    BY <1>1, <1>3 DEF CollectorIInv, StopOrder, Ready
  <1>7. StopSound' /\ StatsOfKnown'
    <2>1. CASE Cancel
      BY <1>1, <2>1, CallParts DEF CollectorIInv, CollectorTypeOK, StopSound,
         StatsOfKnown, Cancel, CancelKeeping, runVars
    <2>2. CASE RunnerStopCheck
      BY <1>1, <2>2, CallParts DEF CollectorIInv, CollectorTypeOK, StopSound,
         StatsOfKnown, RunnerStopCheck, schedVars, queueVars, Free
    <2>3. CASE StopAnswered
      BY <1>1, <2>3, CallParts DEF CollectorIInv, CollectorTypeOK, StopSound,
         StatsOfKnown, StopAnswered, schedVars, queueVars, Free, Ready
    <2>4. CASE Forget
      BY <1>1, <2>4, CallParts DEF CollectorIInv, CollectorTypeOK, StopSound,
         StatsOfKnown, Forget, schedVars, queueVars, Ready
    <2> QED BY <2>1, <2>2, <2>3, <2>4
  <1> QED BY <1>4, <1>5, <1>6, <1>7 DEF CollectorIInv, CollectorTypeOK

\* Stop, step by step: the one-time publishers have ended, the queue has,
\* and then the channel is closed.
LEMMA StopIInv ==
  ASSUME CollectorIInv, WaitOneTime \/ RunnerStop
  PROVE  CollectorIInv'
  <1>1. /\ UNCHANGED <<checks, calls, schedVars, m, workVars, runningChecks, stats>>
        /\ told' \subseteq runningChecks
        /\ \/ /\ call.op = "oneTime" /\ call' = [op |-> "halt"] /\ closed' = closed
              /\ \A c \in OneTime : once[c] = 0
           \/ call.op = "halt" /\ call' = [op |-> "down"] /\ loop = "halted"
    BY DEF WaitOneTime, WaitOneTimeFor, RunnerStop, runVars, CollectorIInv,
       CollectorTypeOK, RunnerTypeOK
  <1>2. CallTypeOK' /\ QueueTypeOK' /\ RunnerTypeOK'
    BY <1>1 DEF CollectorIInv, CollectorTypeOK, CallTypeOK, QueueTypeOK,
       RunnerTypeOK, schedVars, queueVars
  <1>3. CountTypeOK' /\ RunsCounted' /\ StatsOfKnown'
    BY <1>1 DEF CollectorIInv, CollectorTypeOK, CountTypeOK, RunsCounted,
       StatsOfKnown, workVars, schedVars
  <1>4. FlagsTypeOK'
    BY Zenon DEF CollectorIInv, CollectorTypeOK, FlagsTypeOK, WaitOneTime,
       WaitOneTimeFor, RunnerStop, schedVars, runVars
  <1>5. StopOrder'
    BY <1>1 DEF CollectorIInv, StopOrder, schedVars, queueVars
  <1>6. StopSound'
    BY <1>1 DEF CollectorIInv, StopSound, schedVars, queueVars
  <1> QED BY <1>2, <1>3, <1>4, <1>5, <1>6 DEF CollectorIInv, CollectorTypeOK

\* The scheduler's main loop and the queue, which starts nobody.
LEMMA QueueIInv ==
  ASSUME CollectorIInv,
         \/ stopQueues \/ Tick \/ BucketDone \/ StopQueue
         \/ \E c \in Periodic : Look(c)
  PROVE  CollectorIInv'
  <1>1. UNCHANGED <<callVars, jobs, checkToQueue, once, cancelOneTime, runVars>>
    BY DEF stopQueues, Tick, BucketDone, StopQueue, StopQueueIn, Look, queueVars
  <1>2. QueueTypeOK'
    BY DEF CollectorIInv, CollectorTypeOK, QueueTypeOK, stopQueues, Tick,
       BucketDone, StopQueue, StopQueueIn, Look, queueVars
  <1>3. CallTypeOK' /\ RunnerTypeOK' /\ CountTypeOK' /\ FlagsTypeOK'
    BY <1>1 DEF CollectorIInv, CollectorTypeOK, CallTypeOK, RunnerTypeOK,
       CountTypeOK, FlagsTypeOK, callVars, runVars, workVars
  <1>4. RunsCounted' /\ StatsOfKnown' /\ StopSound'
    BY <1>1 DEF CollectorIInv, RunsCounted, StatsOfKnown, StopSound,
       callVars, runVars, workVars
  <1>5. /\ loop = "run" <=> loop' = "run"
        /\ loop = "halted" => loop' = "halted"
        /\ loop' = "halted" => queue' = "off"
    BY DEF CollectorIInv, StopOrder, stopQueues, Tick, BucketDone, StopQueue,
       StopQueueIn, Look, queueVars
  <1>6. StopOrder'
    BY <1>1, <1>5 DEF CollectorIInv, StopOrder, callVars, runVars
  <1> QED BY <1>2, <1>3, <1>4, <1>6 DEF CollectorIInv, CollectorTypeOK

\* A check goes to a worker, or its publisher gives up.
LEMMA SendIInv ==
  ASSUME CollectorIInv,
         \/ \E c \in Periodic : SendPeriodic(c)
         \/ \E c \in OneTime : SendOneTime(c) \/ CancelOneTime(c)
  PROVE  CollectorIInv'
  <1> USE CollectorAssumption DEF CollectorAssumption
  <1>1. /\ UNCHANGED <<callVars, jobs, checkToQueue, todo, cancelOneTime, loop, mu, m,
                       running, ended, publishing, runningChecks, told, stats, closed>>
    BY DEF SendPeriodic, SendOneTime, CancelOneTime, Hand, runVars, workVars,
       queueVars
  <1>2. QueueTypeOK' /\ (loop = "halted" => queue' = "off")
    BY <1>1 DEF CollectorIInv, CollectorTypeOK, QueueTypeOK, StopOrder,
       SendPeriodic, SendOneTime, CancelOneTime, queueVars
  <1>3. once' \in [OneTime -> Nat] /\ ((\A c \in OneTime : once[c] = 0) => once' = once)
    BY CountsApart, CountParts DEF CollectorIInv, CollectorTypeOK,
       SendPeriodic, SendOneTime, CancelOneTime
  <1>4. idle' \in Nat /\ holding' \in [Checks -> Nat]
    <2>1. idle \in Nat /\ holding \in [Checks -> Nat]
      BY CountsApart DEF CollectorIInv, CollectorTypeOK
    <2>2. UNCHANGED <<idle, holding>> \/ \E c \in Checks : Hand(c)
      BY DEF SendPeriodic, SendOneTime, CancelOneTime, Checks, runVars, workVars
    <2>3. ASSUME NEW c \in Checks, Hand(c)
          PROVE  idle' \in Nat /\ holding' \in [Checks -> Nat]
      BY <2>1, <2>3, CountParts DEF Hand
    <2> QED BY <2>1, <2>2, <2>3
  <1>5. CountTypeOK'
    BY <1>1, <1>3, <1>4 DEF CollectorIInv, CollectorTypeOK, CountTypeOK
  <1>6. CallTypeOK' /\ RunnerTypeOK' /\ FlagsTypeOK'
    BY <1>1 DEF CollectorIInv, CollectorTypeOK, CallTypeOK, RunnerTypeOK,
       FlagsTypeOK, callVars
  <1>7. RunsCounted' /\ StatsOfKnown' /\ StopSound'
    BY <1>1 DEF CollectorIInv, RunsCounted, StatsOfKnown, StopSound, callVars
  <1>8. StopOrder'
    BY <1>1, <1>2, <1>3 DEF CollectorIInv, StopOrder, callVars
  <1> QED BY <1>2, <1>5, <1>6, <1>7, <1>8 DEF CollectorIInv, CollectorTypeOK

\* A worker decides on a check, runs it and is done with it, under r.m.
LEMMA RunIInv ==
  ASSUME CollectorIInv, NEW c \in Checks, Skip(c) \/ Begin(c) \/ RunReturns(c) \/ Remove(c)
  PROVE  CollectorIInv'
  <1>1. UNCHANGED <<callVars, schedVars, m, stats, closed>>
    BY DEF Skip, Begin, BeginIf, RunReturns, Remove
  <1>2. CallTypeOK' /\ QueueTypeOK' /\ FlagsTypeOK'
    BY <1>1 DEF CollectorIInv, CollectorTypeOK, CallTypeOK, QueueTypeOK,
       FlagsTypeOK, callVars, schedVars, queueVars
  <1>3. CountTypeOK'
    <2>1. /\ once' \in [OneTime -> Nat] /\ idle' \in Nat
          /\ holding' \in [Checks -> Nat] /\ publishing' \in [Checks -> Nat]
      <3>1. /\ once \in [OneTime -> Nat] /\ idle \in Nat
            /\ holding \in [Checks -> Nat] /\ publishing \in [Checks -> Nat]
        BY CountsApart DEF CollectorIInv, CollectorTypeOK
      <3>2. holding[c] > 0 => Minus(holding, c) \in [Checks -> Nat]
        BY <3>1, CountParts
      <3>3. Plus(publishing, c) \in [Checks -> Nat]
        BY <3>1, CountParts
      <3> QED BY <3>1, <3>2, <3>3 DEF Skip, Begin, BeginIf, RunReturns,
                 Remove, schedVars
    <2>2. running' \in [Checks -> Nat] /\ ended' \in [Checks -> Nat]
      <3>1. running \in [Checks -> Nat] /\ ended \in [Checks -> Nat]
        BY CountsApart DEF CollectorIInv, CollectorTypeOK
      <3>2. /\ Plus(running, c) \in [Checks -> Nat] /\ Plus(ended, c) \in [Checks -> Nat]
            /\ running[c] > 0 => Minus(running, c) \in [Checks -> Nat]
            /\ ended[c] > 0 => Minus(ended, c) \in [Checks -> Nat]
        BY <3>1, CountParts
      <3> QED BY <3>1, <3>2 DEF Skip, Begin, BeginIf, RunReturns, Remove
    <2> QED BY <2>1, <2>2 DEF CountTypeOK
  <1>4. RunnerTypeOK'
    BY <1>1 DEF CollectorIInv, CollectorTypeOK, RunnerTypeOK, Skip, Begin,
       BeginIf, RunReturns, Remove
  <1>5. RunsCounted'
    <2>1. running \in [Checks -> Nat] /\ ended \in [Checks -> Nat]
      BY CountsApart DEF CollectorIInv, CollectorTypeOK
    <2>2. \A d \in Checks : running[d] + ended[d] = IF d \in runningChecks THEN 1 ELSE 0
      BY DEF CollectorIInv, RunsCounted
    <2>3. CASE Skip(c)
      BY <2>2, <2>3 DEF Skip, RunsCounted
    <2>4. CASE Begin(c)
      BY <2>1, <2>2, <2>4 DEF Begin, BeginIf, Plus, RunsCounted
    <2>5. CASE RunReturns(c)
      BY <2>1, <2>2, <2>5 DEF RunReturns, Plus, Minus, RunsCounted
    <2>6. CASE Remove(c)
      BY <2>1, <2>2, <2>6 DEF Remove, Minus, RunsCounted
    <2> QED BY <2>3, <2>4, <2>5, <2>6
  <1>6. StatsOfKnown' /\ StopOrder' /\ StopSound'
    BY <1>1 DEF CollectorIInv, StatsOfKnown, StopOrder, StopSound, callVars,
       schedVars, queueVars
  <1> QED BY <1>2, <1>3, <1>4, <1>5, <1>6 DEF CollectorIInv, CollectorTypeOK

\* A worker publishes statistics: of a check that was on the queue when it
\* looked, and that cannot be forgotten before it is done.
LEMMA StatisticsIInv ==
  ASSUME CollectorIInv, NEW c \in Checks, Statistics(c)
  PROVE  CollectorIInv'
  <1>1. UNCHANGED <<callVars, schedVars, holding, running, ended, runningChecks, told, closed>>
    BY DEF Statistics, Publish, ReadScheduled, addWorkStats, Published, workVars
  <1>2. CallTypeOK' /\ QueueTypeOK' /\ FlagsTypeOK' /\ RunsCounted' /\ StopOrder'
    BY <1>1 DEF CollectorIInv, CollectorTypeOK, CallTypeOK, QueueTypeOK,
       FlagsTypeOK, RunsCounted, StopOrder, callVars, schedVars, queueVars
  <1>3. CountTypeOK'
    <2>1. idle' \in Nat /\ publishing' \in [Checks -> Nat]
      BY CountsApart, CountParts DEF CollectorIInv, CollectorTypeOK,
         Statistics, Publish, ReadScheduled, addWorkStats, Published, workVars
    <2> QED BY <1>1, <2>1 DEF CollectorIInv, CollectorTypeOK, CountTypeOK,
               schedVars
  <1>4. CASE Publish(c)
    <2>1. m = Free /\ m' = [op |-> "read", check |-> c] /\ UNCHANGED stats
      BY <1>4 DEF Publish
    <2>2. RunnerTypeOK' /\ StatsOfKnown'
      BY <1>1, <2>1 DEF CollectorIInv, CollectorTypeOK, RunnerTypeOK,
         StatsOfKnown, callVars
    <2>3. StopSound'
      BY <1>1, <2>1 DEF CollectorIInv, StopSound, Free, callVars, schedVars,
         queueVars
    <2> QED BY <1>2, <1>3, <2>2, <2>3 DEF CollectorIInv, CollectorTypeOK
  <1>5. CASE ReadScheduled(c) \/ addWorkStats(c)
    <2>1. /\ m = [op |-> "read", check |-> c] \/ m = [op |-> "add", check |-> c]
          /\ \/ m' = [op |-> "add", check |-> c] /\ c \in checkToQueue /\ UNCHANGED stats
             \/ m' = Free /\ UNCHANGED stats
             \/ m' = Free /\ stats' = stats \cup {c} /\ m.op = "add" /\ m.check = c
      BY <1>5 DEF ReadScheduled, addWorkStats, Published
    <2>2. m.op = "add" => m.check \in checks \cap Periodic
      BY DEF CollectorIInv, StopSound
    <2>3. RunnerTypeOK' /\ StatsOfKnown'
      BY <1>1, <2>1, <2>2 DEF CollectorIInv, CollectorTypeOK, RunnerTypeOK,
         StatsOfKnown, callVars
    <2>4. call.op # "wait"
      BY <2>1 DEF CollectorIInv, StopSound
    <2>5. StopSound'
      BY <1>1, <2>1, <2>4 DEF CollectorIInv, CollectorTypeOK, QueueTypeOK,
         StopSound, Free, callVars, schedVars, queueVars
    <2> QED BY <1>2, <1>3, <2>3, <2>5 DEF CollectorIInv, CollectorTypeOK
  <1> QED BY <1>4, <1>5 DEF Statistics

-----------------------------------------------------------------------------
(***************************************************************************)
(* The invariant, and what follows from it.                                *)
(***************************************************************************)

\* Every step keeps the invariant.
LEMMA CollectorNextIInv == CollectorIInv /\ [CollectorNext]_collectorVars => CollectorIInv'
  <1> SUFFICES ASSUME CollectorIInv, [CollectorNext]_collectorVars PROVE CollectorIInv'
    OBVIOUS
  <1>1. CASE CollectorStop \/ \E c \in Checks : RunCheckRefused(c) \/ StopCheck(c)
    BY <1>1, BeginCallIInv
  <1>2. CASE (\E c \in Periodic : RunPeriodic(c)) \/ \E c \in OneTime : RunOneTime(c)
    BY <1>2, ScheduleIInv
  <1>3. CASE Caller
    BY <1>3, UnscheduleIInv, StopIInv DEF Caller
  <1>4. CASE stopQueues \/ Queue
    BY <1>4, QueueIInv, SendIInv DEF Queue
  <1>5. CASE \E c \in OneTime : SendOneTime(c) \/ CancelOneTime(c)
    BY <1>5, SendIInv
  <1>6. ASSUME NEW c \in Checks, Work(c) \/ RunReturns(c) PROVE CollectorIInv'
    BY <1>6, RunIInv, StatisticsIInv DEF Work
  <1>7. CASE UNCHANGED collectorVars
    <2> USE <1>7 DEF collectorVars, callVars, schedVars, queueVars, runVars, workVars
    <2>1. CollectorTypeOK'
      BY DEF CollectorIInv, CollectorTypeOK, CallTypeOK, QueueTypeOK,
         CountTypeOK, RunnerTypeOK, FlagsTypeOK
    <2>2. RunsCounted' /\ StatsOfKnown'
      BY DEF CollectorIInv, RunsCounted, StatsOfKnown
    <2>3. StopOrder' /\ StopSound'
      BY DEF CollectorIInv, StopOrder, StopSound
    <2> QED BY <2>1, <2>2, <2>3 DEF CollectorIInv
  <1> QED BY <1>1, <1>2, <1>3, <1>4, <1>5, <1>6, <1>7 DEF CollectorNext

\* The invariant holds in every state.
LEMMA Invariance == CollectorSpec => []CollectorIInv
  BY CollectorInitIInv, CollectorNextIInv, PTL DEF CollectorSpec

\* No check runs twice at a time and statistics are kept of known checks
\* only, whatever is stopped and scheduled again while a worker is about to
\* add them.
THEOREM OneRunAtATime == CollectorSpec => []RunsApart
  <1>1. CollectorIInv => RunsApart
    <2> SUFFICES ASSUME CollectorIInv PROVE OneRun
      BY DEF CollectorIInv, RunsApart
    <2> QED BY DEF CollectorIInv, RunsCounted, OneRun
  <1> QED BY <1>1, Invariance, PTL

\* The pending channel is closed after its last publisher has ended.
THEOREM ClosedLast == CollectorSpec => []NoSendOnClosed
  <1>1. CollectorIInv => NoSendOnClosed
    BY DEF CollectorIInv, StopOrder, NoSendOnClosed
  <1> QED BY <1>1, Invariance, PTL

-----------------------------------------------------------------------------
(***************************************************************************)
(* Collector.Stop: once stuck, for good.                                   *)
(***************************************************************************)

\* s.mu is kept exactly while stopQueues waits for the queue.
MutexKept == loop = "send" <=> mu = "loop"

\* The steps of callers and workers that have nothing to do with the queue.
LEMMA QueueAside ==
  ASSUME \/ \E c \in Checks : RunCheckRefused(c) \/ StopCheck(c)
         \/ \E c \in OneTime : RunOneTime(c) \/ SendOneTime(c) \/ CancelOneTime(c)
         \/ Caller
         \/ \E c \in Checks : Work(c) \/ RunReturns(c)
         \/ UNCHANGED collectorVars
  PROVE  UNCHANGED <<queue, todo, loop, mu>>
  <1> USE DEF callVars, schedVars, queueVars, runVars
  <1>1. ASSUME NEW c \in Checks, RunCheckRefused(c) \/ StopCheck(c)
        PROVE  UNCHANGED <<queue, todo, loop, mu>>
    BY <1>1 DEF RunCheckRefused, StopCheck, Calls
  <1>2. ASSUME NEW c \in OneTime, RunOneTime(c) \/ SendOneTime(c) \/ CancelOneTime(c)
        PROVE  UNCHANGED <<queue, todo, loop, mu>>
    BY <1>2 DEF RunOneTime, RunOneTimeWith, SendOneTime, CancelOneTime, Hand
  <1>3. CASE Caller
    BY <1>3 DEF Caller, Cancel, CancelKeeping, RunnerStopCheck, StopAnswered,
       Forget, WaitOneTime, WaitOneTimeFor, RunnerStop
  <1>4. ASSUME NEW c \in Checks, Work(c) \/ RunReturns(c)
        PROVE  UNCHANGED <<queue, todo, loop, mu>>
    BY <1>4 DEF Work, Skip, Begin, BeginIf, Remove, RunReturns, Statistics,
       Publish, ReadScheduled, addWorkStats, Published
  <1>5. CASE UNCHANGED collectorVars
    BY <1>5 DEF collectorVars
  <1> QED BY <1>1, <1>2, <1>3, <1>4, <1>5

\* Who takes s.mu for longer than a step is the loop that stops the queues.
LEMMA MutexStaysKept ==
  ASSUME MutexKept, [CollectorNext]_collectorVars
  PROVE  MutexKept'
  <1> USE DEF MutexKept
  <1>1. ASSUME UNCHANGED <<queue, todo, loop, mu>> PROVE MutexKept'
    BY <1>1
  <1>2. ASSUME NEW c \in Periodic, RunPeriodic(c) PROVE MutexKept'
    BY <1>2 DEF RunPeriodic
  <1>3. CASE CollectorStop
    BY <1>3 DEF CollectorStop
  <1>4. CASE stopQueues
    BY <1>4 DEF stopQueues
  <1>5. CASE Tick \/ BucketDone \/ StopQueue
    BY <1>5 DEF Tick, BucketDone, StopQueue, StopQueueIn
  <1>6. ASSUME NEW c \in Periodic, Look(c) \/ SendPeriodic(c) PROVE MutexKept'
    BY <1>6 DEF Look, SendPeriodic, Hand
  <1> QED BY <1>1, <1>2, <1>3, <1>4, <1>5, <1>6, QueueAside
          DEF CollectorNext, Queue

\* No step of anybody frees the two: the queue asks for s.mu before it looks
\* at its stop channel again.
LEMMA CollectorStaysStuck ==
  ASSUME MutexKept, CollectorStopStuck, [CollectorNext]_collectorVars
  PROVE  CollectorStopStuck'
  <1> USE DEF CollectorStopStuck
  <1>0. mu = "loop"
    BY DEF MutexKept
  <1>1. ASSUME UNCHANGED <<queue, todo, loop, mu>> PROVE CollectorStopStuck'
    BY <1>1
  <1>2. ASSUME NEW c \in Periodic, RunPeriodic(c) PROVE FALSE
    BY <1>0, <1>2 DEF RunPeriodic
  <1>3. CASE CollectorStop \/ stopQueues
    BY <1>3 DEF CollectorStop, stopQueues
  <1>4. CASE Tick \/ BucketDone \/ StopQueue
    BY <1>4 DEF Tick, BucketDone, StopQueue, StopQueueIn
  <1>5. ASSUME NEW c \in Periodic, Look(c) \/ SendPeriodic(c) PROVE FALSE
    BY <1>0, <1>5 DEF Look, SendPeriodic
  <1> QED BY <1>1, <1>2, <1>3, <1>4, <1>5, QueueAside DEF CollectorNext, Queue

\* When stopQueues has taken the scheduler's mutex while the queue is about
\* to ask IsCheckScheduled, Collector.Stop never returns.
THEOREM CollectorStuckForGood ==
  CollectorSpec => [](CollectorStopStuck => [](call.op # "down"))
  <1>1. CollectorInit => MutexKept
    BY DEF CollectorInit, MutexKept
  <1>2. MutexKept /\ [CollectorNext]_collectorVars => MutexKept'
    BY MutexStaysKept
  <1>3. MutexKept /\ CollectorStopStuck /\ [CollectorNext]_collectorVars
          => CollectorStopStuck'
    BY CollectorStaysStuck
  <1>4. CollectorIInv /\ CollectorStopStuck => call.op # "down"
    BY DEF CollectorIInv, StopOrder, CollectorStopStuck
  <1> QED BY <1>1, <1>2, <1>3, <1>4, Invariance, PTL DEF CollectorSpec

-----------------------------------------------------------------------------
(***************************************************************************)
(* Autodiscovery, for every set of templates, services and tags, every     *)
(* relation of which match, and any number of changes.                     *)
(***************************************************************************)
USE DiscoveryAssumption DEF DiscoveryAssumption

\* The variables that the indexes, the matches and the schedule depend on.
coreVars == <<at, hand, config, templateToConfigs, serviceToConfigs, scheduled,
              failed, templateCache, entityToService, adIDToServices,
              tpl, entities, decrypted, svc, status, templates>>

\* The steps that leave them alone: a poll that only compares, the ticker of
\* the tags, the pod watcher, the retries, most of Stop, and the world.
LEMMA QuietSteps ==
  ASSUME \/ collect \/ checkTagFreshness \/ Listener
         \/ RetryTick \/ initListenerCandidates \/ RetryExit
         \/ Stop \/ StopRetry \/ StopListener \/ World \/ UNCHANGED vars
  PROVE  UNCHANGED coreVars
  <1> USE DEF coreVars, vars, worldVars, storeVars, indexVars, toldVars,
              procVars, pollerVars, listenVars, kubeVars, stopVars
  <1>1. CASE collect
    BY <1>1 DEF collect
  <1>2. CASE checkTagFreshness
    BY <1>2 DEF checkTagFreshness
  <1>3. CASE Listener
    BY <1>3 DEF Listener, PullChanges, Expire
  <1>4. CASE RetryTick \/ initListenerCandidates \/ RetryExit
    BY <1>4 DEF RetryTick, initListenerCandidates, RetryExit
  <1>5. CASE Stop \/ StopRetry \/ StopListener
    BY <1>5 DEF Stop, StopRetry, StopRetryWhen, StopListener
  <1>6. CASE World
    BY <1>6 DEF World, ProviderChanges, PodChanges, TagsChange, Change, WorldRest
  <1>7. CASE UNCHANGED vars
    BY <1>7
  <1> QED BY <1>1, <1>2, <1>3, <1>4, <1>5, <1>6, <1>7

\* A template stays of the kind it is.
LEMMA KindFixed ==
  ASSUME [Next]_vars
  PROVE  kind' = kind
  <1> USE DEF vars, worldVars, Error
  <1>1. ASSUME NEW p \in Procs, Both(p) PROVE kind' = kind
    BY <1>1 DEF Both, Resolve, ResolveError, addConfigForService,
       addConfigForTemplate, AddForTemplate, setTagsHashForService,
       Unschedule, UnscheduleOf, removeLoadedConfig
  <1>2. CASE Poller
    <2>1. Both("poller") => kind' = kind
      BY <1>1 DEF Procs
    <2> QED
      BY <1>2, <2>1
         DEF Poller, collect, getConfigsForTemplate, Set, removeConfigsForTemplate,
             Del, getServiceEntitiesForADID, getServiceForEntity, AllLookedUp,
             decryptConfig, DecryptError, ScheduleTemplate
  <1>3. CASE Listening
    <2>1. Both("listening") => kind' = kind
      BY <1>1 DEF Procs
    <2> QED
      BY <1>3, <2>1
         DEF Listening, Receive, setServiceForEntity, TagService,
             setADIDForServices, Advertise, Get, ResolveNext, ScheduleResolved,
             ScheduleService, removeServiceForEntity, getConfigsForService,
             removeConfigsForService, removeTagsHashForService,
             UnscheduleService, checkTagFreshness, RefreshNext
  <1>4. CASE Listener \/ RetryTick \/ initListenerCandidates \/ RetryExit
    BY <1>4 DEF Listener, PullChanges, Expire, RetryTick,
       initListenerCandidates, RetryExit
  <1>5. CASE Stop \/ Stopping
    BY <1>5 DEF Stop, Stopping, StopListening, StopRetry, StopRetryWhen,
       StopListener
  <1>6. CASE World
    BY <1>6 DEF World, ProviderChanges, PodChanges, TagsChange
  <1>7. CASE UNCHANGED vars
    BY <1>7
  <1> QED BY <1>1, <1>2, <1>3, <1>4, <1>5, <1>6, <1>7 DEF Next

\* What a goroutine resolves is a configuration as it is written.
LEMMA ConfigParts ==
  ASSUME ProcTypeOK, NEW p \in Procs
  PROVE  /\ config[p] \in Configs
         /\ config[p].tpl \in Templates /\ config[p].svc \in Services
         /\ config[p].by = p /\ config[p].text = "written"
  <1>1. PICK t \in Templates, s \in Services : config[p] = Written(t, s, p)
    BY DEF ProcTypeOK
  <1> QED BY <1>1 DEF Written, Configs, Texts

\* A decryption changes nothing of a configuration but its text.
LEMMA Rewritten ==
  ASSUME NEW c \in Configs, NEW text \in Texts
  PROVE  /\ [c EXCEPT !.text = text] \in Configs
         /\ [c EXCEPT !.text = text].tpl = c.tpl
         /\ [c EXCEPT !.text = text].svc = c.svc
         /\ [c EXCEPT !.text = text].by = c.by
         /\ [c EXCEPT !.text = text].text = text
  BY DEF Configs

\* The digests of configurations.
LEMMA DigestTyped ==
  ASSUME NEW c \in Configs
  PROVE  Digest(c) \in Digests
  <1>1. c.tpl \in Templates /\ c.svc \in Services /\ c.text \in Texts
    BY DEF Configs
  <1>2. Alias(c.tpl, c.svc) \in Services \cup {AnyService}
    BY <1>1 DEF Alias
  <1> QED BY <1>1, <1>2 DEF Digest, Digests

\* The digest of what has a text of its own names the service.
LEMMA OwnDigest ==
  ASSUME NEW c, kind[c.tpl].text = "own"
  PROVE  Digest(c).tpl = c.tpl /\ Digest(c).svc = c.svc
  BY DEF Digest, Alias

\* Writing over a configuration, in one set of them.
LEMMA OverSet ==
  ASSUME NEW c \in Configs, NEW text \in Texts, NEW cs \in SUBSET Configs
  PROVE  /\ Over(c, text, cs) \in SUBSET Configs
         /\ \A e : e \in Over(c, text, cs) <=>
                     \/ e \in cs /\ e # c
                     \/ e = [c EXCEPT !.text = text] /\ c \in cs
  <1>1. PICK d \in Configs : d = [c EXCEPT !.text = text]
    BY Rewritten
  <1>2. Over(c, text, cs) = IF c \in cs THEN (cs \ {c}) \cup {d} ELSE cs
    BY <1>1 DEF Over
  <1> HIDE <1>1
  <1>3. Over(c, text, cs) \in SUBSET Configs
    BY <1>2
  <1>4. \A e : e \in Over(c, text, cs) <=> (e \in cs /\ e # c) \/ (e = d /\ c \in cs)
    BY <1>2
  <1> QED BY <1>1, <1>3, <1>4

\* And in the indexes and the hands: it is replaced wherever it is, but for
\* the poller's hand.
LEMMA OverAllSets ==
  ASSUME StoreTypeOK, hand \in [Procs -> SUBSET Configs],
         NEW c \in hand["poller"], NEW text \in Texts, OverAll(c, text)
  PROVE  \E d \in Configs :
           /\ d = [c EXCEPT !.text = text]
           /\ d.tpl = c.tpl /\ d.svc = c.svc /\ d.by = c.by /\ d.text = text
           /\ \A t \in Templates : \A e : e \in templateToConfigs'[t] <=>
                \/ e \in templateToConfigs[t] /\ e # c
                \/ e = d /\ c \in templateToConfigs[t]
           /\ \A s \in Services : \A e : e \in serviceToConfigs'[s] <=>
                \/ e \in serviceToConfigs[s] /\ e # c
                \/ e = d /\ c \in serviceToConfigs[s]
           /\ \A e : e \in hand'["listening"] <=>
                \/ e \in hand["listening"] /\ e # c
                \/ e = d /\ c \in hand["listening"]
           /\ hand'["poller"] = hand["poller"] \ {c}
           /\ templateToConfigs' \in [Templates -> SUBSET Configs]
           /\ serviceToConfigs' \in [Services -> SUBSET Configs]
           /\ hand' \in [Procs -> SUBSET Configs]
  <1>0. c \in Configs
    BY DEF Procs
  <1>1. PICK d \in Configs : d = [c EXCEPT !.text = text]
    BY <1>0, Rewritten
  <1>2. d.tpl = c.tpl /\ d.svc = c.svc /\ d.by = c.by /\ d.text = text
    BY <1>0, <1>1, Rewritten
  <1>3. \A cs \in SUBSET Configs :
          /\ Over(c, text, cs) \in SUBSET Configs
          /\ \A e : e \in Over(c, text, cs) <=>
                      (e \in cs /\ e # c) \/ (e = d /\ c \in cs)
    BY <1>0, <1>1, OverSet
  <1>4. /\ \A t \in Templates : templateToConfigs'[t] = Over(c, text, templateToConfigs[t])
        /\ templateToConfigs' \in [Templates -> SUBSET Configs]
    BY <1>3 DEF OverAll, StoreTypeOK
  <1>5. /\ \A s \in Services : serviceToConfigs'[s] = Over(c, text, serviceToConfigs[s])
        /\ serviceToConfigs' \in [Services -> SUBSET Configs]
    BY <1>3 DEF OverAll, StoreTypeOK
  <1>6. /\ hand'["listening"] = Over(c, text, hand["listening"])
        /\ hand'["poller"] = hand["poller"] \ {c}
        /\ hand' \in [Procs -> SUBSET Configs]
    BY <1>3 DEF OverAll, Procs
  <1>7. /\ \A t \in Templates : templateToConfigs[t] \in SUBSET Configs
        /\ \A s \in Services : serviceToConfigs[s] \in SUBSET Configs
        /\ hand["listening"] \in SUBSET Configs
    BY DEF StoreTypeOK, Procs
  <1> HIDE <1>1
  <1>8. \A t \in Templates : \A e : e \in templateToConfigs'[t] <=>
          (e \in templateToConfigs[t] /\ e # c) \/ (e = d /\ c \in templateToConfigs[t])
    BY <1>3, <1>4, <1>7
  <1>9. \A s \in Services : \A e : e \in serviceToConfigs'[s] <=>
          (e \in serviceToConfigs[s] /\ e # c) \/ (e = d /\ c \in serviceToConfigs[s])
    BY <1>3, <1>5, <1>7
  <1>10. \A e : e \in hand'["listening"] <=>
           (e \in hand["listening"] /\ e # c) \/ (e = d /\ c \in hand["listening"])
    BY <1>3, <1>6, <1>7
  <1> QED BY <1>1, <1>2, <1>4, <1>5, <1>6, <1>8, <1>9, <1>10

\* A decryption, whether it succeeds or not: one configuration leaves the
\* poller's hand for another one that the index by template has, or the
\* store does not know of; all that lasts stays where it is.
DecryptedInto(c, d) ==
  /\ UNCHANGED <<at, config, scheduled, templateCache, entityToService,
                 adIDToServices, tpl, entities, svc, status, templates>>
  /\ at["poller"] = "decrypt"
  /\ c \in Configs /\ c.by = "poller" /\ c.text = "written"
  /\ d.tpl = c.tpl /\ d.svc = c.svc /\ d.by = c.by
  /\ \A t \in Templates : \A e :
       /\ e \in templateToConfigs'[t] =>
            e \in templateToConfigs[t] \/ (e = d /\ c \in templateToConfigs[t])
       /\ e \in templateToConfigs[t] /\ (e # c \/ Lasting(e)) => e \in templateToConfigs'[t]
  /\ \A s \in Services : \A e :
       /\ e \in serviceToConfigs'[s] =>
            e \in serviceToConfigs[s] \/ (e = d /\ c \in serviceToConfigs[s])
       /\ e \in serviceToConfigs[s] /\ (e # c \/ Lasting(e)) => e \in serviceToConfigs'[s]
  /\ \A e :
       /\ e \in hand'["listening"] =>
            \/ e \in hand["listening"] /\ (e # c \/ Lasting(e))
            \/ e = d /\ c \in hand["listening"] /\ ~Lasting(c)
       /\ e \in hand["listening"] /\ (e # c \/ Lasting(e)) => e \in hand'["listening"]
       /\ c \in hand["listening"] => c \in hand'["listening"] \/ d \in hand'["listening"]
  /\ hand'["poller"] = hand["poller"] \ {c}

\* What the two actions do, in these words.
LEMMA Decryption ==
  ASSUME StoreTypeOK, ProcTypeOK, LocalsTypeOK, ResolvedIndexed,
         NEW c \in hand["poller"], decryptConfig(c) \/ DecryptError(c)
  PROVE  \E d \in Configs :
           /\ DecryptedInto(c, d)
           /\ templateToConfigs' \in [Templates -> SUBSET Configs]
           /\ serviceToConfigs' \in [Services -> SUBSET Configs]
           /\ hand' \in [Procs -> SUBSET Configs]
           /\ \/ /\ decrypted' = decrypted \cup {d} /\ failed' = failed
                 /\ Unknown(d) \/ (d \in templateToConfigs'[d.tpl] /\ Lasting(d))
              \/ decrypted' = decrypted /\ failed' = failed \cup {Pair(c)}
  <1>1. at \in [Procs -> Points] /\ hand \in [Procs -> SUBSET Configs]
    BY DEF ProcTypeOK
  <1>2. at["poller"] = "decrypt" /\ at' = at
    BY <1>1 DEF decryptConfig, DecryptError, Go, Procs
  <1>3. UNCHANGED <<config, scheduled, templateCache, entityToService,
                    adIDToServices, tpl, entities, svc, status, templates>>
    BY DEF decryptConfig, DecryptError, toldVars, pollerVars, listenVars
  <1>4. /\ c \in Configs /\ c.tpl \in Templates
        /\ c.by = "poller" /\ c.text = "written" /\ c \in templateToConfigs[c.tpl]
    BY <1>1, <1>2 DEF ResolvedIndexed, Dropping, Procs, Configs
  <1>5. templateToConfigs \in [Templates -> SUBSET Configs] /\ serviceToConfigs \in [Services -> SUBSET Configs]
    BY DEF StoreTypeOK
  <1>6. ASSUME NEW text \in {"decrypted", "broken"}, OverAll(c, text), kind[c.tpl].secret = "instances"
        PROVE  \E d \in Configs :
                 /\ d = [c EXCEPT !.text = text] /\ DecryptedInto(c, d)
                 /\ templateToConfigs' \in [Templates -> SUBSET Configs]
                 /\ serviceToConfigs' \in [Services -> SUBSET Configs]
                 /\ hand' \in [Procs -> SUBSET Configs]
                 /\ d \in templateToConfigs'[d.tpl] /\ Lasting(d)
    <2>1. PICK d \in Configs :
            /\ d = [c EXCEPT !.text = text]
            /\ d.tpl = c.tpl /\ d.svc = c.svc /\ d.by = c.by /\ d.text = text
            /\ \A t \in Templates : \A e : e \in templateToConfigs'[t] <=>
                 \/ e \in templateToConfigs[t] /\ e # c
                 \/ e = d /\ c \in templateToConfigs[t]
            /\ \A s \in Services : \A e : e \in serviceToConfigs'[s] <=>
                 \/ e \in serviceToConfigs[s] /\ e # c
                 \/ e = d /\ c \in serviceToConfigs[s]
            /\ \A e : e \in hand'["listening"] <=>
                 \/ e \in hand["listening"] /\ e # c
                 \/ e = d /\ c \in hand["listening"]
            /\ hand'["poller"] = hand["poller"] \ {c}
            /\ templateToConfigs' \in [Templates -> SUBSET Configs]
            /\ serviceToConfigs' \in [Services -> SUBSET Configs]
            /\ hand' \in [Procs -> SUBSET Configs]
      BY <1>1, <1>6, OverAllSets DEF Texts
    <2>2. ~Lasting(c) /\ Lasting(d)
      BY <1>4, <1>6, <2>1 DEF Lasting
    <2>3. DecryptedInto(c, d)
      BY <1>2, <1>3, <1>4, <2>1, <2>2 DEF DecryptedInto
    <2> QED BY <1>4, <2>1, <2>2, <2>3
  <1>7. ASSUME OverOne(c), kind[c.tpl].secret # "instances",
               NEW d \in Configs, d.tpl = c.tpl, d.svc = c.svc, d.by = c.by
        PROVE  /\ DecryptedInto(c, d)
               /\ templateToConfigs' \in [Templates -> SUBSET Configs]
               /\ serviceToConfigs' \in [Services -> SUBSET Configs]
               /\ hand' \in [Procs -> SUBSET Configs]
    <2>1. Lasting(c)
      BY <1>7 DEF Lasting
    <2>2. /\ hand'["poller"] = hand["poller"] \ {c} /\ hand'["listening"] = hand["listening"]
          /\ hand' \in [Procs -> SUBSET Configs]
          /\ UNCHANGED <<templateToConfigs, serviceToConfigs>>
      BY <1>1, <1>7 DEF OverOne, Procs
    <2> QED BY <1>2, <1>3, <1>4, <1>5, <1>7, <2>1, <2>2 DEF DecryptedInto
  <1>8. PICK e \in Configs :
          /\ e = [c EXCEPT !.text = "decrypted"] /\ e.tpl = c.tpl
          /\ e.svc = c.svc /\ e.by = c.by /\ e.text = "decrypted"
    BY <1>4, Rewritten DEF Texts
  <1>9. CASE decryptConfig(c) /\ kind[c.tpl].secret = "none"
    <2>1. OverOne(c) /\ decrypted' = decrypted \cup {c} /\ failed' = failed
      BY <1>9 DEF decryptConfig, toldVars
    <2>2. Lasting(c) /\ c \in templateToConfigs'[c.tpl]
      BY <1>4, <1>9, <2>1 DEF Lasting, OverOne
    <2> QED BY <1>4, <1>7, <1>9, <2>1, <2>2
  <1>10. CASE decryptConfig(c) /\ kind[c.tpl].secret = "init"
    <2>1. OverOne(c) /\ decrypted' = decrypted \cup {e} /\ failed' = failed
      BY <1>8, <1>10 DEF decryptConfig, toldVars
    <2>2. Unknown(e)
      BY <1>8, <1>10 DEF Unknown
    <2> QED BY <1>7, <1>8, <1>10, <2>1, <2>2
  <1>11. CASE decryptConfig(c) /\ kind[c.tpl].secret = "instances"
    <2>1. OverAll(c, "decrypted") /\ decrypted' = decrypted \cup {e} /\ failed' = failed
      BY <1>8, <1>11 DEF decryptConfig, toldVars
    <2> QED BY <1>6, <1>8, <1>11, <2>1
  <1>12. CASE DecryptError(c)
    <2>1. decrypted' = decrypted /\ failed' = failed \cup {Pair(c)}
      BY <1>12 DEF DecryptError, pollerVars
    <2>2. CASE kind[c.tpl].secret = "instances"
      BY <1>6, <1>12, <2>1, <2>2 DEF DecryptError
    <2>3. CASE kind[c.tpl].secret # "instances"
      BY <1>4, <1>7, <1>12, <2>1, <2>3 DEF DecryptError
    <2> QED BY <2>2, <2>3
  <1> QED BY <1>9, <1>10, <1>11, <1>12 DEF decryptConfig

\* Who adds to an index adds under the name, and what is taken from an index
\* is of its name.
LEMMA NamesStayRight ==
  ASSUME IInv, [Next]_vars
  PROVE  NamesRight'
  <1>0. StoreTypeOK /\ ProcTypeOK /\ LocalsTypeOK /\ ResolvedIndexed /\ NamesRight /\ kind' = kind
    BY KindFixed DEF IInv, TypeOK
  <1> USE <1>0 DEF Go, Procs, worldVars, storeVars, indexVars, toldVars,
              procVars, pollerVars, listenVars, kubeVars, stopVars, StoreTypeOK, ProcTypeOK, LocalsTypeOK,
              NamesRight, Dropping, Resolving
  <1>1. ASSUME NEW p \in Procs, Resolve(p) PROVE NamesRight'
    BY <1>1 DEF Resolve
  <1>2. ASSUME NEW p \in Procs, addConfigForService(p) PROVE NamesRight'
    BY <1>2 DEF addConfigForService
  <1>3. ASSUME NEW p \in Procs, addConfigForTemplate(p) PROVE NamesRight'
    BY <1>3 DEF addConfigForTemplate, AddForTemplate
  <1>4. ASSUME NEW p \in Procs, setTagsHashForService(p) PROVE NamesRight'
    BY <1>4 DEF setTagsHashForService
  <1>5. ASSUME NEW p \in Procs, Unschedule(p) PROVE NamesRight'
    BY <1>5 DEF Unschedule, UnscheduleOf
  <1>6. ASSUME NEW p \in Procs, removeLoadedConfig(p) PROVE NamesRight'
    BY <1>6 DEF removeLoadedConfig
  <1>7. ASSUME NEW t \in Templates, getConfigsForTemplate(t) PROVE NamesRight'
    BY <1>7 DEF getConfigsForTemplate
  <1>8. ASSUME removeConfigsForTemplate PROVE NamesRight'
    BY <1>8 DEF removeConfigsForTemplate
  <1>9. ASSUME Del PROVE NamesRight'
    BY <1>9 DEF Del
  <1>10. ASSUME NEW t \in Templates, Set(t) PROVE NamesRight'
    BY <1>10 DEF Set
  <1>11. ASSUME getServiceEntitiesForADID PROVE NamesRight'
    BY <1>11 DEF getServiceEntitiesForADID
  <1>12. ASSUME NEW s \in Services, getServiceForEntity(s) PROVE NamesRight'
    BY <1>12 DEF getServiceForEntity, Written
  <1>13. ASSUME ScheduleTemplate PROVE NamesRight'
    BY <1>13 DEF ScheduleTemplate
  <1>14. ASSUME Receive("new", "register") PROVE NamesRight'
    BY <1>14 DEF Receive
  <1>15. ASSUME Receive("del", "unregister") PROVE NamesRight'
    BY <1>15 DEF Receive
  <1>16. ASSUME setServiceForEntity PROVE NamesRight'
    BY <1>16 DEF setServiceForEntity
  <1>17. ASSUME TagService PROVE NamesRight'
    BY <1>17 DEF TagService
  <1>18. ASSUME setADIDForServices PROVE NamesRight'
    BY <1>18 DEF setADIDForServices, Advertise
  <1>19. ASSUME Get PROVE NamesRight'
    BY <1>19 DEF Get
  <1>20. ASSUME NEW t \in Templates, ResolveNext(t) PROVE NamesRight'
    BY <1>20 DEF ResolveNext, Written
  <1>21. ASSUME ScheduleResolved PROVE NamesRight'
    BY <1>21 DEF ScheduleResolved
  <1>22. ASSUME ScheduleService PROVE NamesRight'
    BY <1>22 DEF ScheduleService
  <1>23. ASSUME removeServiceForEntity PROVE NamesRight'
    BY <1>23 DEF removeServiceForEntity
  <1>24. ASSUME getConfigsForService PROVE NamesRight'
    BY <1>24 DEF getConfigsForService
  <1>25. ASSUME removeConfigsForService PROVE NamesRight'
    BY <1>25 DEF removeConfigsForService
  <1>26. ASSUME removeTagsHashForService PROVE NamesRight'
    BY <1>26 DEF removeTagsHashForService
  <1>27. ASSUME UnscheduleService PROVE NamesRight'
    BY <1>27 DEF UnscheduleService
  <1>28. ASSUME NEW s \in Services, RefreshNext(s) PROVE NamesRight'
    BY <1>28 DEF RefreshNext
  <1>29. ASSUME StopListening PROVE NamesRight'
    BY <1>29 DEF StopListening
  <1>30. ASSUME UNCHANGED coreVars PROVE NamesRight'
    BY <1>30 DEF coreVars
  <1>31. ASSUME NEW p \in Procs, ResolveError(p) PROVE NamesRight'
    BY <1>31 DEF ResolveError, Error, Onwards
  <1>32. ASSUME AllLookedUp PROVE NamesRight'
    BY <1>32 DEF AllLookedUp
  <1>33. ASSUME NEW c \in hand["poller"], decryptConfig(c) \/ DecryptError(c)
         PROVE  NamesRight'
    <2>1. PICK d \in Configs :
            /\ DecryptedInto(c, d)
            /\ templateToConfigs' \in [Templates -> SUBSET Configs]
            /\ serviceToConfigs' \in [Services -> SUBSET Configs]
            /\ hand' \in [Procs -> SUBSET Configs]
            /\ \/ /\ decrypted' = decrypted \cup {d} /\ failed' = failed
                  /\ Unknown(d) \/ (d \in templateToConfigs'[d.tpl] /\ Lasting(d))
               \/ decrypted' = decrypted /\ failed' = failed \cup {Pair(c)}
      BY <1>0, <1>33, Decryption
    <2> QED BY <2>1 DEF DecryptedInto
  <1> QED
    BY <1>1, <1>2, <1>3, <1>4, <1>5, <1>6, <1>7, <1>8, <1>9, <1>10, <1>11,
       <1>12, <1>13, <1>14, <1>15, <1>16, <1>17, <1>18, <1>19, <1>20, <1>21,
       <1>22, <1>23, <1>24, <1>25, <1>26, <1>27, <1>28, <1>29, <1>30,
       <1>31, <1>32, <1>33,
       QuietSteps
       DEF Next, Poller, Listening, Both, Stopping

\* Only the poller drops from the index by template, only serviceListening
\* from that by service, and neither while it resolves.
LEMMA ResolvedStaysIndexed ==
  ASSUME IInv, [Next]_vars
  PROVE  ResolvedIndexed'
  <1>0. StoreTypeOK /\ ProcTypeOK /\ LocalsTypeOK /\ NamesRight /\ ResolvedIndexed /\ kind' = kind
    BY KindFixed DEF IInv, TypeOK
  <1>00. /\ at \in [Procs -> Points] /\ hand \in [Procs -> SUBSET Configs]
        /\ \A p \in Procs : /\ config[p] \in Configs
                            /\ config[p].tpl \in Templates /\ config[p].svc \in Services
                            /\ config[p].by = p /\ config[p].text = "written"
    BY <1>0, ConfigParts DEF ProcTypeOK
  <1> USE <1>0, <1>00 DEF Go, Procs, worldVars, storeVars, indexVars, toldVars,
              procVars, pollerVars, listenVars, kubeVars, stopVars, StoreTypeOK,  LocalsTypeOK,
              NamesRight, ResolvedIndexed, Unknown, Lasting, Dropping, Resolving
  <1>1. ASSUME NEW p \in Procs, Resolve(p) PROVE ResolvedIndexed'
    BY <1>1 DEF Resolve
  <1>2. ASSUME NEW p \in Procs, addConfigForService(p) PROVE ResolvedIndexed'
    BY <1>2 DEF addConfigForService
  <1>3. ASSUME NEW p \in Procs, addConfigForTemplate(p) PROVE ResolvedIndexed'
    BY <1>3 DEF addConfigForTemplate, AddForTemplate
  <1>4. ASSUME NEW p \in Procs, setTagsHashForService(p) PROVE ResolvedIndexed'
    BY <1>4 DEF setTagsHashForService
  <1>5. ASSUME NEW p \in Procs, Unschedule(p) PROVE ResolvedIndexed'
    BY <1>5 DEF Unschedule, UnscheduleOf
  <1>6. ASSUME NEW p \in Procs, removeLoadedConfig(p) PROVE ResolvedIndexed'
    BY <1>6 DEF removeLoadedConfig
  <1>7. ASSUME NEW t \in Templates, getConfigsForTemplate(t) PROVE ResolvedIndexed'
    BY <1>7 DEF getConfigsForTemplate
  <1>8. ASSUME removeConfigsForTemplate PROVE ResolvedIndexed'
    BY <1>8 DEF removeConfigsForTemplate
  <1>9. ASSUME Del PROVE ResolvedIndexed'
    BY <1>9 DEF Del
  <1>10. ASSUME NEW t \in Templates, Set(t) PROVE ResolvedIndexed'
    BY <1>10 DEF Set
  <1>11. ASSUME getServiceEntitiesForADID PROVE ResolvedIndexed'
    BY <1>11 DEF getServiceEntitiesForADID
  <1>12. ASSUME NEW s \in Services, getServiceForEntity(s) PROVE ResolvedIndexed'
    BY <1>12 DEF getServiceForEntity
  <1>13. ASSUME ScheduleTemplate PROVE ResolvedIndexed'
    BY <1>13 DEF ScheduleTemplate
  <1>14. ASSUME Receive("new", "register") PROVE ResolvedIndexed'
    BY <1>14 DEF Receive
  <1>15. ASSUME Receive("del", "unregister") PROVE ResolvedIndexed'
    BY <1>15 DEF Receive
  <1>16. ASSUME setServiceForEntity PROVE ResolvedIndexed'
    BY <1>16 DEF setServiceForEntity
  <1>17. ASSUME TagService PROVE ResolvedIndexed'
    BY <1>17 DEF TagService
  <1>18. ASSUME setADIDForServices PROVE ResolvedIndexed'
    BY <1>18 DEF setADIDForServices, Advertise
  <1>19. ASSUME Get PROVE ResolvedIndexed'
    BY <1>19 DEF Get
  <1>20. ASSUME NEW t \in Templates, ResolveNext(t) PROVE ResolvedIndexed'
    BY <1>20 DEF ResolveNext
  <1>21. ASSUME ScheduleResolved PROVE ResolvedIndexed'
    BY <1>21 DEF ScheduleResolved
  <1>22. ASSUME ScheduleService PROVE ResolvedIndexed'
    BY <1>22 DEF ScheduleService
  <1>23. ASSUME removeServiceForEntity PROVE ResolvedIndexed'
    BY <1>23 DEF removeServiceForEntity
  <1>24. ASSUME getConfigsForService PROVE ResolvedIndexed'
    BY <1>24 DEF getConfigsForService
  <1>25. ASSUME removeConfigsForService PROVE ResolvedIndexed'
    BY <1>25 DEF removeConfigsForService
  <1>26. ASSUME removeTagsHashForService PROVE ResolvedIndexed'
    BY <1>26 DEF removeTagsHashForService
  <1>27. ASSUME UnscheduleService PROVE ResolvedIndexed'
    BY <1>27 DEF UnscheduleService
  <1>28. ASSUME NEW s \in Services, RefreshNext(s) PROVE ResolvedIndexed'
    BY <1>28 DEF RefreshNext
  <1>29. ASSUME StopListening PROVE ResolvedIndexed'
    BY <1>29 DEF StopListening
  <1>30. ASSUME UNCHANGED coreVars PROVE ResolvedIndexed'
    BY <1>30 DEF coreVars
  <1>31. ASSUME NEW p \in Procs, ResolveError(p) PROVE ResolvedIndexed'
    BY <1>31 DEF ResolveError, Error, Onwards
  <1>32. ASSUME AllLookedUp PROVE ResolvedIndexed'
    BY <1>32 DEF AllLookedUp
  <1>33. ASSUME NEW c \in hand["poller"], decryptConfig(c) \/ DecryptError(c)
         PROVE  ResolvedIndexed'
    <2>1. PICK d \in Configs :
            /\ DecryptedInto(c, d)
            /\ templateToConfigs' \in [Templates -> SUBSET Configs]
            /\ serviceToConfigs' \in [Services -> SUBSET Configs]
            /\ hand' \in [Procs -> SUBSET Configs]
            /\ \/ /\ decrypted' = decrypted \cup {d} /\ failed' = failed
                  /\ Unknown(d) \/ (d \in templateToConfigs'[d.tpl] /\ Lasting(d))
               \/ decrypted' = decrypted /\ failed' = failed \cup {Pair(c)}
      BY <1>0, <1>33, Decryption
    <2> HIDE DEF Lasting, Unknown
    <2>2. ASSUME NEW e PROVE /\ Lasting(e)' <=> Lasting(e)
                             /\ Unknown(e)' <=> Unknown(e)
      BY DEF Lasting, Unknown
    <2>3. at' = at /\ at["poller"] = "decrypt" /\ config' = config /\ svc' = svc
      BY <2>1 DEF DecryptedInto
    <2>4. \A e \in hand'["poller"] : /\ e \in templateToConfigs'[e.tpl]
                                     /\ e.by = "poller" /\ e.text = "written"
      <3>1. \A e \in hand["poller"] : /\ e.tpl \in Templates /\ e \in templateToConfigs[e.tpl]
                                      /\ e.by = "poller" /\ e.text = "written"
        BY <2>3 DEF Configs
      <3> QED BY <2>1, <3>1 DEF DecryptedInto
    <2>5. \A e \in decrypted' : Unknown(e) \/ (e \in templateToConfigs'[e.tpl] /\ Lasting(e))
      <3>1. \A e \in decrypted : e.tpl \in Templates
        BY DEF Configs
      <3> QED BY <2>1, <3>1 DEF DecryptedInto
    <2>6. at["listening"] \notin Dropping =>
            \A e \in hand'["listening"] : e \in serviceToConfigs'[e.svc] /\ Lasting(e)
      <3>1. \A e \in hand["listening"] : e.svc \in Services
        BY DEF Configs
      <3> QED BY <2>1, <3>1 DEF DecryptedInto
    <2>7. at["listening"] \in {"template", "hash"} =>
            config["listening"] \in serviceToConfigs'[config["listening"].svc]
      <3>1. config["listening"] # c
        BY <2>1 DEF DecryptedInto
      <3> QED BY <2>1, <3>1 DEF DecryptedInto
    <2> QED BY <2>2, <2>3, <2>4, <2>5, <2>6, <2>7
  <1> QED
    BY <1>1, <1>2, <1>3, <1>4, <1>5, <1>6, <1>7, <1>8, <1>9, <1>10, <1>11,
       <1>12, <1>13, <1>14, <1>15, <1>16, <1>17, <1>18, <1>19, <1>20, <1>21,
       <1>22, <1>23, <1>24, <1>25, <1>26, <1>27, <1>28, <1>29, <1>30,
       <1>31, <1>32, <1>33,
       QuietSteps
       DEF Next, Poller, Listening, Both, Stopping

\* Nothing that is scheduled gets out of reach: an index that is about to be
\* dropped was taken in hand, and what is added after that is in the other.
LEMMA StaysWithinReach ==
  ASSUME IInv, [Next]_vars
  PROVE  WithinReach'
  <1>0. StoreTypeOK /\ ProcTypeOK /\ LocalsTypeOK /\ NamesRight /\ ResolvedIndexed /\ WithinReach /\ kind' = kind
    BY KindFixed DEF IInv, TypeOK
  <1>00. /\ at \in [Procs -> Points] /\ hand \in [Procs -> SUBSET Configs]
        /\ \A p \in Procs : /\ config[p] \in Configs
                            /\ config[p].tpl \in Templates /\ config[p].svc \in Services
                            /\ config[p].by = p /\ config[p].text = "written"
    BY <1>0, ConfigParts DEF ProcTypeOK
  <1> USE <1>0, <1>00 DEF Go, Procs, worldVars, storeVars, indexVars, toldVars,
              procVars, pollerVars, listenVars, kubeVars, stopVars, StoreTypeOK,  LocalsTypeOK,
              NamesRight, ResolvedIndexed, Unknown, Lasting, Digest, Digested, Alias,
              Reached, Dropping, Resolving,
              WithinReach, InHand, ByTemplate, ByService
  <1>1. ASSUME NEW p \in Procs, Resolve(p) PROVE WithinReach'
    BY <1>1 DEF Resolve
  <1>2. ASSUME NEW p \in Procs, addConfigForService(p) PROVE WithinReach'
    BY <1>2 DEF addConfigForService
  <1>3. ASSUME NEW p \in Procs, addConfigForTemplate(p) PROVE WithinReach'
    BY <1>3 DEF addConfigForTemplate, AddForTemplate
  <1>4. ASSUME NEW p \in Procs, setTagsHashForService(p) PROVE WithinReach'
    BY <1>4 DEF setTagsHashForService
  <1>5. ASSUME NEW p \in Procs, Unschedule(p) PROVE WithinReach'
    BY <1>5 DEF Unschedule, UnscheduleOf
  <1>6. ASSUME NEW p \in Procs, removeLoadedConfig(p) PROVE WithinReach'
    BY <1>6 DEF removeLoadedConfig
  <1>7. ASSUME NEW t \in Templates, getConfigsForTemplate(t) PROVE WithinReach'
    BY <1>7 DEF getConfigsForTemplate
  <1>8. ASSUME removeConfigsForTemplate PROVE WithinReach'
    BY <1>8 DEF removeConfigsForTemplate
  <1>9. ASSUME Del PROVE WithinReach'
    BY <1>9 DEF Del
  <1>10. ASSUME NEW t \in Templates, Set(t) PROVE WithinReach'
    BY <1>10 DEF Set
  <1>11. ASSUME getServiceEntitiesForADID PROVE WithinReach'
    BY <1>11 DEF getServiceEntitiesForADID
  <1>12. ASSUME NEW s \in Services, getServiceForEntity(s) PROVE WithinReach'
    BY <1>12 DEF getServiceForEntity
  <1>13. ASSUME ScheduleTemplate PROVE WithinReach'
    BY <1>13 DEF ScheduleTemplate
  <1>14. ASSUME Receive("new", "register") PROVE WithinReach'
    BY <1>14 DEF Receive
  <1>15. ASSUME Receive("del", "unregister") PROVE WithinReach'
    BY <1>15 DEF Receive
  <1>16. ASSUME setServiceForEntity PROVE WithinReach'
    BY <1>16 DEF setServiceForEntity
  <1>17. ASSUME TagService PROVE WithinReach'
    BY <1>17 DEF TagService
  <1>18. ASSUME setADIDForServices PROVE WithinReach'
    BY <1>18 DEF setADIDForServices, Advertise
  <1>19. ASSUME Get PROVE WithinReach'
    BY <1>19 DEF Get
  <1>20. ASSUME NEW t \in Templates, ResolveNext(t) PROVE WithinReach'
    BY <1>20 DEF ResolveNext
  <1>21. ASSUME ScheduleResolved PROVE WithinReach'
    BY <1>21 DEF ScheduleResolved
  <1>22. ASSUME ScheduleService PROVE WithinReach'
    BY <1>22 DEF ScheduleService
  <1>23. ASSUME removeServiceForEntity PROVE WithinReach'
    BY <1>23 DEF removeServiceForEntity
  <1>24. ASSUME getConfigsForService PROVE WithinReach'
    BY <1>24 DEF getConfigsForService
  <1>25. ASSUME removeConfigsForService PROVE WithinReach'
    BY <1>25 DEF removeConfigsForService
  <1>26. ASSUME removeTagsHashForService PROVE WithinReach'
    BY <1>26 DEF removeTagsHashForService
  <1>27. ASSUME UnscheduleService PROVE WithinReach'
    BY <1>27 DEF UnscheduleService
  <1>28. ASSUME NEW s \in Services, RefreshNext(s) PROVE WithinReach'
    BY <1>28 DEF RefreshNext
  <1>29. ASSUME StopListening PROVE WithinReach'
    BY <1>29 DEF StopListening
  <1>30. ASSUME UNCHANGED coreVars PROVE WithinReach'
    BY <1>30 DEF coreVars
  <1>31. ASSUME NEW p \in Procs, ResolveError(p) PROVE WithinReach'
    BY <1>31 DEF ResolveError, Error, Onwards
  <1>32. ASSUME AllLookedUp PROVE WithinReach'
    BY <1>32 DEF AllLookedUp
  <1>33. ASSUME NEW c \in hand["poller"], decryptConfig(c) \/ DecryptError(c)
         PROVE  WithinReach'
    <2>1. PICK d \in Configs :
            /\ DecryptedInto(c, d)
            /\ templateToConfigs' \in [Templates -> SUBSET Configs]
            /\ serviceToConfigs' \in [Services -> SUBSET Configs]
            /\ hand' \in [Procs -> SUBSET Configs]
            /\ \/ /\ decrypted' = decrypted \cup {d} /\ failed' = failed
                  /\ Unknown(d) \/ (d \in templateToConfigs'[d.tpl] /\ Lasting(d))
               \/ decrypted' = decrypted /\ failed' = failed \cup {Pair(c)}
      BY <1>0, <1>33, Decryption
    <2>2. /\ at' = at /\ at["poller"] = "decrypt" /\ scheduled' = scheduled
          /\ svc' = svc /\ tpl' = tpl
      BY <2>1 DEF DecryptedInto
    <2>3. ASSUME NEW e \in Configs, Lasting(e), Reached(e) PROVE Reached(e)'
      <3>1. e.tpl \in Templates /\ e.svc \in Services
        BY DEF Configs
      <3>2. /\ e \in templateToConfigs[e.tpl] => e \in templateToConfigs'[e.tpl]
            /\ e \in serviceToConfigs[e.svc] => e \in serviceToConfigs'[e.svc]
            /\ e \in hand["listening"] => e \in hand'["listening"]
        BY <2>1, <2>3, <3>1 DEF DecryptedInto
      <3> QED BY <2>2, <2>3, <3>2
    <2>4. ASSUME NEW e PROVE /\ Digest(e)' = Digest(e) /\ Lasting(e)' <=> Lasting(e)
                             /\ Unknown(e)' <=> Unknown(e)
      OBVIOUS
    <2> HIDE DEF Lasting, Unknown, Digest, Reached
    <2> QED BY <2>2, <2>3, <2>4
  <1> QED
    BY <1>1, <1>2, <1>3, <1>4, <1>5, <1>6, <1>7, <1>8, <1>9, <1>10, <1>11,
       <1>12, <1>13, <1>14, <1>15, <1>16, <1>17, <1>18, <1>19, <1>20, <1>21,
       <1>22, <1>23, <1>24, <1>25, <1>26, <1>27, <1>28, <1>29, <1>30,
       <1>31, <1>32, <1>33,
       QuietSteps
       DEF Next, Poller, Listening, Both, Stopping

\* Only serviceListening registers, advertises and removes services.
LEMMA ServiceStaysStored ==
  ASSUME IInv, [Next]_vars
  PROVE  ServiceStored'
  <1>0. StoreTypeOK /\ ProcTypeOK /\ LocalsTypeOK /\ ServiceStored /\ kind' = kind
    BY KindFixed DEF IInv, TypeOK
  <1> USE <1>0 DEF Go, Procs, worldVars, storeVars, indexVars, toldVars,
              procVars, pollerVars, listenVars, kubeVars, stopVars, StoreTypeOK, ProcTypeOK, LocalsTypeOK,
              ServiceStored, Dropping, Resolving, Pods
  <1>1. ASSUME NEW p \in Procs, Resolve(p) PROVE ServiceStored'
    BY <1>1 DEF Resolve
  <1>2. ASSUME NEW p \in Procs, addConfigForService(p) PROVE ServiceStored'
    BY <1>2 DEF addConfigForService
  <1>3. ASSUME NEW p \in Procs, addConfigForTemplate(p) PROVE ServiceStored'
    BY <1>3 DEF addConfigForTemplate, AddForTemplate
  <1>4. ASSUME NEW p \in Procs, setTagsHashForService(p) PROVE ServiceStored'
    BY <1>4 DEF setTagsHashForService
  <1>5. ASSUME NEW p \in Procs, Unschedule(p) PROVE ServiceStored'
    BY <1>5 DEF Unschedule, UnscheduleOf
  <1>6. ASSUME NEW p \in Procs, removeLoadedConfig(p) PROVE ServiceStored'
    BY <1>6 DEF removeLoadedConfig
  <1>7. ASSUME NEW t \in Templates, getConfigsForTemplate(t) PROVE ServiceStored'
    BY <1>7 DEF getConfigsForTemplate
  <1>8. ASSUME removeConfigsForTemplate PROVE ServiceStored'
    BY <1>8 DEF removeConfigsForTemplate
  <1>9. ASSUME Del PROVE ServiceStored'
    BY <1>9 DEF Del
  <1>10. ASSUME NEW t \in Templates, Set(t) PROVE ServiceStored'
    BY <1>10 DEF Set
  <1>11. ASSUME getServiceEntitiesForADID PROVE ServiceStored'
    BY <1>11 DEF getServiceEntitiesForADID
  <1>12. ASSUME NEW s \in Services, getServiceForEntity(s) PROVE ServiceStored'
    BY <1>12 DEF getServiceForEntity
  <1>13. ASSUME ScheduleTemplate PROVE ServiceStored'
    BY <1>13 DEF ScheduleTemplate
  <1>14. ASSUME Receive("new", "register") PROVE ServiceStored'
    BY <1>14 DEF Receive
  <1>15. ASSUME Receive("del", "unregister") PROVE ServiceStored'
    BY <1>15 DEF Receive
  <1>16. ASSUME setServiceForEntity PROVE ServiceStored'
    BY <1>16 DEF setServiceForEntity
  <1>17. ASSUME TagService PROVE ServiceStored'
    BY <1>17 DEF TagService
  <1>18. ASSUME setADIDForServices PROVE ServiceStored'
    BY <1>18 DEF setADIDForServices, Advertise
  <1>19. ASSUME Get PROVE ServiceStored'
    BY <1>19 DEF Get
  <1>20. ASSUME NEW t \in Templates, ResolveNext(t) PROVE ServiceStored'
    BY <1>20 DEF ResolveNext
  <1>21. ASSUME ScheduleResolved PROVE ServiceStored'
    BY <1>21 DEF ScheduleResolved
  <1>22. ASSUME ScheduleService PROVE ServiceStored'
    BY <1>22 DEF ScheduleService
  <1>23. ASSUME removeServiceForEntity PROVE ServiceStored'
    BY <1>23 DEF removeServiceForEntity
  <1>24. ASSUME getConfigsForService PROVE ServiceStored'
    BY <1>24 DEF getConfigsForService
  <1>25. ASSUME removeConfigsForService PROVE ServiceStored'
    BY <1>25 DEF removeConfigsForService
  <1>26. ASSUME removeTagsHashForService PROVE ServiceStored'
    BY <1>26 DEF removeTagsHashForService
  <1>27. ASSUME UnscheduleService PROVE ServiceStored'
    BY <1>27 DEF UnscheduleService
  <1>28. ASSUME NEW s \in Services, RefreshNext(s) PROVE ServiceStored'
    BY <1>28 DEF RefreshNext
  <1>29. ASSUME StopListening PROVE ServiceStored'
    BY <1>29 DEF StopListening
  <1>30. ASSUME UNCHANGED coreVars PROVE ServiceStored'
    BY <1>30 DEF coreVars
  <1>31. ASSUME NEW p \in Procs, ResolveError(p) PROVE ServiceStored'
    BY <1>31 DEF ResolveError, Error, Onwards
  <1>32. ASSUME AllLookedUp PROVE ServiceStored'
    BY <1>32 DEF AllLookedUp
  <1>33. ASSUME NEW c \in hand["poller"], decryptConfig(c) PROVE ServiceStored'
    BY <1>33 DEF decryptConfig, OverAll, OverOne, Over
  <1>34. ASSUME NEW c \in hand["poller"], DecryptError(c) PROVE ServiceStored'
    BY <1>34 DEF DecryptError, Error, OverAll, OverOne, Over
  <1> QED
    BY <1>1, <1>2, <1>3, <1>4, <1>5, <1>6, <1>7, <1>8, <1>9, <1>10, <1>11,
       <1>12, <1>13, <1>14, <1>15, <1>16, <1>17, <1>18, <1>19, <1>20, <1>21,
       <1>22, <1>23, <1>24, <1>25, <1>26, <1>27, <1>28, <1>29, <1>30,
       <1>31, <1>32, <1>33, <1>34,
       QuietSteps
       DEF Next, Poller, Listening, Both, Stopping

\* A template is cached before the services are looked up, a service is
\* registered and advertised before the templates are, and what is
\* unscheduled is of a template or a service that goes.
LEMMA MatchesStayKept ==
  ASSUME IInv, [Next]_vars
  PROVE  MatchesKept'
  <1>0. StoreTypeOK /\ ProcTypeOK /\ LocalsTypeOK /\ ResolvedIndexed /\ NamesRight /\ ServiceStored /\ MatchesKept /\ kind' = kind
    BY KindFixed DEF IInv, TypeOK
  <1>00. /\ at \in [Procs -> Points] /\ hand \in [Procs -> SUBSET Configs]
        /\ \A p \in Procs : /\ config[p] \in Configs
                            /\ config[p].tpl \in Templates /\ config[p].svc \in Services
                            /\ config[p].by = p /\ config[p].text = "written"
    BY <1>0, ConfigParts DEF ProcTypeOK
  <1> USE <1>0, <1>00 DEF Go, Procs, worldVars, storeVars, indexVars, toldVars,
              procVars, pollerVars, listenVars, kubeVars, stopVars, StoreTypeOK,  LocalsTypeOK,
              NamesRight, ServiceStored, MatchesKept, For, PollerHas, ListeningHas,
              Removing, Resolvable, Digest, Digested, Alias, Dropping, Resolving
  <1>1. ASSUME NEW p \in Procs, Resolve(p) PROVE MatchesKept'
    BY <1>1 DEF Resolve, Pair
  <1>2. ASSUME NEW p \in Procs, addConfigForService(p) PROVE MatchesKept'
    BY <1>2 DEF addConfigForService
  <1>3. ASSUME NEW p \in Procs, addConfigForTemplate(p) PROVE MatchesKept'
    BY <1>3 DEF addConfigForTemplate, AddForTemplate
  <1>4. ASSUME NEW p \in Procs, setTagsHashForService(p) PROVE MatchesKept'
    <2>1. PICK e \in Configs : e = config[p] /\ e.tpl \in Templates /\ e.svc \in Services
      OBVIOUS
    <2>2. hand'[p] = {c \in hand[p] : Digest(c) # Digest(e)} \cup {e}
      BY <1>4, <2>1 DEF setTagsHashForService
    <2>3. \A q \in Procs : q # p => hand'[q] = hand[q] /\ at'[q] = at[q]
      BY <1>4 DEF setTagsHashForService
    <2>4. at[p] = "hash" /\ at'[p] = IF p = "poller" THEN "lookup" ELSE "schedule"
      BY <1>4 DEF setTagsHashForService
    <2>5. ASSUME NEW tt \in Templates, NEW ss \in Services, kind[tt].text = "own",
                 NEW c \in hand[p], c.tpl = tt /\ c.svc = ss
          PROVE  \E h \in hand'[p] : h.tpl = tt /\ h.svc = ss
      <3>1. CASE Digest(c) # Digest(e)
        BY <2>2, <2>5, <3>1
      <3>2. CASE Digest(c) = Digest(e)
        <4>1. Digest(c).tpl = c.tpl /\ Digest(e).tpl = e.tpl
          BY DEF Digest
        <4>2. Digest(c).svc = Alias(c.tpl, c.svc) /\ Digest(e).svc = Alias(e.tpl, e.svc)
          BY DEF Digest
        <4>3. e.tpl = tt /\ e.svc = ss
          BY <2>5, <3>2, <4>1, <4>2 DEF Alias
        <4> QED BY <2>2, <4>3
      <3> QED BY <3>1, <3>2
    <2>6. e \in hand'[p]
      BY <2>2
    <2>7. UNCHANGED <<config, scheduled, failed, templateCache, entityToService,
                      tpl, entities, decrypted, svc, status, templates>>
      BY <1>4 DEF setTagsHashForService
    <2> HIDE DEF Digest, Alias, Digested
    <2>8. CASE p = "poller"
      BY <2>1, <2>3, <2>4, <2>5, <2>6, <2>7, <2>8
    <2>9. CASE p = "listening"
      BY <2>1, <2>3, <2>4, <2>6, <2>7, <2>9
    <2> QED BY <2>8, <2>9
  <1>5. ASSUME NEW p \in Procs, Unschedule(p) PROVE MatchesKept'
    BY <1>5 DEF Unschedule, UnscheduleOf
  <1>6. ASSUME NEW p \in Procs, removeLoadedConfig(p) PROVE MatchesKept'
    BY <1>6 DEF removeLoadedConfig
  <1>7. ASSUME NEW t \in Templates, getConfigsForTemplate(t) PROVE MatchesKept'
    BY <1>7 DEF getConfigsForTemplate
  <1>8. ASSUME removeConfigsForTemplate PROVE MatchesKept'
    BY <1>8 DEF removeConfigsForTemplate
  <1>9. ASSUME Del PROVE MatchesKept'
    BY <1>9 DEF Del
  <1>10. ASSUME NEW t \in Templates, Set(t) PROVE MatchesKept'
    BY <1>10 DEF Set
  <1>11. ASSUME getServiceEntitiesForADID PROVE MatchesKept'
    BY <1>11 DEF getServiceEntitiesForADID
  <1>12. ASSUME NEW s \in Services, getServiceForEntity(s) PROVE MatchesKept'
    <2>1. /\ config'["poller"].tpl = tpl /\ config'["poller"].svc = s
          /\ config'["listening"] = config["listening"]
      BY <1>12 DEF getServiceForEntity, Written, ProcTypeOK
    <2>2. /\ at["poller"] = "lookup" /\ at'["listening"] = at["listening"]
          /\ at'["poller"] = IF Resolvable(tpl, s, entityToService[s])
                             THEN "resolve" ELSE "lookup"
      BY <1>12 DEF getServiceForEntity
    <2>3. /\ entities' = entities \ {s}
          /\ UNCHANGED <<hand, scheduled, failed, templateCache, entityToService,
                         tpl, decrypted, svc, status, templates>>
      BY <1>12 DEF getServiceForEntity
    <2> QED BY <2>1, <2>2, <2>3
  <1>13. ASSUME ScheduleTemplate PROVE MatchesKept'
    <2>1. /\ at["poller"] = "decrypt" /\ at'["listening"] = at["listening"]
          /\ hand["poller"] = {}
          /\ scheduled' = scheduled \cup Digested(decrypted)
          /\ UNCHANGED <<hand, config, failed, templateCache, entityToService,
                         tpl, svc, status, templates>>
      BY <1>13 DEF ScheduleTemplate
    <2>2. ASSUME NEW c \in decrypted, kind[c.tpl].text = "own"
          PROVE  \E d \in scheduled' : d.tpl = c.tpl /\ d.svc = c.svc
      <3> HIDE DEF Digest
      <3>1. Digest(c).tpl = c.tpl /\ Digest(c).svc = c.svc
        BY <2>2, OwnDigest
      <3>2. Digest(c) \in scheduled'
        BY <2>1
      <3> QED BY <3>1, <3>2
    <2> HIDE DEF Digest, Digested, Alias
    <2> QED BY <2>1, <2>2
  <1>14. ASSUME Receive("new", "register") PROVE MatchesKept'
    BY <1>14 DEF Receive
  <1>15. ASSUME Receive("del", "unregister") PROVE MatchesKept'
    BY <1>15 DEF Receive
  <1>16. ASSUME setServiceForEntity PROVE MatchesKept'
    BY <1>16 DEF setServiceForEntity
  <1>17. ASSUME TagService PROVE MatchesKept'
    BY <1>17 DEF TagService
  <1>18. ASSUME setADIDForServices PROVE MatchesKept'
    BY <1>18 DEF setADIDForServices, Advertise
  <1>19. ASSUME Get PROVE MatchesKept'
    BY <1>19 DEF Get
  <1>20. ASSUME NEW t \in Templates, ResolveNext(t) PROVE MatchesKept'
    <2>1. /\ config'["listening"].tpl = t /\ config'["listening"].svc = svc
          /\ config'["poller"] = config["poller"]
      BY <1>20 DEF ResolveNext, Written, ProcTypeOK
    <2>2. /\ at["listening"] = "templates" /\ at'["poller"] = at["poller"]
          /\ at'["listening"] = IF Resolvable(t, svc, status)
                                THEN "resolve" ELSE "templates"
      BY <1>20 DEF ResolveNext
    <2>3. /\ templates' = templates \ {t}
          /\ UNCHANGED <<hand, scheduled, failed, templateCache, entityToService,
                         tpl, entities, decrypted, svc, status>>
      BY <1>20 DEF ResolveNext
    <2> QED BY <2>1, <2>2, <2>3
  <1>21. ASSUME ScheduleResolved PROVE MatchesKept'
    <2>1. /\ at["listening"] = "schedule" /\ at'["poller"] = at["poller"]
          /\ at'["listening"] = "templates" /\ hand'["poller"] = hand["poller"]
          /\ scheduled' = scheduled \cup Digested(hand["listening"])
          /\ UNCHANGED <<config, failed, templateCache, entityToService, tpl,
                         entities, decrypted, svc, status, templates>>
      BY <1>21 DEF ScheduleResolved
    <2>2. ASSUME NEW c \in hand["listening"], kind[c.tpl].text = "own"
          PROVE  \E d \in scheduled' : d.tpl = c.tpl /\ d.svc = c.svc
      <3> HIDE DEF Digest
      <3>1. Digest(c).tpl = c.tpl /\ Digest(c).svc = c.svc
        BY <2>2, OwnDigest
      <3>2. Digest(c) \in scheduled'
        BY <2>1
      <3> QED BY <3>1, <3>2
    <2> HIDE DEF Digest, Digested, Alias
    <2> QED BY <2>1, <2>2
  <1>22. ASSUME ScheduleService PROVE MatchesKept'
    BY <1>22 DEF ScheduleService
  <1>23. ASSUME removeServiceForEntity PROVE MatchesKept'
    BY <1>23 DEF removeServiceForEntity
  <1>24. ASSUME getConfigsForService PROVE MatchesKept'
    BY <1>24 DEF getConfigsForService
  <1>25. ASSUME removeConfigsForService PROVE MatchesKept'
    BY <1>25 DEF removeConfigsForService
  <1>26. ASSUME removeTagsHashForService PROVE MatchesKept'
    BY <1>26 DEF removeTagsHashForService
  <1>27. ASSUME UnscheduleService PROVE MatchesKept'
    BY <1>27 DEF UnscheduleService
  <1>28. ASSUME NEW s \in Services, RefreshNext(s) PROVE MatchesKept'
    BY <1>28 DEF RefreshNext
  <1>29. ASSUME StopListening PROVE MatchesKept'
    BY <1>29 DEF StopListening
  <1>30. ASSUME UNCHANGED coreVars PROVE MatchesKept'
    BY <1>30 DEF coreVars
  <1>31. ASSUME NEW p \in Procs, ResolveError(p) PROVE MatchesKept'
    BY <1>31 DEF ResolveError, Error, Onwards, Pair
  <1>32. ASSUME AllLookedUp PROVE MatchesKept'
    BY <1>32 DEF AllLookedUp
  <1>33. ASSUME NEW c \in hand["poller"], decryptConfig(c) \/ DecryptError(c)
         PROVE  MatchesKept'
    <2>1. PICK d \in Configs :
            /\ DecryptedInto(c, d)
            /\ templateToConfigs' \in [Templates -> SUBSET Configs]
            /\ serviceToConfigs' \in [Services -> SUBSET Configs]
            /\ hand' \in [Procs -> SUBSET Configs]
            /\ \/ /\ decrypted' = decrypted \cup {d} /\ failed' = failed
                  /\ Unknown(d) \/ (d \in templateToConfigs'[d.tpl] /\ Lasting(d))
               \/ decrypted' = decrypted /\ failed' = failed \cup {Pair(c)}
      BY <1>0, <1>33, Decryption
    <2> QED BY <2>1 DEF DecryptedInto, Pair
  <1> QED
    BY <1>1, <1>2, <1>3, <1>4, <1>5, <1>6, <1>7, <1>8, <1>9, <1>10, <1>11,
       <1>12, <1>13, <1>14, <1>15, <1>16, <1>17, <1>18, <1>19, <1>20, <1>21,
       <1>22, <1>23, <1>24, <1>25, <1>26, <1>27, <1>28, <1>29, <1>30,
       <1>31, <1>32, <1>33,
       QuietSteps
       DEF Next, Poller, Listening, Both, Stopping

-----------------------------------------------------------------------------
(***************************************************************************)
(* Types.                                                                  *)
(***************************************************************************)

\* The world changes by itself.
LEMMA WorldKeepsType ==
  ASSUME IInv, [Next]_vars
  PROVE  WorldTypeOK'
  <1>0. WorldTypeOK
    BY DEF IInv, TypeOK
  <1>1. ASSUME UNCHANGED worldVars PROVE WorldTypeOK'
    BY <1>0, <1>1 DEF worldVars, WorldTypeOK
  <1>7. ASSUME Error PROVE WorldTypeOK'
    BY <1>0, <1>7 DEF Error, Change, WorldTypeOK
  <1>2. ASSUME NEW p \in Procs, Both(p) PROVE UNCHANGED worldVars \/ Error
    BY <1>2 DEF Both, Resolve, ResolveError, addConfigForService,
       addConfigForTemplate, AddForTemplate, setTagsHashForService,
       Unschedule, UnscheduleOf, removeLoadedConfig
  <1>3. ASSUME Poller PROVE UNCHANGED worldVars \/ Error
    <2>1. Both("poller") => UNCHANGED worldVars \/ Error
      BY <1>2 DEF Procs
    <2> QED
      BY <1>3, <2>1
         DEF Poller, collect, getConfigsForTemplate, Set, removeConfigsForTemplate,
             Del, getServiceEntitiesForADID, getServiceForEntity, AllLookedUp,
             decryptConfig, DecryptError, ScheduleTemplate
  <1>4. ASSUME Listening PROVE UNCHANGED worldVars \/ Error
    <2>1. Both("listening") => UNCHANGED worldVars \/ Error
      BY <1>2 DEF Procs
    <2> QED
      BY <1>4, <2>1
         DEF Listening, Receive, setServiceForEntity, TagService, setADIDForServices, Advertise, Get,
             ResolveNext, ScheduleResolved, ScheduleService,
             removeServiceForEntity, getConfigsForService, removeConfigsForService,
             removeTagsHashForService, UnscheduleService, checkTagFreshness,
             RefreshNext
  <1>5. ASSUME Listener \/ RetryTick \/ initListenerCandidates \/ RetryExit \/ Stop \/ Stopping
        PROVE  UNCHANGED worldVars
    BY <1>5 DEF Listener, PullChanges, Expire, RetryTick,
       initListenerCandidates, RetryExit, Stop, Stopping, StopListening,
       StopRetry, StopRetryWhen, StopListener
  <1>6. ASSUME World PROVE WorldTypeOK'
    <2>1. ASSUME NEW t \in Templates, ProviderChanges(t) PROVE WorldTypeOK'
      BY <1>0, <2>1 DEF ProviderChanges, Change, WorldTypeOK
    <2>2. ASSUME NEW s \in Services, NEW q \in Pods, PodChanges(s, q) PROVE WorldTypeOK'
      BY <1>0, <2>2 DEF PodChanges, Change, WorldTypeOK
    <2>3. ASSUME NEW s \in Services, NEW g \in Tags, TagsChange(s, g) PROVE WorldTypeOK'
      BY <1>0, <2>3 DEF TagsChange, Change, WorldRest, WorldTypeOK
    <2> QED BY <1>6, <2>1, <2>2, <2>3 DEF World
  <1> QED BY <1>1, <1>7, <1>3, <1>4, <1>5, <1>6 DEF Next, vars

\* The listener's goroutine, and what starts and stops it.
LEMMA KubeKeepsType ==
  ASSUME IInv, [Next]_vars
  PROVE  KubeTypeOK'
  <1>0. WorldTypeOK /\ KubeTypeOK
    BY DEF IInv, TypeOK
  <1>1. ASSUME UNCHANGED <<kubeVars, stopVars>> PROVE KubeTypeOK'
    BY <1>0, <1>1 DEF kubeVars, stopVars, KubeTypeOK
  <1>2. ASSUME NEW p \in Procs, Both(p) PROVE UNCHANGED <<kubeVars, stopVars>>
    BY <1>2 DEF Both, Resolve, ResolveError, addConfigForService,
       addConfigForTemplate, AddForTemplate, setTagsHashForService,
       Unschedule, UnscheduleOf, removeLoadedConfig
  <1>3. ASSUME Poller PROVE UNCHANGED <<kubeVars, stopVars>>
    <2>1. Both("poller") => UNCHANGED <<kubeVars, stopVars>>
      BY <1>2 DEF Procs
    <2> QED
      BY <1>3, <2>1
         DEF Poller, collect, getConfigsForTemplate, Set, removeConfigsForTemplate, Del,
             getServiceEntitiesForADID, getServiceForEntity, AllLookedUp,
             decryptConfig, DecryptError, ScheduleTemplate
  <1>4. ASSUME NEW op, NEW to, Receive(op, to) PROVE KubeTypeOK'
    BY <1>0, <1>4 DEF Receive, KubeTypeOK, stopVars
  <1>5. ASSUME Listening PROVE KubeTypeOK'
    <2>1. Both("listening") => UNCHANGED <<kubeVars, stopVars>>
      BY <1>2 DEF Procs
    <2> QED
      BY <1>1, <1>4, <1>5, <2>1
         DEF Listening, setServiceForEntity, TagService, setADIDForServices, Advertise, Get,
             ResolveNext, ScheduleResolved, ScheduleService,
             removeServiceForEntity, getConfigsForService, removeConfigsForService,
             removeTagsHashForService, UnscheduleService, checkTagFreshness,
             RefreshNext
  <1>6. ASSUME NEW s \in Services, PullChanges(s) PROVE KubeTypeOK'
    BY <1>0, <1>6 DEF PullChanges, KubeTypeOK, WorldTypeOK, Sendings, stopVars
  <1>7. ASSUME NEW s \in Services, Expire(s) PROVE KubeTypeOK'
    <2>1. PICK sending : sending = [op |-> "del", svc |-> s, status |-> "gone"]
      OBVIOUS
    <2>2. sending \in Sendings
      BY <2>1 DEF Sendings, Pods
    <2>3. listener' = sending \/ listener' = Nothing
      BY <1>7, <2>1 DEF Expire
    <2>4. lastSeen' \subseteq Services /\ lastSeenReady' \subseteq lastSeen' /\ known' \subseteq lastSeen'
      BY <1>0, <1>7 DEF Expire, KubeTypeOK
    <2> QED BY <1>0, <1>7, <2>2, <2>3, <2>4 DEF Expire, KubeTypeOK, stopVars
  <1>8. ASSUME RetryTick \/ initListenerCandidates \/ RetryExit \/ Stop \/ Stopping
        PROVE  KubeTypeOK'
    BY <1>0, <1>8
       DEF RetryTick, initListenerCandidates, RetryExit, Stop, Stopping, StopListening, StopRetry,
           StopRetryWhen, StopListener, KubeTypeOK, kubeVars
  <1>9. ASSUME World PROVE UNCHANGED <<kubeVars, stopVars>>
    BY <1>9 DEF World, ProviderChanges, PodChanges, TagsChange, Change, WorldRest
  <1> QED BY <1>1, <1>3, <1>5, <1>6, <1>7, <1>8, <1>9 DEF Next, Listener, vars

\* A service that is received is one the listener sent.
LEMMA Received ==
  ASSUME IInv, NEW op \in {"new", "del"}, NEW to, Receive(op, to)
  PROVE  svc' \in Services /\ status' \in Pods
  <1>1. listener \in Sendings
    BY DEF IInv, TypeOK, KubeTypeOK, Receive, Nothing
  <1>2. listener.svc \in Services /\ listener.status \in Pods
    BY <1>1 DEF Sendings
  <1> QED BY <1>2 DEF Receive

\* What the goroutines remember between their steps.
LEMMA LocalsKeepType ==
  ASSUME IInv, [Next]_vars
  PROVE  LocalsTypeOK'
  <1>0. WorldTypeOK /\ StoreTypeOK /\ LocalsTypeOK /\ KubeTypeOK /\ kind' = kind
    BY KindFixed DEF IInv, TypeOK
  <1> USE <1>0 DEF Go, Procs, worldVars, storeVars, indexVars, toldVars,
              procVars, pollerVars, listenVars, kubeVars, stopVars, StoreTypeOK, WorldTypeOK, LocalsTypeOK
  <1>1. ASSUME NEW p \in Procs, Resolve(p) PROVE LocalsTypeOK'
    BY <1>1 DEF Resolve
  <1>2. ASSUME NEW p \in Procs, addConfigForService(p) PROVE LocalsTypeOK'
    BY <1>2 DEF addConfigForService
  <1>3. ASSUME NEW p \in Procs, addConfigForTemplate(p) PROVE LocalsTypeOK'
    BY <1>3 DEF addConfigForTemplate, AddForTemplate
  <1>4. ASSUME NEW p \in Procs, setTagsHashForService(p) PROVE LocalsTypeOK'
    BY <1>4 DEF setTagsHashForService
  <1>5. ASSUME NEW p \in Procs, Unschedule(p) PROVE LocalsTypeOK'
    BY <1>5 DEF Unschedule, UnscheduleOf
  <1>6. ASSUME NEW p \in Procs, removeLoadedConfig(p) PROVE LocalsTypeOK'
    BY <1>6 DEF removeLoadedConfig
  <1>7. ASSUME NEW t \in Templates, getConfigsForTemplate(t) PROVE LocalsTypeOK'
    BY <1>7 DEF getConfigsForTemplate
  <1>8. ASSUME removeConfigsForTemplate PROVE LocalsTypeOK'
    BY <1>8 DEF removeConfigsForTemplate
  <1>9. ASSUME Del PROVE LocalsTypeOK'
    BY <1>9 DEF Del
  <1>10. ASSUME NEW t \in Templates, Set(t) PROVE LocalsTypeOK'
    BY <1>10 DEF Set
  <1>11. ASSUME getServiceEntitiesForADID PROVE LocalsTypeOK'
    BY <1>11 DEF getServiceEntitiesForADID
  <1>12. ASSUME NEW s \in Services, getServiceForEntity(s) PROVE LocalsTypeOK'
    BY <1>12 DEF getServiceForEntity
  <1>13. ASSUME ScheduleTemplate PROVE LocalsTypeOK'
    BY <1>13 DEF ScheduleTemplate
  <1>14. ASSUME Receive("new", "register") PROVE LocalsTypeOK'
    <2>1. svc' \in Services /\ status' \in Pods
      BY <1>14, Received
    <2> QED BY <1>14, <2>1 DEF Receive
  <1>15. ASSUME Receive("del", "unregister") PROVE LocalsTypeOK'
    <2>1. svc' \in Services /\ status' \in Pods
      BY <1>15, Received
    <2> QED BY <1>15, <2>1 DEF Receive
  <1>16. ASSUME setServiceForEntity PROVE LocalsTypeOK'
    BY <1>16 DEF setServiceForEntity
  <1>17. ASSUME TagService PROVE LocalsTypeOK'
    BY <1>17 DEF TagService
  <1>18. ASSUME setADIDForServices PROVE LocalsTypeOK'
    BY <1>18 DEF setADIDForServices, Advertise
  <1>19. ASSUME Get PROVE LocalsTypeOK'
    BY <1>19 DEF Get
  <1>20. ASSUME NEW t \in Templates, ResolveNext(t) PROVE LocalsTypeOK'
    BY <1>20 DEF ResolveNext
  <1>21. ASSUME ScheduleResolved PROVE LocalsTypeOK'
    BY <1>21 DEF ScheduleResolved
  <1>22. ASSUME ScheduleService PROVE LocalsTypeOK'
    <2>1. again' \in BOOLEAN
      BY <1>22, Zenon DEF ScheduleService
    <2>2. status' \in Pods
      BY <1>22 DEF ScheduleService, Pods
    <2> QED BY <1>22, <2>1, <2>2 DEF ScheduleService
  <1>23. ASSUME removeServiceForEntity PROVE LocalsTypeOK'
    BY <1>23 DEF removeServiceForEntity
  <1>24. ASSUME getConfigsForService PROVE LocalsTypeOK'
    BY <1>24 DEF getConfigsForService
  <1>25. ASSUME removeConfigsForService PROVE LocalsTypeOK'
    BY <1>25 DEF removeConfigsForService
  <1>26. ASSUME removeTagsHashForService PROVE LocalsTypeOK'
    BY <1>26 DEF removeTagsHashForService
  <1>27. ASSUME UnscheduleService PROVE LocalsTypeOK'
    BY <1>27 DEF UnscheduleService
  <1>28. ASSUME NEW s \in Services, RefreshNext(s) PROVE LocalsTypeOK'
    BY <1>28 DEF RefreshNext
  <1>29. ASSUME StopListening PROVE LocalsTypeOK'
    BY <1>29 DEF StopListening
  <1>30. ASSUME collect PROVE LocalsTypeOK'
    BY <1>30 DEF collect
  <1>31. ASSUME checkTagFreshness PROVE LocalsTypeOK'
    BY <1>31 DEF checkTagFreshness, Stale
  <1>32. ASSUME \/ Listener \/ RetryTick \/ initListenerCandidates \/ RetryExit
               \/ Stop \/ StopRetry \/ StopListener \/ World \/ UNCHANGED vars
         PROVE LocalsTypeOK'
    BY <1>32 DEF Listener, PullChanges, Expire, RetryTick,
       initListenerCandidates, RetryExit, Stop, StopRetry, StopRetryWhen,
       StopListener, World, ProviderChanges, PodChanges, TagsChange, Change, WorldRest,
       vars
  <1>33. ASSUME NEW p \in Procs, ResolveError(p) PROVE LocalsTypeOK'
    BY <1>33 DEF ResolveError, Error, Onwards
  <1>34. ASSUME AllLookedUp PROVE LocalsTypeOK'
    BY <1>34 DEF AllLookedUp
  <1>35. ASSUME NEW c \in hand["poller"], decryptConfig(c) PROVE LocalsTypeOK'
    <2>1. c \in Configs
      BY DEF IInv, TypeOK, ProcTypeOK
    <2>2. PICK e \in Configs : e = [c EXCEPT !.text = "decrypted"]
      BY <2>1, Rewritten DEF Texts
    <2>3. decrypted' = decrypted \cup {c} \/ decrypted' = decrypted \cup {e}
      BY <1>35, <2>2 DEF decryptConfig
    <2>4. decrypted' \subseteq Configs
      BY <2>1, <2>3
    <2> QED BY <1>35, <2>4 DEF decryptConfig
  <1>36. ASSUME NEW c \in hand["poller"], DecryptError(c) PROVE LocalsTypeOK'
    BY <1>36 DEF DecryptError, Error, OverAll, OverOne, Over
  <1> QED
    BY <1>1, <1>2, <1>3, <1>4, <1>5, <1>6, <1>7, <1>8, <1>9, <1>10, <1>11,
       <1>12, <1>13, <1>14, <1>15, <1>16, <1>17, <1>18, <1>19, <1>20, <1>21,
       <1>22, <1>23, <1>24, <1>25, <1>26, <1>27, <1>28, <1>29, <1>30, <1>31,
       <1>32,
       <1>33, <1>34, <1>35, <1>36
       DEF Next, Poller, Listening, Both, Stopping

\* The store.
LEMMA StoreKeepsType ==
  ASSUME IInv, [Next]_vars
  PROVE  StoreTypeOK'
  <1>0. WorldTypeOK /\ StoreTypeOK /\ ProcTypeOK /\ LocalsTypeOK /\ kind' = kind
    BY KindFixed DEF IInv, TypeOK
  <1> USE <1>0 DEF Go, Procs, worldVars, storeVars, indexVars, toldVars,
              procVars, pollerVars, listenVars, kubeVars, stopVars, WorldTypeOK, StoreTypeOK, ProcTypeOK,
              LocalsTypeOK, Resolving, Pods
  <1>1. ASSUME NEW p \in Procs, Resolve(p) PROVE StoreTypeOK'
    <2>1. config[p] \in Configs
      BY ConfigParts
    <2>2. Digest(config[p]) \in Digests
      BY <2>1, DigestTyped
    <2> QED BY <1>1, <2>2 DEF Resolve
  <1>2. ASSUME NEW p \in Procs, addConfigForService(p) PROVE StoreTypeOK'
    <2>1. PICK c \in Configs : c = config[p]
      BY ConfigParts
    <2>2. serviceToConfigs' = [serviceToConfigs EXCEPT ![c.svc] = serviceToConfigs[c.svc] \cup {c}]
      BY <1>2, <2>1 DEF addConfigForService
    <2>3. serviceToConfigs' \in [Services -> SUBSET Configs]
      BY <2>1, <2>2
    <2> QED BY <1>2, <2>3 DEF addConfigForService
  <1>3. ASSUME NEW p \in Procs, addConfigForTemplate(p) PROVE StoreTypeOK'
    <2>1. PICK c \in Configs : c = config[p]
      BY ConfigParts
    <2>2. templateToConfigs' = [templateToConfigs EXCEPT ![c.tpl] = templateToConfigs[c.tpl] \cup {c}]
      BY <1>3, <2>1 DEF addConfigForTemplate, AddForTemplate
    <2>3. templateToConfigs' \in [Templates -> SUBSET Configs]
      BY <2>1, <2>2
    <2> QED BY <1>3, <2>3 DEF addConfigForTemplate, AddForTemplate
  <1>4. ASSUME NEW p \in Procs, setTagsHashForService(p) PROVE StoreTypeOK'
    BY <1>4 DEF setTagsHashForService
  <1>5. ASSUME NEW p \in Procs, Unschedule(p) PROVE StoreTypeOK'
    BY <1>5 DEF Unschedule, UnscheduleOf
  <1>6. ASSUME NEW p \in Procs, removeLoadedConfig(p) PROVE StoreTypeOK'
    BY <1>6 DEF removeLoadedConfig
  <1>7. ASSUME NEW t \in Templates, getConfigsForTemplate(t) PROVE StoreTypeOK'
    BY <1>7 DEF getConfigsForTemplate
  <1>8. ASSUME removeConfigsForTemplate PROVE StoreTypeOK'
    BY <1>8 DEF removeConfigsForTemplate
  <1>9. ASSUME Del PROVE StoreTypeOK'
    BY <1>9 DEF Del
  <1>10. ASSUME NEW t \in Templates, Set(t) PROVE StoreTypeOK'
    BY <1>10 DEF Set
  <1>11. ASSUME getServiceEntitiesForADID PROVE StoreTypeOK'
    BY <1>11 DEF getServiceEntitiesForADID
  <1>12. ASSUME NEW s \in Services, getServiceForEntity(s) PROVE StoreTypeOK'
    BY <1>12 DEF getServiceForEntity
  <1>13. ASSUME ScheduleTemplate PROVE StoreTypeOK'
    <2>1. Digested(decrypted) \subseteq Digests
      BY DigestTyped DEF Digested
    <2> QED BY <1>13, <2>1 DEF ScheduleTemplate
  <1>14. ASSUME Receive("new", "register") PROVE StoreTypeOK'
    BY <1>14 DEF Receive
  <1>15. ASSUME Receive("del", "unregister") PROVE StoreTypeOK'
    BY <1>15 DEF Receive
  <1>16. ASSUME setServiceForEntity PROVE StoreTypeOK'
    BY <1>16 DEF setServiceForEntity
  <1>17. ASSUME TagService PROVE StoreTypeOK'
    BY <1>17 DEF TagService
  <1>18. ASSUME setADIDForServices PROVE StoreTypeOK'
    BY <1>18 DEF setADIDForServices, Advertise
  <1>19. ASSUME Get PROVE StoreTypeOK'
    BY <1>19 DEF Get
  <1>20. ASSUME NEW t \in Templates, ResolveNext(t) PROVE StoreTypeOK'
    BY <1>20 DEF ResolveNext
  <1>21. ASSUME ScheduleResolved PROVE StoreTypeOK'
    <2>1. Digested(hand["listening"]) \subseteq Digests
      BY DigestTyped DEF Digested
    <2> QED BY <1>21, <2>1 DEF ScheduleResolved
  <1>22. ASSUME ScheduleService PROVE StoreTypeOK'
    BY <1>22 DEF ScheduleService
  <1>23. ASSUME removeServiceForEntity PROVE StoreTypeOK'
    BY <1>23 DEF removeServiceForEntity
  <1>24. ASSUME getConfigsForService PROVE StoreTypeOK'
    BY <1>24 DEF getConfigsForService
  <1>25. ASSUME removeConfigsForService PROVE StoreTypeOK'
    BY <1>25 DEF removeConfigsForService
  <1>26. ASSUME removeTagsHashForService PROVE StoreTypeOK'
    BY <1>26 DEF removeTagsHashForService
  <1>27. ASSUME UnscheduleService PROVE StoreTypeOK'
    BY <1>27 DEF UnscheduleService
  <1>28. ASSUME NEW s \in Services, RefreshNext(s) PROVE StoreTypeOK'
    BY <1>28 DEF RefreshNext
  <1>29. ASSUME StopListening PROVE StoreTypeOK'
    BY <1>29 DEF StopListening
  <1>30. ASSUME collect PROVE StoreTypeOK'
    BY <1>30 DEF collect
  <1>31. ASSUME checkTagFreshness PROVE StoreTypeOK'
    BY <1>31 DEF checkTagFreshness, Stale
  <1>32. ASSUME \/ Listener \/ RetryTick \/ initListenerCandidates \/ RetryExit
               \/ Stop \/ StopRetry \/ StopListener \/ World \/ UNCHANGED vars
         PROVE StoreTypeOK'
    BY <1>32 DEF Listener, PullChanges, Expire, RetryTick,
       initListenerCandidates, RetryExit, Stop, StopRetry, StopRetryWhen,
       StopListener, World, ProviderChanges, PodChanges, TagsChange, Change, WorldRest,
       vars
  <1>33. ASSUME NEW p \in Procs, ResolveError(p) PROVE StoreTypeOK'
    <2>1. Pair(config[p]) \in Templates \X Services
      BY ConfigParts DEF Pair
    <2> QED BY <1>33, <2>1 DEF ResolveError, Error
  <1>34. ASSUME AllLookedUp PROVE StoreTypeOK'
    BY <1>34 DEF AllLookedUp
  <1>35. ASSUME NEW c \in hand["poller"], decryptConfig(c) \/ DecryptError(c)
         PROVE  StoreTypeOK'
    <2>1. PICK d \in Configs :
            /\ DecryptedInto(c, d)
            /\ templateToConfigs' \in [Templates -> SUBSET Configs]
            /\ serviceToConfigs' \in [Services -> SUBSET Configs]
            /\ failed' = failed \/ failed' = failed \cup {Pair(c)}
      BY <1>35, Decryption DEF IInv
    <2>2. Pair(c) \in Templates \X Services
      BY DEF Pair, Configs
    <2>3. failed' \subseteq Templates \X Services
      BY <2>1, <2>2
    <2> QED BY <1>35, <2>1, <2>3 DEF decryptConfig, DecryptError
  <1> QED
    BY <1>1, <1>2, <1>3, <1>4, <1>5, <1>6, <1>7, <1>8, <1>9, <1>10, <1>11,
       <1>12, <1>13, <1>14, <1>15, <1>16, <1>17, <1>18, <1>19, <1>20, <1>21,
       <1>22, <1>23, <1>24, <1>25, <1>26, <1>27, <1>28, <1>29, <1>30, <1>31,
       <1>32,
       <1>33, <1>34, <1>35
       DEF Next, Poller, Listening, Both, Stopping

\* The goroutines: what they resolve is as it is written.
LEMMA ProcsKeepType ==
  ASSUME IInv, [Next]_vars
  PROVE  ProcTypeOK'
  <1>0. WorldTypeOK /\ StoreTypeOK /\ ProcTypeOK /\ LocalsTypeOK /\ kind' = kind
    BY KindFixed DEF IInv, TypeOK
  <1> USE <1>0 DEF Go, Procs, worldVars, storeVars, indexVars, toldVars,
              procVars, pollerVars, listenVars, kubeVars, stopVars, WorldTypeOK, StoreTypeOK, ProcTypeOK,
              LocalsTypeOK, Dropping, Resolving, Points, Configs
  <1>1. ASSUME NEW p \in Procs, Resolve(p) PROVE ProcTypeOK'
    BY <1>1 DEF Resolve
  <1>2. ASSUME NEW p \in Procs, addConfigForService(p) PROVE ProcTypeOK'
    BY <1>2 DEF addConfigForService
  <1>3. ASSUME NEW p \in Procs, addConfigForTemplate(p) PROVE ProcTypeOK'
    BY <1>3 DEF addConfigForTemplate, AddForTemplate
  <1>4. ASSUME NEW p \in Procs, setTagsHashForService(p) PROVE ProcTypeOK'
    <2>1. PICK e \in Configs : e = config[p]
      BY ConfigParts
    <2>2. hand' = [hand EXCEPT ![p] = {c \in hand[p] : Digest(c) # Digest(e)} \cup {e}]
      BY <1>4, <2>1 DEF setTagsHashForService
    <2>3. hand' \in [Procs -> SUBSET Configs]
      BY <2>2
    <2> QED BY <1>4, <2>3 DEF setTagsHashForService
  <1>5. ASSUME NEW p \in Procs, Unschedule(p) PROVE ProcTypeOK'
    BY <1>5 DEF Unschedule, UnscheduleOf
  <1>6. ASSUME NEW p \in Procs, removeLoadedConfig(p) PROVE ProcTypeOK'
    BY <1>6 DEF removeLoadedConfig
  <1>7. ASSUME NEW t \in Templates, getConfigsForTemplate(t) PROVE ProcTypeOK'
    BY <1>7 DEF getConfigsForTemplate
  <1>8. ASSUME removeConfigsForTemplate PROVE ProcTypeOK'
    BY <1>8 DEF removeConfigsForTemplate
  <1>9. ASSUME Del PROVE ProcTypeOK'
    BY <1>9 DEF Del
  <1>10. ASSUME NEW t \in Templates, Set(t) PROVE ProcTypeOK'
    BY <1>10 DEF Set
  <1>11. ASSUME getServiceEntitiesForADID PROVE ProcTypeOK'
    BY <1>11 DEF getServiceEntitiesForADID
  <1>12. ASSUME NEW s \in Services, getServiceForEntity(s) PROVE ProcTypeOK'
    BY <1>12 DEF getServiceForEntity
  <1>13. ASSUME ScheduleTemplate PROVE ProcTypeOK'
    BY <1>13 DEF ScheduleTemplate
  <1>14. ASSUME Receive("new", "register") PROVE ProcTypeOK'
    BY <1>14 DEF Receive
  <1>15. ASSUME Receive("del", "unregister") PROVE ProcTypeOK'
    BY <1>15 DEF Receive
  <1>16. ASSUME setServiceForEntity PROVE ProcTypeOK'
    BY <1>16 DEF setServiceForEntity
  <1>17. ASSUME TagService PROVE ProcTypeOK'
    BY <1>17 DEF TagService
  <1>18. ASSUME setADIDForServices PROVE ProcTypeOK'
    BY <1>18 DEF setADIDForServices, Advertise
  <1>19. ASSUME Get PROVE ProcTypeOK'
    BY <1>19 DEF Get
  <1>20. ASSUME NEW t \in Templates, ResolveNext(t) PROVE ProcTypeOK'
    BY <1>20 DEF ResolveNext
  <1>21. ASSUME ScheduleResolved PROVE ProcTypeOK'
    BY <1>21 DEF ScheduleResolved
  <1>22. ASSUME ScheduleService PROVE ProcTypeOK'
    BY <1>22 DEF ScheduleService
  <1>23. ASSUME removeServiceForEntity PROVE ProcTypeOK'
    BY <1>23 DEF removeServiceForEntity
  <1>24. ASSUME getConfigsForService PROVE ProcTypeOK'
    BY <1>24 DEF getConfigsForService
  <1>25. ASSUME removeConfigsForService PROVE ProcTypeOK'
    BY <1>25 DEF removeConfigsForService
  <1>26. ASSUME removeTagsHashForService PROVE ProcTypeOK'
    BY <1>26 DEF removeTagsHashForService
  <1>27. ASSUME UnscheduleService PROVE ProcTypeOK'
    BY <1>27 DEF UnscheduleService
  <1>28. ASSUME NEW s \in Services, RefreshNext(s) PROVE ProcTypeOK'
    BY <1>28 DEF RefreshNext
  <1>29. ASSUME StopListening PROVE ProcTypeOK'
    BY <1>29 DEF StopListening
  <1>30. ASSUME UNCHANGED coreVars PROVE ProcTypeOK'
    BY <1>30 DEF coreVars
  <1>31. ASSUME NEW p \in Procs, ResolveError(p) PROVE ProcTypeOK'
    BY <1>31 DEF ResolveError, Error, Onwards
  <1>32. ASSUME AllLookedUp PROVE ProcTypeOK'
    BY <1>32 DEF AllLookedUp
  <1>33. ASSUME NEW c \in hand["poller"], decryptConfig(c) \/ DecryptError(c)
         PROVE  ProcTypeOK'
    <2>1. PICK d \in Configs : DecryptedInto(c, d) /\ hand' \in [Procs -> SUBSET Configs]
      BY <1>33, Decryption DEF IInv
    <2> QED BY <2>1 DEF DecryptedInto
  <1> QED
    BY <1>1, <1>2, <1>3, <1>4, <1>5, <1>6, <1>7, <1>8, <1>9, <1>10, <1>11,
       <1>12, <1>13, <1>14, <1>15, <1>16, <1>17, <1>18, <1>19, <1>20, <1>21,
       <1>22, <1>23, <1>24, <1>25, <1>26, <1>27, <1>28, <1>29, <1>30,
       <1>31, <1>32, <1>33,
       QuietSteps
       DEF Next, Poller, Listening, Both, Stopping

-----------------------------------------------------------------------------
\* The inductive invariant holds at the start.
LEMMA InitIInv == Init => IInv
  <1> SUFFICES ASSUME Init PROVE IInv
    OBVIOUS
  <1>1. WorldTypeOK
    BY DEF Init, WorldTypeOK, Pods
  <1>2. PICK s0 \in Services, t0 \in Templates :
          svc = s0 /\ tpl = t0 /\ config = [p \in Procs |-> Written(t0, s0, p)]
    BY DEF Init
  <1>3. StoreTypeOK
    BY DEF Init, StoreTypeOK, Pods
  <1>4. /\ DOMAIN at = Procs /\ at["poller"] = "next" /\ at["listening"] = "idle"
        /\ at \in [Procs -> Points]
    BY DEF Init, Procs, Points
  <1>5. hand = [p \in Procs |-> {}]
    BY DEF Init
  <1>6. ProcTypeOK
    BY <1>2, <1>4, <1>5 DEF ProcTypeOK, Procs, Resolving
  <1>7. LocalsTypeOK
    <2>1. again \in BOOLEAN
      BY Zenon DEF Init
    <2> QED BY <1>2, <2>1 DEF Init, LocalsTypeOK, Pods
  <1>8. KubeTypeOK
    BY DEF Init, KubeTypeOK
  <1>9. NamesRight /\ ResolvedIndexed /\ WithinReach
    BY <1>4, <1>5 DEF Init, NamesRight, ResolvedIndexed, WithinReach,
       Dropping, Resolving, Procs
  <1>10. ServiceStored /\ MatchesKept
    BY <1>4 DEF Init, ServiceStored, MatchesKept, Dropping, Resolving
  <1> QED BY <1>1, <1>3, <1>6, <1>7, <1>8, <1>9, <1>10 DEF IInv, TypeOK

\* Every step preserves it.
LEMMA NextIInv == IInv /\ [Next]_vars => IInv'
  <1> SUFFICES ASSUME IInv, [Next]_vars PROVE IInv'
    OBVIOUS
  <1>1. TypeOK'
    BY WorldKeepsType, StoreKeepsType, ProcsKeepType, LocalsKeepType,
       KubeKeepsType DEF TypeOK
  <1>2. NamesRight' /\ ResolvedIndexed' /\ WithinReach'
    BY NamesStayRight, ResolvedStaysIndexed, StaysWithinReach
  <1>3. ServiceStored' /\ MatchesKept'
    BY ServiceStaysStored, MatchesStayKept
  <1> QED BY <1>1, <1>2, <1>3 DEF IInv

\* The inductive invariant holds throughout.
THEOREM DiscoveryIsSound == Spec => []IInv
  BY InitIInv, NextIInv, PTL DEF Spec

\* When both goroutines are idle, every cached template runs for every
\* service it can be resolved for, whichever of the two came first, unless
\* its last resolution or decryption failed.
THEOREM NoMatchIsMissed == Spec => []NoMatchMissed
  <1>1. IInv => NoMatchMissed
    BY DEF IInv, MatchesKept, NoMatchMissed, PollerIdle, ListeningIdle, For,
       PollerHas, ListeningHas, Removing, Resolving, Dropping
  <1> QED BY <1>1, DiscoveryIsSound, PTL

\* What is scheduled can be unscheduled: a configuration with its digest is
\* in an index or in the hand of a goroutine, unless a decryption gave the
\* scheduled copy a digest of its own.
THEOREM IndexesAreSound == Spec => []IndexesSound
  <1>1. ASSUME IInv PROVE IndexesSound
    <2>1. TypeOK
      BY <1>1 DEF IInv
    <2>2. ASSUME NEW d \in scheduled, ~Unknown(d)
          PROVE  \E c \in UNION ({templateToConfigs[t] : t \in Templates}
                                 \cup {serviceToConfigs[s] : s \in Services}
                                 \cup {hand[p] : p \in Procs}) : Digest(c) = d
      <3>1. PICK c \in Configs : Digest(c) = d /\ Reached(c)
        BY <1>1, <2>2 DEF IInv, WithinReach
      <3>2. c.tpl \in Templates /\ c.svc \in Services
        BY DEF Configs
      <3>3. \/ \E p \in Procs : c \in hand[p]
            \/ c \in templateToConfigs[c.tpl]
            \/ c \in serviceToConfigs[c.svc]
        BY <3>1 DEF Reached, InHand, ByTemplate, ByService
      <3> QED BY <3>1, <3>2, <3>3
    <2> QED BY <2>1, <2>2 DEF IndexesSound, StillIndexed
  <1> QED BY <1>1, DiscoveryIsSound, PTL

-----------------------------------------------------------------------------
(***************************************************************************)
(* AutoConfig.Stop: once stuck, for good.                                  *)
(***************************************************************************)

\* Stop goes on from serviceListening only after that has ended.
ListeningEnded == stop \in {"retry", "listeners", "done"} => at["listening"] = "off"

\* The poller changes nothing that Stop waits for.
LEMMA PollerAside ==
  ASSUME TypeOK, Poller
  PROVE  at'["listening"] = at["listening"] /\ UNCHANGED <<listener, retry, stop>>
  <1>0. at \in [Procs -> Points]
    BY DEF TypeOK, ProcTypeOK
  <1> USE <1>0 DEF Go, Procs, procVars, kubeVars, stopVars
  <1>1. CASE collect \/ Del \/ removeConfigsForTemplate
             \/ getServiceEntitiesForADID \/ AllLookedUp \/ ScheduleTemplate
    BY <1>1 DEF collect, Del, removeConfigsForTemplate,
       getServiceEntitiesForADID, AllLookedUp, ScheduleTemplate
  <1>2. ASSUME NEW t \in Templates, getConfigsForTemplate(t) \/ Set(t)
        PROVE  at'["listening"] = at["listening"] /\ UNCHANGED <<listener, retry, stop>>
    BY <1>2 DEF getConfigsForTemplate, Set
  <1>3. ASSUME NEW s \in Services, getServiceForEntity(s)
        PROVE  at'["listening"] = at["listening"] /\ UNCHANGED <<listener, retry, stop>>
    BY <1>3 DEF getServiceForEntity
  <1>4. CASE Both("poller")
    BY <1>4 DEF Both, Resolve, ResolveError, addConfigForService,
       addConfigForTemplate, AddForTemplate, setTagsHashForService,
       Unschedule, UnscheduleOf, removeLoadedConfig
  <1>5. ASSUME NEW c \in hand["poller"], decryptConfig(c) \/ DecryptError(c)
        PROVE  at'["listening"] = at["listening"] /\ UNCHANGED <<listener, retry, stop>>
    BY <1>5 DEF decryptConfig, DecryptError
  <1> QED BY <1>1, <1>2, <1>3, <1>4, <1>5 DEF Poller

\* serviceListening takes no step once it has ended, and none of its steps is
\* one of Stop or of the retries.
LEMMA ListeningAside ==
  ASSUME Listening
  PROVE  at["listening"] # "off" /\ UNCHANGED <<retry, stop>>
  <1> USE DEF Go, stopVars
  <1>1. CASE Receive("new", "register") \/ Receive("del", "unregister")
             \/ setServiceForEntity \/ TagService \/ setADIDForServices \/ Get
    BY <1>1 DEF Receive, setServiceForEntity, TagService, setADIDForServices,
       Advertise, Get
  <1>2. ASSUME NEW t \in Templates, ResolveNext(t)
        PROVE  at["listening"] # "off" /\ UNCHANGED <<retry, stop>>
    BY <1>2 DEF ResolveNext
  <1>3. CASE ScheduleResolved \/ ScheduleService \/ removeServiceForEntity
             \/ getConfigsForService
    BY <1>3 DEF ScheduleResolved, ScheduleService,
       removeServiceForEntity, getConfigsForService
  <1>4. CASE removeConfigsForService \/ removeTagsHashForService
             \/ UnscheduleService \/ checkTagFreshness
    BY <1>4 DEF removeConfigsForService, removeTagsHashForService,
       UnscheduleService, checkTagFreshness
  <1>5. ASSUME NEW s \in Services, RefreshNext(s)
        PROVE  at["listening"] # "off" /\ UNCHANGED <<retry, stop>>
    BY <1>5 DEF RefreshNext
  <1>6. CASE Both("listening")
    BY <1>6 DEF Both, Resolve, ResolveError, addConfigForService,
       addConfigForTemplate, AddForTemplate, setTagsHashForService,
       Unschedule, UnscheduleOf, removeLoadedConfig
  <1> QED BY <1>1, <1>2, <1>3, <1>4, <1>5, <1>6 DEF Listening

\* serviceListening, once it has ended, does not come back.
LEMMA StaysEnded ==
  ASSUME TypeOK, ListeningEnded, [Next]_vars
  PROVE  ListeningEnded'
  <1> USE DEF ListeningEnded
  <1>0. at \in [Procs -> Points]
    BY DEF TypeOK, ProcTypeOK
  <1>1. CASE Poller
    BY <1>1, PollerAside
  <1>2. CASE Listening
    BY <1>2, ListeningAside
  <1>3. CASE StopListening
    BY <1>0, <1>3 DEF StopListening, Go, Procs
  <1>4. CASE Listener \/ World
    BY <1>4 DEF Listener, PullChanges, Expire, World, ProviderChanges,
       PodChanges, TagsChange, Change, WorldRest, procVars, stopVars
  <1>5. CASE RetryTick \/ initListenerCandidates \/ RetryExit
    BY <1>5 DEF RetryTick, initListenerCandidates, RetryExit, procVars
  <1>6. CASE Stop \/ StopRetry \/ StopListener
    BY <1>6 DEF Stop, StopRetry, StopRetryWhen, StopListener, procVars
  <1>7. CASE UNCHANGED vars
    BY <1>7 DEF vars, procVars, stopVars
  <1> QED BY <1>1, <1>2, <1>3, <1>4, <1>5, <1>6, <1>7 DEF Next, Stopping

\* No step of anybody frees Stop: the goroutine that could receive from the
\* listener has ended, and the mutex that the retry goroutine waits for is
\* the one that Stop holds.
LEMMA StaysStuck ==
  ASSUME TypeOK, ListeningEnded, StopStuck, [Next]_vars
  PROVE  StopStuck'
  <1>1. /\ stop \in {"retry", "listeners"} /\ at["listening"] = "off" /\ Locked
        /\ listener.op \in {"new", "del"} => listener # Nothing
    BY DEF StopStuck, ListeningEnded, Locked, Nothing
  <1>2. CASE Poller
    BY <1>2, PollerAside DEF StopStuck
  <1>3. CASE Listening
    BY <1>1, <1>3, ListeningAside
  <1>4. CASE Listener
    BY <1>1, <1>4 DEF Listener, PullChanges, Expire, StopStuck, stopVars
  <1>5. CASE RetryTick \/ initListenerCandidates \/ RetryExit
    BY <1>1, <1>5 DEF RetryTick, initListenerCandidates, RetryExit, StopStuck,
       kubeVars
  <1>6. CASE Stop \/ StopListening
    BY <1>1, <1>6 DEF Stop, StopListening
  <1>7. CASE StopRetry
    BY <1>7 DEF StopRetry, StopRetryWhen, StopStuck
  <1>8. CASE StopListener
    BY <1>8 DEF StopListener, StopStuck, Nothing
  <1>9. CASE World
    BY <1>9 DEF World, ProviderChanges, PodChanges, TagsChange, Change, WorldRest,
       StopStuck, kubeVars, stopVars
  <1>10. CASE UNCHANGED vars
    BY <1>10 DEF vars, kubeVars, stopVars, StopStuck
  <1> QED BY <1>2, <1>3, <1>4, <1>5, <1>6, <1>7, <1>8, <1>9, <1>10
          DEF Next, Stopping

\* A Stop that waits for a listener with a service in hand, or for the retry
\* goroutine on its way to the mutex, never returns: StopStuck is no delay.
THEOREM StopStuckForGood == Spec => [](StopStuck => [](stop # "done"))
  <1>1. Init => ListeningEnded
    BY DEF Init, ListeningEnded
  <1>2. IInv => TypeOK
    BY DEF IInv
  <1>3. StopStuck => stop # "done"
    BY DEF StopStuck
  <1>4. TypeOK /\ ListeningEnded /\ [Next]_vars => ListeningEnded'
    BY StaysEnded
  <1>5. TypeOK /\ ListeningEnded /\ StopStuck /\ [Next]_vars => StopStuck'
    BY StaysStuck
  <1> QED BY <1>1, <1>2, <1>3, <1>4, <1>5, DiscoveryIsSound, PTL DEF Spec
=============================================================================
