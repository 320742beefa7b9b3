--------------------------- MODULE CheckCollector ---------------------------
(***************************************************************************)
(* The collector: checks are scheduled, run by a pool of workers, stopped. *)
(*                                                                         *)
(* Goroutines:                                                             *)
(*   - the caller: CheckScheduler, serialised by the MetaScheduler's mutex *)
(*     (Schedule, Unschedule, Stop);                                       *)
(*   - the scheduler's main loop, which stops the queue;                   *)
(*   - the job queue of the periodic checks, and a goroutine for each      *)
(*     one-time (long-running) check that waits for a worker;              *)
(*   - the runner's workers, kept as counts: they are interchangeable.     *)
(* s.mu is the scheduler's mutex and r.m the runner's; only the steps that *)
(* keep one while they wait for something else are more than one action.   *)
(*                                                                         *)
(* The periodic checks have one interval and one bucket: how addJob        *)
(* spreads them over the buckets of a queue is left out.  The number of    *)
(* workers is static (check_runners set).                                  *)
(***************************************************************************)
EXTENDS Naturals

CONSTANTS
  Periodic,     \* IDs of the checks with an interval
  OneTime,      \* IDs of the checks with interval 0
  NumWorkers,   \* check_runners
  MaxCalls      \* bound: calls of Schedule and Unschedule

ASSUME CollectorAssumption ==
  /\ Periodic \cap OneTime = {}
  /\ NumWorkers \in Nat \ {0} /\ MaxCalls \in Nat

Checks == Periodic \cup OneTime

VARIABLES
  checks,       \* Collector.checks
  call,         \* what the caller is doing
  calls,        \* number of calls so far
  jobs,         \* the queue's bucket
  checkToQueue, \* Scheduler.checkToQueue
  queue,        \* where the queue's goroutine is
  todo,         \* its copy of the bucket, the checks still to send
  offer,        \* the check it sends, as a set
  once,         \* one-time checks whose goroutine waits for a worker
  cancelOneTime, \* that channel is closed
  loop,         \* where the scheduler's main loop is
  mu,           \* who keeps s.mu
  m,            \* who keeps r.m
  idle,         \* workers that wait for a check
  holding,      \* workers that received a check, by check
  running,      \* workers in its Run
  ended,        \* workers whose Run has returned
  publishing,   \* workers about to publish its statistics
  runningChecks, \* Runner.runningChecks
  told,         \* running checks whose Stop was called
  stats,        \* checks with statistics
  closed        \* the pending channel is closed

callVars  == <<checks, call, calls>>
queueVars == <<jobs, checkToQueue, queue, todo, offer>>
schedVars == <<queueVars, once, cancelOneTime, loop, mu>>
workVars  == <<idle, holding, running, ended, publishing>>
runVars   == <<m, workVars, runningChecks, told, stats, closed>>
collectorVars == <<callVars, schedVars, runVars>>

Ready     == [op |-> "ready"]
Free      == [op |-> "free"]
Plus(f, c)  == [f EXCEPT ![c] = @ + 1]
Minus(f, c) == [f EXCEPT ![c] = @ - 1]

CallTypeOK ==
  /\ checks \subseteq Checks /\ calls \in 0..MaxCalls
  /\ call \in [op : {"cancel", "stop", "wait", "forget"}, check : Checks]
              \cup [op : {"ready", "oneTime", "halt", "down"}]

QueueTypeOK ==
  /\ jobs \subseteq Periodic /\ checkToQueue \subseteq Periodic
  /\ todo \subseteq Periodic
  /\ offer \in {{}} \cup {{c} : c \in Periodic}
  /\ queue \in {"off", "wait", "look", "send"}
  /\ loop \in {"run", "lock", "send", "halted"} /\ mu \in {"free", "loop"}

CountTypeOK ==
  /\ once \in [OneTime -> Nat] /\ idle \in Nat
  /\ \A f \in {holding, running, ended, publishing} : f \in [Checks -> Nat]

RunnerTypeOK ==
  /\ m \in {Free, [op |-> "call"]} \cup [op : {"read", "add"}, check : Checks]
  /\ runningChecks \subseteq Checks /\ told \subseteq runningChecks
  /\ stats \subseteq Periodic

FlagsTypeOK == cancelOneTime \in BOOLEAN /\ closed \in BOOLEAN

CollectorTypeOK ==
  CallTypeOK /\ QueueTypeOK /\ CountTypeOK /\ RunnerTypeOK /\ FlagsTypeOK

CollectorInit ==
  /\ checks = {} /\ call = Ready /\ calls = 0
  /\ jobs = {} /\ checkToQueue = {} /\ queue = "off" /\ todo = {}
  /\ offer = {}
  /\ once = [c \in OneTime |-> 0] /\ cancelOneTime = FALSE
  /\ loop = "run" /\ mu = "free"
  /\ m = Free /\ idle = NumWorkers
  /\ holding = [c \in Checks |-> 0] /\ running = [c \in Checks |-> 0]
  /\ ended = [c \in Checks |-> 0] /\ publishing = [c \in Checks |-> 0]
  /\ runningChecks = {} /\ told = {} /\ stats = {} /\ closed = FALSE

-----------------------------------------------------------------------------
(***************************************************************************)
(* The caller.                                                             *)
(***************************************************************************)
Calls == call = Ready /\ calls < MaxCalls /\ calls' = calls + 1

\* CheckScheduler.Schedule: RunCheck refuses an ID it already has.
RunCheckRefused(c) ==
  /\ Calls /\ c \in checks
  /\ UNCHANGED <<checks, call, schedVars, runVars>>

\* A periodic check is entered under s.mu; the queue starts with the first.
RunPeriodic(c) ==
  /\ Calls /\ c \in Periodic \ checks /\ mu = "free"
  /\ checks' = checks \cup {c}
  /\ jobs' = jobs \cup {c} /\ checkToQueue' = checkToQueue \cup {c}
  /\ queue' = IF queue = "off" THEN "wait" ELSE queue
  /\ UNCHANGED <<call, todo, offer, once, cancelOneTime, loop, mu, runVars>>

\* A one-time check gets a goroutine that offers it, and a worker more.
RunOneTimeWith(c, workers) ==
  /\ Calls /\ c \in OneTime \ checks
  /\ checks' = checks \cup {c}
  /\ once' = Plus(once, c)
  /\ idle' = idle + workers
  /\ UNCHANGED <<call, queueVars, cancelOneTime, loop, mu, m, holding,
                 running, ended, publishing, runningChecks, told, stats,
                 closed>>

\* Mutant: no extra worker for a long-running check.
RunOneTimeAlone(c) == RunOneTimeWith(c, 0)

RunOneTime(c) == RunOneTimeWith(c, 1)

\* CheckScheduler.Unschedule: Cancel, Runner.StopCheck, then the check and
\* its statistics are forgotten.
StopCheck(c) ==
  /\ Calls /\ c \in checks
  /\ call' = [op |-> "cancel", check |-> c]
  /\ UNCHANGED <<checks, schedVars, runVars>>

CancelKeeping(kept) ==
  /\ call.op = "cancel" /\ mu = "free"
  /\ jobs' = jobs \ ({call.check} \ kept)
  /\ checkToQueue' = checkToQueue \ ({call.check} \ kept)
  /\ call' = [call EXCEPT !.op = "stop"]
  /\ UNCHANGED <<checks, calls, queue, todo, offer, once, cancelOneTime, loop,
                 mu, runVars>>

\* Mutant: a check that is running is not taken off the queue.
CancelUnlessRunning == CancelKeeping(runningChecks)

Cancel == CancelKeeping({})

\* A running check is told to stop, and r.m kept until it answers.
RunnerStopCheck ==
  /\ call.op = "stop" /\ m = Free
  /\ \/ /\ call.check \in runningChecks
        /\ told' = told \cup {call.check}
        /\ m' = [op |-> "call"]
        /\ call' = [call EXCEPT !.op = "wait"]
     \/ /\ call.check \notin runningChecks
        /\ call' = [call EXCEPT !.op = "forget"]
        /\ UNCHANGED <<told, m>>
  /\ UNCHANGED <<checks, calls, schedVars, workVars, runningChecks, stats,
                 closed>>

\* It answers, or not within stopCheckTimeout: then the check stays in
\* Collector.checks although it is no longer scheduled.
StopAnswered ==
  /\ call.op = "wait"
  /\ call' \in {[call EXCEPT !.op = "forget"], Ready}
  /\ m' = Free
  /\ UNCHANGED <<checks, calls, schedVars, workVars, runningChecks, told,
                 stats, closed>>

Forget ==
  /\ call.op = "forget"
  /\ stats' = stats \ {call.check}
  /\ checks' = checks \ {call.check}
  /\ call' = Ready
  /\ UNCHANGED <<calls, schedVars, m, workVars, runningChecks, told, closed>>

\* Collector.Stop: Scheduler.Stop, then Runner.Stop.
CollectorStop ==
  /\ call = Ready /\ loop = "run"
  /\ loop' = "lock"
  /\ cancelOneTime' = TRUE
  /\ call' = [op |-> "oneTime"]
  /\ UNCHANGED <<checks, calls, queueVars, once, mu, runVars>>

WaitOneTimeFor(exited) ==
  /\ call.op = "oneTime" /\ exited
  /\ call' = [op |-> "halt"]
  /\ UNCHANGED <<checks, calls, schedVars, runVars>>

\* Mutant: the goroutines of the one-time checks are not waited for.
WaitForNobody == WaitOneTimeFor(TRUE)

WaitOneTime == WaitOneTimeFor(\A c \in OneTime : once[c] = 0)

RunnerStop ==
  /\ call.op = "halt" /\ loop = "halted" /\ m = Free
  /\ closed' = TRUE
  /\ told' = runningChecks
  /\ call' = [op |-> "down"]
  /\ UNCHANGED <<checks, calls, schedVars, m, workVars, runningChecks, stats>>

Caller ==
  \/ Cancel \/ RunnerStopCheck \/ StopAnswered \/ Forget
  \/ WaitOneTime \/ RunnerStop

-----------------------------------------------------------------------------
(***************************************************************************)
(* The scheduler: its main loop, the queue, the one-time goroutines.       *)
(***************************************************************************)
stopQueues ==
  /\ loop = "lock" /\ mu = "free"
  /\ IF queue = "off" THEN loop' = "halted" /\ UNCHANGED mu
     ELSE loop' = "send" /\ mu' = "loop"
  /\ UNCHANGED <<callVars, queueVars, once, cancelOneTime, runVars>>

\* The queue receives the stop in one of its two selects.
StopQueueIn(states) ==
  /\ loop = "send" /\ queue \in states
  /\ queue' = "off" /\ todo' = {} /\ offer' = {}
  /\ loop' = "halted" /\ mu' = "free"
  /\ UNCHANGED <<callVars, jobs, checkToQueue, once, cancelOneTime, runVars>>

\* Mutant: the send to a worker does not watch the stop channel.
StopQueueWaiting == StopQueueIn({"wait"})

StopQueue == StopQueueIn({"wait", "send"})

Tick ==
  /\ queue = "wait" /\ jobs # {}
  /\ queue' = "look" /\ todo' = jobs
  /\ UNCHANGED <<callVars, jobs, checkToQueue, offer, once, cancelOneTime, loop, mu,
                 runVars>>

\* IsCheckScheduled, for each check of the copied bucket.
Look(c) ==
  /\ queue = "look" /\ c \in todo /\ mu = "free"
  /\ todo' = todo \ {c}
  /\ \/ c \in checkToQueue /\ queue' = "send" /\ offer' = {c}
     \/ c \notin checkToQueue /\ UNCHANGED <<queue, offer>>
  /\ UNCHANGED <<callVars, jobs, checkToQueue, once, cancelOneTime, loop, mu,
                 runVars>>

BucketDone ==
  /\ queue = "look" /\ todo = {}
  /\ queue' = "wait"
  /\ UNCHANGED <<callVars, jobs, checkToQueue, todo, offer, once,
                 cancelOneTime, loop, mu, runVars>>

\* A send on the pending channel is a worker's receive.
Hand(c) ==
  /\ idle > 0
  /\ idle' = idle - 1
  /\ holding' = Plus(holding, c)
  /\ UNCHANGED <<callVars, jobs, checkToQueue, todo, cancelOneTime, loop, mu,
                 m, running, ended, publishing, runningChecks, told, stats,
                 closed>>

SendPeriodic(c) ==
  /\ queue = "send" /\ c \in offer
  /\ queue' = "look" /\ offer' = {}
  /\ Hand(c)
  /\ UNCHANGED once

SendOneTime(c) ==
  /\ once[c] > 0 /\ once' = Minus(once, c)
  /\ Hand(c)
  /\ UNCHANGED <<queue, offer>>

CancelOneTime(c) ==
  /\ cancelOneTime
  /\ once[c] > 0 /\ once' = Minus(once, c)
  /\ UNCHANGED <<callVars, queueVars, cancelOneTime, loop, mu, runVars>>

Queue ==
  \/ Tick \/ BucketDone \/ StopQueue
  \/ \E c \in Periodic : Look(c) \/ SendPeriodic(c)

-----------------------------------------------------------------------------
(***************************************************************************)
(* Runner.work.                                                            *)
(***************************************************************************)
Skip(c) ==
  /\ holding[c] > 0 /\ m = Free
  /\ c \in runningChecks
  /\ holding' = Minus(holding, c)
  /\ idle' = idle + 1
  /\ UNCHANGED <<callVars, schedVars, m, running, ended, publishing,
                 runningChecks, told, stats, closed>>

BeginIf(c, free) ==
  /\ holding[c] > 0 /\ m = Free
  /\ free
  /\ holding' = Minus(holding, c)
  /\ runningChecks' = runningChecks \cup {c}
  /\ running' = Plus(running, c)
  /\ UNCHANGED <<callVars, schedVars, m, idle, ended, publishing, told, stats,
                 closed>>

\* Mutant: the list of running checks is not consulted.
BeginAnyway(c) == BeginIf(c, TRUE)

Begin(c) == BeginIf(c, c \notin runningChecks)

\* Run returns.  A one-time check may run until it is told to stop.
RunReturns(c) ==
  /\ running[c] > 0
  /\ running' = Minus(running, c)
  /\ ended' = Plus(ended, c)
  /\ UNCHANGED <<callVars, schedVars, m, idle, holding, publishing,
                 runningChecks, told, stats, closed>>

Remove(c) ==
  /\ ended[c] > 0 /\ m = Free
  /\ ended' = Minus(ended, c)
  /\ publishing' = Plus(publishing, c)
  /\ runningChecks' = runningChecks \ {c}
  /\ told' = told \ {c}
  /\ UNCHANGED <<callVars, schedVars, m, idle, holding, running, stats,
                 closed>>

\* The statistics: r.m is kept over IsCheckScheduled and addWorkStats.
\* Afterwards the worker of a one-time check ends.
Publish(c) ==
  /\ publishing[c] > 0 /\ m = Free
  /\ publishing' = Minus(publishing, c)
  /\ m' = [op |-> "read", check |-> c]
  /\ UNCHANGED <<callVars, schedVars, idle, holding, running, ended,
                 runningChecks, told, stats, closed>>

Published(c) ==
  /\ m' = Free
  /\ idle' = IF c \in OneTime THEN idle ELSE idle + 1
  /\ UNCHANGED <<callVars, schedVars, holding, running, ended, publishing,
                 runningChecks, told, closed>>

ReadScheduled(c) ==
  /\ m = [op |-> "read", check |-> c] /\ mu = "free"
  /\ \/ /\ c \in checkToQueue
        /\ m' = [m EXCEPT !.op = "add"]
        /\ UNCHANGED <<callVars, schedVars, workVars, runningChecks, told,
                       stats, closed>>
     \/ /\ c \notin checkToQueue
        /\ Published(c)
        /\ UNCHANGED stats

addWorkStats(c) ==
  /\ m = [op |-> "add", check |-> c]
  /\ stats' = stats \cup {c}
  /\ Published(c)

Statistics(c) == Publish(c) \/ ReadScheduled(c) \/ addWorkStats(c)

Work(c) == Skip(c) \/ Begin(c) \/ Remove(c) \/ Statistics(c)

-----------------------------------------------------------------------------
CollectorNext ==
  \/ \E c \in Checks : RunCheckRefused(c) \/ StopCheck(c)
  \/ \E c \in Periodic : RunPeriodic(c)
  \/ \E c \in OneTime : RunOneTime(c)
  \/ CollectorStop
  \/ Caller
  \/ stopQueues \/ Queue
  \/ \E c \in OneTime : SendOneTime(c) \/ CancelOneTime(c)
  \/ \E c \in Checks : Work(c) \/ RunReturns(c)

CollectorSpec == CollectorInit /\ [][CollectorNext]_collectorVars

(***************************************************************************)
(* Every goroutine that can go on does; Runner.StopCheck and a worker that *)
(* has finished get r.m although other workers keep taking it, because     *)
(* Go's mutexes starve nobody.                                             *)
(* The Run of a periodic check returns; that of a one-time check when it   *)
(* is told to stop.                                                        *)
(***************************************************************************)
FairCollectorSpec ==
  /\ CollectorSpec
  /\ WF_collectorVars(Caller) /\ SF_collectorVars(RunnerStopCheck)
  /\ WF_collectorVars(stopQueues) /\ WF_collectorVars(Queue)
  /\ WF_collectorVars(\E c \in OneTime : CancelOneTime(c) \/ SendOneTime(c))
  /\ \A c \in Checks : WF_collectorVars(Skip(c) \/ Begin(c)) /\ SF_collectorVars(Remove(c))
  /\ WF_collectorVars(\E c \in Checks : Statistics(c))
  /\ \A c \in Periodic : WF_collectorVars(RunReturns(c))
  /\ WF_collectorVars(\E c \in OneTime : RunReturns(c) /\ c \in told)

-----------------------------------------------------------------------------
(***************************************************************************)
(* Properties.                                                             *)
(***************************************************************************)

\* A check never runs in two workers at once, also when it is stopped and
\* scheduled again while an earlier run of it is still going on.
OneRun == \A c \in Checks : running[c] + ended[c] <= 1

\* "All publishers to the pending channel need to have stopped before Stop
\* is called": nobody is left to send on the channel once it is closed.
NoSendOnClosed ==
  closed => queue = "off" /\ \A c \in OneTime : once[c] = 0

\* Statistics are kept of known checks only: a run that outlives its
\* StopCheck does not bring them back, whatever it read before.
StatsOfKnown == stats \subseteq checks

\* The runner's books are right: types, runs and statistics.
RunsApart == CollectorTypeOK /\ OneRun /\ StatsOfKnown

\* Long-running checks do not starve the periodic ones: one that stays
\* scheduled runs again and again, however many others run for ever.
PeriodicKeepRunning ==
  \A c \in Periodic :
    <>[](c \in checkToQueue /\ loop = "run") => []<>(running[c] > 0)

\* A periodic check that stays off the scheduler's books stops running,
\* although the queue or a worker may still have had it in hand, and although
\* Collector.checks keeps one whose Stop timed out.
StoppedAtLast ==
  \A c \in Periodic :
    <>[](c \notin checks \/ c \notin checkToQueue) => <>[](running[c] = 0)

\* The queue waits for s.mu, which stopQueues keeps while it waits for the
\* queue.
CollectorStopStuck == loop = "send" /\ queue = "look" /\ todo # {}

\* Stop comes back in every other case.
CollectorStopReturns == (loop # "run") ~> (call.op = "down" \/ CollectorStopStuck)

-----------------------------------------------------------------------------
(***************************************************************************)
(* The inductive invariant of ChecksProofs.                                *)
(***************************************************************************)

\* runningChecks has the checks that run, each once.
RunsCounted ==
  \A c \in Checks : running[c] + ended[c] = IF c \in runningChecks THEN 1 ELSE 0

\* From Stop on nothing new is scheduled, and each step of it leaves a
\* publisher less.
StopOrder ==
  /\ loop = "run" <=> call.op \notin {"oneTime", "halt", "down"}
  /\ loop = "halted" => queue = "off"
  /\ call.op \in {"halt", "down"} => \A c \in OneTime : once[c] = 0
  /\ call.op = "down" => loop = "halted"
  /\ closed => call.op = "down"

\* A check that is being stopped is off the queue before r.m is taken, so
\* that a worker that adds statistics once the check may be forgotten adds
\* them to another.
StopSound ==
  /\ checkToQueue \subseteq checks
  /\ call.op \in {"stop", "wait", "forget"} => call.check \notin checkToQueue
  /\ call.op = "wait" => m = [op |-> "call"]
  /\ m.op = "add" => m.check \in checks \cap Periodic
  /\ m.op = "add" /\ call.op = "forget" => m.check # call.check

CollectorIInv ==
  CollectorTypeOK /\ RunsCounted /\ StatsOfKnown /\ StopOrder /\ StopSound
=============================================================================
