--------------------------- MODULE DomainForwarder ---------------------------
(***************************************************************************)
(* The forwarder that sends payloads to one backend domain (package        *)
(* forwarder).  New transactions go to the highPrio channel, which the     *)
(* workers serve first; a failed transaction is handed to the retry        *)
(* goroutine, which on every tick offers what it has to the workers again, *)
(* newest first, over the lowPrio channel.  A circuit breaker shared by    *)
(* all (blockedEndpoints) keeps transactions away from a failing endpoint. *)
(* DefaultForwarder.Stop stops the retry goroutine, then one worker after  *)
(* the other, and closes the channels, while callers still submit.         *)
(*                                                                         *)
(* Data abstraction: a transaction is its place in the order of creation,  *)
(* so t > u means that t is newer, and it has a target endpoint.  Time is  *)
(* whether an endpoint's block has run out yet, which may be at any time.  *)
(***************************************************************************)
EXTENDS Naturals, Sequences, FiniteSets

CONSTANTS
  TransactionLimit,  \* bound: transactions created in a behaviour
  Endpoints,         \* the endpoints of the domain
  Target,            \* the endpoint of each transaction
  Workers,           \* the worker goroutines
  ChanBufferSize,    \* chanBufferSize of the three channels
  RetryQueueLimit,   \* ForwarderRetryQueueMaxSize
  MaxErrors,         \* blockedEndpoints.maxErrors
  RecoveryInterval,  \* blockedEndpoints.recoveryInterval
  PurgeHighPrio      \* forwarder_stop_timeout > 0

Transactions == 1..TransactionLimit

ASSUME ForwarderAssumption ==
  /\ TransactionLimit \in Nat
  /\ Target \in [Transactions -> Endpoints]
  /\ Workers # {} /\ IsFiniteSet(Workers)
  /\ Workers \cap {"stop", "retry"} = {}
  /\ ChanBufferSize \in Nat \ {0}
  /\ RetryQueueLimit \in Nat
  /\ MaxErrors \in Nat
  /\ RecoveryInterval \in Nat
  /\ PurgeHighPrio \in BOOLEAN

VARIABLES
  created,        \* how many transactions exist
  submitting,     \* those whose caller has passed the state check
  highPrio,       \* channel of new transactions
  lowPrio,        \* channel of transactions to retry
  requeued,       \* requeuedTransaction: failed transactions
  retryQueue,     \* domainForwarder.retryQueue
  retrying,       \* what is left of the queue in retryTransactions
  newQueue,       \* the queue retryTransactions builds
  overLimit,      \* history: those it dropped because newQueue was full
  held,           \* the transaction a goroutine processes, 0 for none
  cancelled,      \* the workers told to stop while processing
  pc,             \* where each goroutine is
  ending,         \* the worker Stop is stopping
  internalState,  \* DefaultForwarder.internalState
  channels,       \* "shut" once a submission can only panic
  nbError,        \* errors counted per endpoint
  blocked,        \* the endpoints whose block has not run out
  outcome,        \* how each transaction ended, "none" while under way
  early           \* history: those in highPrio when Stop was called

queueVars == <<highPrio, lowPrio, requeued>>
retryVars == <<retryQueue, retrying, newQueue, overLimit>>
breakVars == <<nbError, blocked>>
stopVars  == <<ending, internalState, channels, early>>
vars      == <<created, submitting, queueVars, retryVars, held, cancelled, pc,
               stopVars, breakVars, outcome>>

Handlers   == Workers \cup {"stop"}
Goroutines == Handlers \cup {"retry"}
Nobody     == "nobody"

Init ==
  /\ created = 0
  /\ submitting = {}
  /\ highPrio = <<>> /\ lowPrio = <<>> /\ requeued = <<>>
  /\ retryQueue = <<>> /\ retrying = <<>> /\ newQueue = <<>>
  /\ overLimit = {}
  /\ held = [p \in Handlers |-> 0]
  /\ cancelled = {}
  /\ pc = [g \in Goroutines |-> CASE g = "stop"  -> "running"
                                  [] g = "retry" -> "select"
                                  [] OTHER       -> "poll"]
  /\ ending = Nobody
  /\ internalState = "Started"
  /\ channels = "open"
  /\ nbError = [e \in Endpoints |-> 0]
  /\ blocked = {}
  /\ outcome = [t \in Transactions |-> "none"]
  /\ early = {}

-----------------------------------------------------------------------------
Goto(g, from, to) == pc[g] = from /\ pc' = [pc EXCEPT ![g] = to]

Elements(s) == {s[i] : i \in 1..Len(s)}

HasRoom(channel) == Len(channel) < ChanBufferSize

Ends(t, how) == outcome' = [outcome EXCEPT ![t] = how]

(***************************************************************************)
(* A caller of one of the Submit methods creates a transaction and looks   *)
(* at the state of the DefaultForwarder, without its mutex; the send is a  *)
(* later step.                                                             *)
(***************************************************************************)
Submit ==
  /\ created < TransactionLimit
  /\ created' = created + 1
  /\ \/ /\ internalState = "Started"
        /\ submitting' = submitting \cup {created'}
        /\ UNCHANGED outcome
     \/ /\ internalState = "Stopped"
        /\ Ends(created', "rejected")
        /\ UNCHANGED submitting
  /\ UNCHANGED <<queueVars, retryVars, held, cancelled, pc, stopVars, breakVars>>

\* domainForwarder.sendHTTPTransactions; a closed channel or a forwarder no
\* longer in the map makes the caller panic.
SendHTTPTransaction(t) ==
  /\ t \in submitting
  /\ submitting' = submitting \ {t}
  /\ \/ /\ channels = "open" /\ HasRoom(highPrio)
        /\ highPrio' = Append(highPrio, t)
        /\ UNCHANGED outcome
     \/ /\ channels = "open" /\ ~HasRoom(highPrio)
        /\ Ends(t, "droppedOnInput")
        /\ UNCHANGED highPrio
     \/ /\ channels = "shut"
        /\ Ends(t, "panicked")
        /\ UNCHANGED highPrio
  /\ UNCHANGED <<created, lowPrio, requeued, retryVars, held, cancelled, pc,
                 stopVars, breakVars>>

(***************************************************************************)
(* blockedEndpoints.                                                       *)
(***************************************************************************)
\* getBackoffDuration: block.until lies ahead exactly when errors are counted.
BlockAsCounted(e) ==
  blocked' = IF nbError'[e] > 0 THEN blocked \cup {e} ELSE blocked \ {e}

CloseEndpoint(e) ==
  /\ nbError' = [nbError EXCEPT ![e] = IF @ < MaxErrors THEN @ + 1 ELSE MaxErrors]
  /\ BlockAsCounted(e)

\* A success takes errors off; with some left the endpoint is blocked anew.
Lowered(n) == IF n > RecoveryInterval THEN n - RecoveryInterval ELSE 0

RecoverEndpoint(e) ==
  /\ nbError' = [nbError EXCEPT ![e] = Lowered(@)]
  /\ BlockAsCounted(e)

\* The time in block.until passes.
BlockExpires(e) ==
  /\ e \in blocked
  /\ blocked' = blocked \ {e}
  /\ UNCHANGED <<created, submitting, queueVars, retryVars, held, cancelled,
                 pc, stopVars, nbError, outcome>>

(***************************************************************************)
(* Worker.process, run by a worker or, when purging, by the goroutine that *)
(* stops it.                                                               *)
(***************************************************************************)
Busy == {"check", "send", "requeue"}

\* Mutant: callProcess returns nil although it was told to stop.
ProcessedAnyway(p, from) ==
  /\ Goto(p, from, IF p = "stop" THEN "purge" ELSE "poll")
  /\ held' = [held EXCEPT ![p] = 0]

\* callProcess returns: a worker told to stop meanwhile ends.
Processed(p, from) ==
  /\ Goto(p, from, CASE p = "stop"      -> "purge"
                     [] p \in cancelled -> "ended"
                     [] OTHER           -> "poll")
  /\ held' = [held EXCEPT ![p] = 0]

Check(p) ==
  /\ Goto(p, "check", IF Target[held[p]] \in blocked THEN "requeue" ELSE "send")
  /\ UNCHANGED <<created, submitting, queueVars, retryVars, held, cancelled,
                 stopVars, breakVars, outcome>>

\* HTTPTransaction.Process returns nil: accepted by the backend, refused for
\* good (400, 403, 404, 413, invalid URL) or cancelled by callProcess.
Return(p, how) ==
  /\ Processed(p, "send")
  /\ Ends(held[p], how)
  /\ RecoverEndpoint(Target[held[p]])
  /\ UNCHANGED <<created, submitting, queueVars, retryVars, cancelled, stopVars>>

\* Mutant: Process returns an error after counting the drop.
RefuseWithError(p) ==
  /\ Goto(p, "send", "requeue")
  /\ Ends(held[p], "dropped")
  /\ CloseEndpoint(Target[held[p]])
  /\ UNCHANGED <<created, submitting, queueVars, retryVars, held, cancelled,
                 stopVars>>

Succeed(p) == Return(p, "delivered")
Refuse(p)  == Return(p, "dropped")
Cancel(p)  == p \in cancelled /\ Return(p, "cancelled")

\* Process returns an error.
Fail(p) ==
  /\ Goto(p, "send", "requeue")
  /\ CloseEndpoint(Target[held[p]])
  /\ UNCHANGED <<created, submitting, queueVars, retryVars, held, cancelled,
                 stopVars, outcome>>

\* The requeue closure: never blocks.
Requeue(p) ==
  /\ Processed(p, "requeue")
  /\ \/ /\ HasRoom(requeued)
        /\ requeued' = Append(requeued, held[p])
        /\ UNCHANGED outcome
     \/ /\ ~HasRoom(requeued)
        /\ Ends(held[p], "lost")
        /\ UNCHANGED requeued
  /\ UNCHANGED <<created, submitting, highPrio, lowPrio, retryVars, cancelled,
                 stopVars, breakVars>>

Process(p) ==
  Check(p) \/ Succeed(p) \/ Refuse(p) \/ Cancel(p) \/ Fail(p) \/ Requeue(p)

(***************************************************************************)
(* The loop of Worker.Start: a first select for new transactions only,     *)
(* then one that waits for either channel.                                 *)
(***************************************************************************)
ReceiveNew(p, from) ==
  /\ Goto(p, from, "check")
  /\ highPrio # <<>>
  /\ held' = [held EXCEPT ![p] = Head(highPrio)]
  /\ highPrio' = Tail(highPrio)
  /\ UNCHANGED <<created, submitting, lowPrio, requeued, retryVars, cancelled,
                 stopVars, breakVars, outcome>>

\* Mutant: the second select does not look at highPrio.
TakeHighPrioPolling(p, from) == from # "wait" /\ ReceiveNew(p, from)

TakeHighPrio(p, from) == ReceiveNew(p, from)

NothingNew(w) ==
  /\ Goto(w, "poll", "wait")
  /\ highPrio = <<>>
  /\ ~(pc["stop"] = "offer" /\ ending = w)
  /\ UNCHANGED <<created, submitting, queueVars, retryVars, held, cancelled,
                 stopVars, breakVars, outcome>>

TakeLowPrio(w) ==
  /\ Goto(w, "wait", "check")
  /\ lowPrio # <<>>
  /\ held' = [held EXCEPT ![w] = Head(lowPrio)]
  /\ lowPrio' = Tail(lowPrio)
  /\ UNCHANGED <<created, submitting, highPrio, requeued, retryVars, cancelled,
                 stopVars, breakVars, outcome>>

(***************************************************************************)
(* handleFailedTransactions, the retry goroutine.                          *)
(***************************************************************************)
RequeueTransaction ==
  /\ pc["retry"] = "select"
  /\ requeued # <<>>
  /\ retryQueue' = Append(retryQueue, Head(requeued))
  /\ requeued' = Tail(requeued)
  /\ UNCHANGED <<created, submitting, highPrio, lowPrio, retrying, newQueue,
                 overLimit, held, cancelled, pc, stopVars, breakVars,
                 outcome>>

\* The tick: retryTransactions takes the queue, here still unsorted.  With
\* an empty queue it changes nothing.
StartRetry ==
  /\ Goto("retry", "select", "retry")
  /\ retryQueue # <<>>
  /\ retrying' = retryQueue
  /\ retryQueue' = <<>>
  /\ UNCHANGED <<created, submitting, queueVars, newQueue, overLimit,
                 held, cancelled, stopVars, breakVars, outcome>>

\* Mutant: sorted the other way round.
OldestAt(i) == \A j \in 1..Len(retrying) : retrying[i] <= retrying[j]

\* sort.Sort(byCreatedTime): newest first.
NewestAt(i) == \A j \in 1..Len(retrying) : retrying[i] >= retrying[j]

Without(s, i) == SubSeq(s, 1, i - 1) \o SubSeq(s, i + 1, Len(s))

RetryTransaction(i) ==
  LET t == retrying[i]
  IN  /\ pc["retry"] = "retry"
      /\ NewestAt(i)
      /\ retrying' = Without(retrying, i)
      /\ \/ /\ Target[t] \notin blocked /\ HasRoom(lowPrio)
            /\ lowPrio' = Append(lowPrio, t)
            /\ UNCHANGED <<newQueue, overLimit, outcome>>
         \/ /\ Target[t] \notin blocked /\ ~HasRoom(lowPrio)
            /\ Ends(t, "dropped")
            /\ UNCHANGED <<lowPrio, newQueue, overLimit>>
         \/ /\ Target[t] \in blocked /\ Len(newQueue) < RetryQueueLimit
            /\ newQueue' = Append(newQueue, t)
            /\ UNCHANGED <<lowPrio, overLimit, outcome>>
         \/ /\ Target[t] \in blocked /\ Len(newQueue) >= RetryQueueLimit
            /\ overLimit' = overLimit \cup {t}
            /\ Ends(t, "dropped")
            /\ UNCHANGED <<lowPrio, newQueue>>
      /\ UNCHANGED <<created, submitting, highPrio, requeued, retryQueue, held,
                     cancelled, pc, stopVars, breakVars>>

FinishRetry ==
  /\ Goto("retry", "retry", "select")
  /\ retrying = <<>>
  /\ retryQueue' = newQueue
  /\ newQueue' = <<>>
  /\ overLimit' = {}
  /\ UNCHANGED <<created, submitting, queueVars, retrying, held, cancelled,
                 stopVars, breakVars, outcome>>

(***************************************************************************)
(* DefaultForwarder.Stop and domainForwarder.Stop.                         *)
(***************************************************************************)
Stop ==
  /\ Goto("stop", "running", "stopRetry")
  /\ internalState' = "Stopped"
  /\ early' = Elements(highPrio)
  /\ UNCHANGED <<created, submitting, queueVars, retryVars, held, cancelled,
                 ending, channels, breakVars, outcome>>

\* f.stopRetry <- true meets the select of the retry goroutine.
StopRetry ==
  /\ pc["stop"] = "stopRetry"
  /\ pc["retry"] = "select"
  /\ pc' = [pc EXCEPT !["stop"] = "next", !["retry"] = "ended"]
  /\ UNCHANGED <<created, submitting, queueVars, retryVars, held, cancelled,
                 stopVars, breakVars, outcome>>

\* Worker.Stop of the next worker: it offers itself on stopChan.
StopWorker(w) ==
  /\ Goto("stop", "next", "offer")
  /\ pc[w] # "ended"
  /\ ending' = w
  /\ UNCHANGED <<created, submitting, queueVars, retryVars, held, cancelled,
                 internalState, channels, early, breakVars, outcome>>

\* A select of Worker.Start, or the one of callProcess, receives it.
ReceiveStop ==
  /\ pc["stop"] = "offer"
  /\ \/ /\ pc[ending] \in {"poll", "wait"}
        /\ pc' = [pc EXCEPT !["stop"] = "join", ![ending] = "ended"]
        /\ UNCHANGED cancelled
     \/ /\ pc[ending] \in Busy
        /\ pc' = [pc EXCEPT !["stop"] = "join"]
        /\ cancelled' = cancelled \cup {ending}
  /\ UNCHANGED <<created, submitting, queueVars, retryVars, held, stopVars,
                 breakVars, outcome>>

\* <-w.stopped
Join ==
  /\ Goto("stop", "join", IF PurgeHighPrio THEN "purge" ELSE "next")
  /\ pc[ending] = "ended"
  /\ UNCHANGED <<created, submitting, queueVars, retryVars, held, cancelled,
                 stopVars, breakVars, outcome>>

LeavePurge ==
  /\ Goto("stop", "purge", "next")
  /\ UNCHANGED <<created, submitting, queueVars, retryVars, held, cancelled,
                 stopVars, breakVars, outcome>>

\* Mutant: the purge may leave transactions behind.
PurgeEndsEarly == LeavePurge

PurgeEnds == highPrio = <<>> /\ LeavePurge

\* All workers are stopped: the retry queue is dropped, the channels closed.
CloseChannels ==
  /\ Goto("stop", "next", "stopped")
  /\ \A w \in Workers : pc[w] = "ended"
  /\ outcome' = [t \in Transactions |->
                   IF t \in Elements(retryQueue) THEN "lost" ELSE outcome[t]]
  /\ retryQueue' = <<>>
  /\ channels' = "shut"
  /\ UNCHANGED <<created, submitting, queueVars, retrying, newQueue, overLimit,
                 held, cancelled, ending, internalState, early,
                 breakVars>>

\* The stop timeout: DefaultForwarder.Stop gives up waiting and forgets its
\* domain forwarders.
StopTimeout ==
  /\ PurgeHighPrio
  /\ pc["stop"] \notin {"running", "stopped"}
  /\ channels = "open"
  /\ channels' = "shut"
  /\ UNCHANGED <<created, submitting, queueVars, retryVars, held, cancelled, pc,
                 ending, internalState, early, breakVars, outcome>>

-----------------------------------------------------------------------------
Worker(w) ==
  \/ TakeHighPrio(w, "poll")
  \/ NothingNew(w)
  \/ TakeHighPrio(w, "wait")
  \/ TakeLowPrio(w)
  \/ Process(w)

Retry == (\E i \in 1..Len(retrying) : RetryTransaction(i)) \/ FinishRetry

Stopping ==
  \/ \E w \in Workers : StopWorker(w)
  \/ ReceiveStop
  \/ Join
  \/ TakeHighPrio("stop", "purge")
  \/ PurgeEnds
  \/ Process("stop")
  \/ CloseChannels

Next ==
  \/ Submit
  \/ \E t \in submitting : SendHTTPTransaction(t)
  \/ \E w \in Workers : Worker(w)
  \/ RequeueTransaction
  \/ StartRetry
  \/ Retry
  \/ Stop
  \/ StopRetry
  \/ Stopping
  \/ StopTimeout
  \/ \E e \in Endpoints : BlockExpires(e)

(***************************************************************************)
(* Goroutines run and requests end, if only by the client's timeout.  The  *)
(* retry goroutine's select, whose ticker keeps firing, overlooks neither  *)
(* the requeue channel nor Stop for ever.  Nothing says that the backend   *)
(* ever accepts a transaction, or that anybody submits or stops.           *)
(***************************************************************************)
Fairness ==
  /\ \A w \in Workers : WF_vars(Worker(w))
  /\ WF_vars(\E t \in submitting : SendHTTPTransaction(t))
  /\ WF_vars(Retry)
  /\ SF_vars(RequeueTransaction)
  /\ SF_vars(StopRetry)
  /\ WF_vars(Stopping)

Spec     == Init /\ [][Next]_vars
FairSpec == Spec /\ Fairness

-----------------------------------------------------------------------------
(***************************************************************************)
(* TypeOK: every variable keeps its type; the channels keep within their   *)
(* capacity and the error counts within maxErrors.                         *)
(***************************************************************************)
Outcomes == {"none", "rejected", "droppedOnInput", "panicked", "delivered",
             "dropped", "cancelled", "lost"}

QueueTypeOK ==
  /\ created \in 0..TransactionLimit
  /\ submitting \subseteq Transactions
  /\ highPrio \in Seq(Transactions) /\ Len(highPrio) <= ChanBufferSize
  /\ lowPrio \in Seq(Transactions) /\ Len(lowPrio) <= ChanBufferSize
  /\ requeued \in Seq(Transactions) /\ Len(requeued) <= ChanBufferSize

RetryTypeOK ==
  /\ retryQueue \in Seq(Transactions)
  /\ retrying \in Seq(Transactions)
  /\ newQueue \in Seq(Transactions)
  /\ overLimit \subseteq Transactions

ControlTypeOK ==
  /\ held \in [Handlers -> 0..TransactionLimit]
  /\ cancelled \subseteq Workers
  /\ pc \in [Goroutines -> Busy \cup {"poll", "wait", "ended", "select", "retry",
                                      "running", "stopRetry", "next", "offer",
                                      "join", "purge", "stopped"}]
  /\ ending \in Workers \cup {Nobody}
  /\ internalState \in {"Started", "Stopped"}
  /\ channels \in {"open", "shut"}

BreakerTypeOK ==
  /\ nbError \in [Endpoints -> 0..MaxErrors]
  /\ blocked \subseteq Endpoints
  /\ outcome \in [Transactions -> Outcomes]
  /\ early \subseteq Transactions

TypeOK == QueueTypeOK /\ RetryTypeOK /\ ControlTypeOK /\ BreakerTypeOK

(***************************************************************************)
(* OnePlace: a transaction that was created is in exactly one place - with *)
(* its caller, in one of the channels or queues, being processed by one    *)
(* goroutine - or has ended in exactly one way.  Retries, refusals and     *)
(* cancellation neither duplicate nor forget one.                          *)
(***************************************************************************)
Count(s, t) == Cardinality({i \in 1..Len(s) : s[i] = t})

HeldBy(t) == {p \in Handlers : held[p] = t}

Places(t) ==
  (IF t \in submitting THEN 1 ELSE 0)
    + Count(highPrio, t) + Count(lowPrio, t) + Count(requeued, t)
    + Count(retryQueue, t) + Count(retrying, t) + Count(newQueue, t)
    + Cardinality(HeldBy(t))
    + (IF outcome[t] = "none" THEN 0 ELSE 1)

OnePlace ==
  \A t \in Transactions : Places(t) = IF t <= created THEN 1 ELSE 0

(***************************************************************************)
(* BlockedOnError: an endpoint is blocked only while errors are counted    *)
(* against it; a success that clears the last error also lifts the block,  *)
(* whatever other workers report for the endpoint meanwhile.               *)
(***************************************************************************)
BlockedOnError == \A e \in blocked : nbError[e] > 0

(***************************************************************************)
(* LimitDropsOldest: what a retry drops because the retry queue is full is *)
(* older than everything it keeps, and the queue it keeps is full.         *)
(***************************************************************************)
LimitDropsOldest ==
  /\ Len(newQueue) <= RetryQueueLimit
  /\ overLimit # {} => Len(newQueue) = RetryQueueLimit
  /\ \A t \in overLimit, k \in Elements(newQueue) : t < k

(***************************************************************************)
(* PurgeServesEarly: Stop with a timeout has tried every transaction that  *)
(* was waiting in highPrio when it was called before it closes the         *)
(* channel, although callers keep submitting and workers keep taking.      *)
(***************************************************************************)
PurgeServesEarly ==
  PurgeHighPrio /\ pc["stop"] = "stopped" =>
    early \cap Elements(highPrio) = {}

(***************************************************************************)
(* What makes it inductive.  A goroutine that processes has a transaction; *)
(* a worker told to stop in the middle ends before Stop goes on to the     *)
(* next one, and all have ended when it is through.  No caller is still to *)
(* send a transaction that is, or at Stop was, in highPrio, and once the   *)
(* first purge is over none of the early ones is left there.               *)
(***************************************************************************)
Handling ==
  /\ \A p \in Handlers : pc[p] \in Busy => held[p] \in Transactions
  /\ pc["stop"] \in {"offer", "join"} => ending \in Workers
  /\ pc["stop"] \in {"running", "stopRetry"} =>
       \A w \in Workers : pc[w] # "ended"
  /\ pc["stop"] = "stopped" => \A w \in Workers : pc[w] = "ended"
  /\ \A w \in cancelled :
       pc[w] = "ended" \/ (pc["stop"] = "join" /\ ending = w)

Purging ==
  /\ submitting \cup Elements(highPrio) \cup early \subseteq 1..created
  /\ submitting \cap (Elements(highPrio) \cup early) = {}
  /\ PurgeHighPrio /\ pc["stop"] \in {"next", "offer", "stopped"} =>
       \/ \A w \in Workers : pc[w] # "ended"
       \/ early \cap Elements(highPrio) = {}

IInv == TypeOK /\ BlockedOnError /\ Handling /\ Purging

(***************************************************************************)
(* And OnePlace and LimitDropsOldest: a goroutine has a transaction only   *)
(* while it processes, the retry goroutine's queues are in use one at a    *)
(* time, and what it has still to look at is older than what it keeps.     *)
(***************************************************************************)
EmptyHands == \A p \in Handlers : pc[p] \notin Busy => held[p] = 0

RetryPhases ==
  /\ pc["retry"] = "retry" => retryQueue = <<>>
  /\ pc["retry"] # "retry" => retrying = <<>> /\ newQueue = <<>> /\ overLimit = {}

NewestFirst == \A t \in Elements(retrying), k \in Elements(newQueue) : t < k

Accounted ==
  OnePlace /\ EmptyHands /\ RetryPhases /\ NewestFirst /\ LimitDropsOldest

(***************************************************************************)
(* SubmitNeverPanics: a submission to a stopped forwarder gets an error.   *)
(***************************************************************************)
SubmitNeverPanics == \A t \in Transactions : outcome[t] # "panicked"

(***************************************************************************)
(* StopTerminates: domainForwarder.Stop comes back, with the retry         *)
(* goroutine and every worker ended, whatever each was doing.              *)
(***************************************************************************)
StopTerminates ==
  pc["stop"] # "running" ~>
    pc["stop"] = "stopped" /\ \A w \in Workers : pc[w] = "ended"

(***************************************************************************)
(* NewOnesServed: a new transaction leaves the highPrio channel for a      *)
(* worker unless the forwarder is stopped.                                 *)
(***************************************************************************)
NewOnesServed ==
  \A t \in Transactions :
    t \in Elements(highPrio) ~>
      t \notin Elements(highPrio) \/ internalState = "Stopped"
=============================================================================
