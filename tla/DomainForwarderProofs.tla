------------------------ MODULE DomainForwarderProofs ------------------------
(***************************************************************************)
(* Proofs about DomainForwarder for every number of transactions, workers  *)
(* and endpoints, every channel capacity and every setting of the circuit  *)
(* breaker.                                                                *)
(***************************************************************************)
EXTENDS DomainForwarder, FiniteSetTheorems, SequenceTheorems, TLAPS

\* Putting an element into a channel adds just that element.
LEMMA AppendFacts ==
  ASSUME NEW q \in Seq(Transactions), NEW e \in Transactions
  PROVE  /\ Append(q, e) \in Seq(Transactions)
         /\ Len(Append(q, e)) = Len(q) + 1
         /\ Elements(Append(q, e)) = Elements(q) \cup {e}
  BY DEF Elements

\* Receiving from a channel that is not empty takes one of its elements.
LEMMA TailFacts ==
  ASSUME NEW q \in Seq(Transactions), q # <<>>
  PROVE  /\ Head(q) \in Transactions
         /\ Tail(q) \in Seq(Transactions)
         /\ Len(Tail(q)) = Len(q) - 1
         /\ Elements(Tail(q)) \subseteq Elements(q)
  BY DEF Elements

\* Taking one element out of the queue being retried leaves a sequence.
LEMMA WithoutType ==
  ASSUME NEW q \in Seq(Transactions), NEW i \in 1..Len(q)
  PROVE  Without(q, i) \in Seq(Transactions)
  <1>1. SubSeq(q, 1, i - 1) \in Seq(Transactions)
    OBVIOUS
  <1>2. SubSeq(q, i + 1, Len(q)) \in Seq(Transactions)
    OBVIOUS
  <1> QED BY <1>1, <1>2 DEF Without

\* The initial state satisfies the inductive invariant.
LEMMA InitIInv == Init => IInv
  <1> SUFFICES ASSUME Init PROVE IInv
    OBVIOUS
  <1> USE ForwarderAssumption DEF ForwarderAssumption
  <1>1. QueueTypeOK /\ RetryTypeOK
    BY DEF Init, QueueTypeOK, RetryTypeOK
  <1>2. ControlTypeOK
    BY DEF Init, ControlTypeOK, Handlers, Goroutines, Nobody, Busy
  <1>3. BreakerTypeOK
    BY DEF Init, BreakerTypeOK, Outcomes
  <1>4. BlockedOnError
    BY DEF Init, BlockedOnError
  <1>5. Handling
    BY DEF Init, Handling, Handlers, Goroutines, Busy
  <1>6. Purging
    BY DEF Init, Purging, Elements
  <1> QED BY <1>1, <1>2, <1>3, <1>4, <1>5, <1>6 DEF IInv, TypeOK

(***************************************************************************)
(* A submission: the new transaction is one that no channel holds yet.     *)
(***************************************************************************)
LEMMA SubmitIInv ==
  ASSUME IInv, Submit \/ \E t \in submitting : SendHTTPTransaction(t)
  PROVE  IInv'
  <1> USE ForwarderAssumption DEF ForwarderAssumption, IInv, TypeOK
  <1>1. CASE Submit
    <2>1. created' \in Transactions /\ created' = created + 1
      BY <1>1 DEF Submit, QueueTypeOK, Transactions
    <2>2. QueueTypeOK' /\ RetryTypeOK' /\ ControlTypeOK'
      <3>1. created' \in 0..TransactionLimit
        BY <2>1 DEF Transactions
      <3>2. submitting' \subseteq Transactions
        BY <1>1, <2>1 DEF Submit, QueueTypeOK
      <3> QED BY <1>1, <3>1, <3>2 DEF Submit, QueueTypeOK, RetryTypeOK,
                 ControlTypeOK, queueVars, retryVars, stopVars
    <2>3. BreakerTypeOK' /\ BlockedOnError'
      BY <1>1, <2>1 DEF Submit, Ends, BreakerTypeOK, BlockedOnError, Outcomes,
           breakVars, stopVars
    <2>4. Handling'
      BY <1>1 DEF Submit, Handling, stopVars
    <2>5. Purging'
      <3>1. submitting' \subseteq submitting \cup {created'}
        BY <1>1 DEF Submit
      <3>2. created' \notin 1..created /\ 1..created' = (1..created) \cup {created'}
        BY <2>1 DEF QueueTypeOK
      <3> QED BY <1>1, <3>1, <3>2 DEF Submit, Purging, Elements, queueVars, stopVars
    <2> QED BY <2>2, <2>3, <2>4, <2>5
  <1>2. CASE \E t \in submitting : SendHTTPTransaction(t)
    <2>1. PICK t \in submitting : SendHTTPTransaction(t)
      BY <1>2
    <2>2. t \in Transactions
      BY DEF QueueTypeOK
    <2>3. \/ highPrio' = highPrio
          \/ highPrio' = Append(highPrio, t) /\ Len(highPrio) < ChanBufferSize
      BY <2>1 DEF SendHTTPTransaction, HasRoom
    <2>4. /\ highPrio' \in Seq(Transactions) /\ Len(highPrio') <= ChanBufferSize
          /\ Elements(highPrio') \subseteq Elements(highPrio) \cup {t}
      <3>1. highPrio \in Seq(Transactions) /\ Len(highPrio) <= ChanBufferSize
        BY DEF QueueTypeOK
      <3>2. /\ Append(highPrio, t) \in Seq(Transactions)
            /\ Len(Append(highPrio, t)) = Len(highPrio) + 1
            /\ Elements(Append(highPrio, t)) = Elements(highPrio) \cup {t}
        BY <2>2, <3>1, AppendFacts
      <3>3. CASE highPrio' = highPrio
        BY <3>1, <3>3 DEF Elements
      <3>4. CASE highPrio' = Append(highPrio, t) /\ Len(highPrio) < ChanBufferSize
        BY <3>1, <3>2, <3>4 DEF Elements
      <3> QED BY <2>3, <3>3, <3>4
    <2>5. QueueTypeOK' /\ RetryTypeOK' /\ ControlTypeOK'
      BY <2>1, <2>4 DEF SendHTTPTransaction, QueueTypeOK, RetryTypeOK,
           ControlTypeOK, retryVars, stopVars
    <2>6. BreakerTypeOK' /\ BlockedOnError'
      BY <2>1, <2>2 DEF SendHTTPTransaction, Ends, BreakerTypeOK,
           BlockedOnError, Outcomes, breakVars, stopVars
    <2>7. Handling'
      BY <2>1 DEF SendHTTPTransaction, Handling, stopVars
    <2>8. Purging'
      BY <2>1, <2>4 DEF SendHTTPTransaction, Purging, stopVars
    <2> QED BY <2>5, <2>6, <2>7, <2>8
  <1> QED BY <1>1, <1>2

(***************************************************************************)
(* The steps of the retry goroutine: they move transactions between its    *)
(* queues and into lowPrio, and end some.                                  *)
(***************************************************************************)
LEMMA RetryIInv ==
  ASSUME IInv, RequeueTransaction \/ StartRetry \/ Retry
  PROVE  IInv'
  <1> USE ForwarderAssumption DEF ForwarderAssumption, IInv, TypeOK
  <1>1. CASE RequeueTransaction
    <2>1. /\ requeued' \in Seq(Transactions)
          /\ Len(requeued') <= ChanBufferSize
          /\ retryQueue' \in Seq(Transactions)
      <3>1. requeued \in Seq(Transactions) /\ Len(requeued) <= ChanBufferSize
        BY DEF QueueTypeOK
      <3>2. /\ requeued # <<>> /\ requeued' = Tail(requeued)
            /\ retryQueue' = Append(retryQueue, Head(requeued))
        BY <1>1 DEF RequeueTransaction
      <3>3. /\ Head(requeued) \in Transactions
            /\ Tail(requeued) \in Seq(Transactions)
            /\ Len(Tail(requeued)) = Len(requeued) - 1
        BY <3>1, <3>2, TailFacts
      <3>4. retryQueue' \in Seq(Transactions)
        BY <3>2, <3>3, AppendFacts DEF RetryTypeOK
      <3> QED BY <3>1, <3>2, <3>3, <3>4
    <2>2. QueueTypeOK' /\ RetryTypeOK' /\ ControlTypeOK'
      BY <1>1, <2>1 DEF RequeueTransaction, QueueTypeOK, RetryTypeOK,
           ControlTypeOK, stopVars
    <2>3. BreakerTypeOK' /\ BlockedOnError'
      BY <1>1 DEF RequeueTransaction, BreakerTypeOK, BlockedOnError,
           breakVars, stopVars
    <2>4. Handling' /\ Purging'
      BY <1>1 DEF RequeueTransaction, Handling, Purging, Elements, stopVars
    <2> QED BY <2>2, <2>3, <2>4
  <1>2. CASE StartRetry \/ FinishRetry
    <2>1. /\ UNCHANGED <<created, submitting, queueVars, held, cancelled,
                         stopVars, breakVars, outcome>>
          /\ pc' \in {[pc EXCEPT !["retry"] = "retry"],
                      [pc EXCEPT !["retry"] = "select"]}
      BY <1>2 DEF StartRetry, FinishRetry, Goto
    <2>2. RetryTypeOK'
      <3>1. <<>> \in Seq(Transactions)
        OBVIOUS
      <3>2. CASE StartRetry
        BY <3>1, <3>2 DEF StartRetry, RetryTypeOK
      <3>3. CASE FinishRetry
        BY <3>1, <3>3 DEF FinishRetry, RetryTypeOK
      <3> QED BY <1>2, <3>2, <3>3
    <2>3. QueueTypeOK' /\ BreakerTypeOK' /\ BlockedOnError'
      BY <2>1 DEF QueueTypeOK, BreakerTypeOK, BlockedOnError, queueVars,
           breakVars, stopVars
    <2>4. ControlTypeOK'
      BY <2>1 DEF ControlTypeOK, stopVars
    <2>5. \A p \in Handlers : pc'[p] = pc[p]
      BY <2>1 DEF ControlTypeOK, Handlers, Goroutines
    <2>6. Handling' /\ Purging'
      BY <2>1, <2>5 DEF Handling, Purging, Handlers, Elements, ControlTypeOK,
           queueVars, stopVars
    <2> QED BY <2>2, <2>3, <2>4, <2>6
  <1>3. CASE \E i \in 1..Len(retrying) : RetryTransaction(i)
    <2>1. PICK i \in 1..Len(retrying) : RetryTransaction(i)
      BY <1>3
    <2> DEFINE t == retrying[i]
    <2>2. t \in Transactions /\ retrying' \in Seq(Transactions)
      BY <2>1, WithoutType DEF RetryTransaction, RetryTypeOK
    <2>3. /\ lowPrio' = lowPrio \/ (lowPrio' = Append(lowPrio, t) /\ Len(lowPrio) < ChanBufferSize)
          /\ newQueue' \in {newQueue, Append(newQueue, t)}
          /\ overLimit' \subseteq overLimit \cup {t}
          /\ outcome' \in {outcome, [outcome EXCEPT ![t] = "dropped"]}
      BY <2>1 DEF RetryTransaction, HasRoom, Ends
    <2>4. UNCHANGED <<created, submitting, highPrio, requeued, retryQueue, held,
                      cancelled, pc, stopVars, breakVars>>
      BY <2>1 DEF RetryTransaction
    <2> HIDE DEF t
    <2>5. lowPrio' \in Seq(Transactions) /\ Len(lowPrio') <= ChanBufferSize
      <3>1. lowPrio \in Seq(Transactions) /\ Len(lowPrio) <= ChanBufferSize
        BY DEF QueueTypeOK
      <3>2. /\ Append(lowPrio, t) \in Seq(Transactions)
            /\ Len(Append(lowPrio, t)) = Len(lowPrio) + 1
        BY <2>2, <3>1, AppendFacts
      <3> QED BY <2>3, <3>1, <3>2
    <2>6. newQueue' \in Seq(Transactions)
      <3>1. newQueue \in Seq(Transactions)
        BY DEF RetryTypeOK
      <3>2. Append(newQueue, t) \in Seq(Transactions)
        BY <2>2, <3>1, AppendFacts
      <3> QED BY <2>3, <3>1, <3>2
    <2>7. QueueTypeOK' /\ RetryTypeOK' /\ ControlTypeOK'
      BY <2>2, <2>3, <2>4, <2>5, <2>6 DEF QueueTypeOK, RetryTypeOK,
           ControlTypeOK, stopVars
    <2>8. BreakerTypeOK' /\ BlockedOnError'
      BY <2>2, <2>3, <2>4 DEF BreakerTypeOK, BlockedOnError, Outcomes,
           breakVars, stopVars
    <2>9. Handling' /\ Purging'
      BY <2>4 DEF Handling, Purging, Elements, stopVars
    <2> QED BY <2>7, <2>8, <2>9
  <1> QED BY <1>1, <1>2, <1>3 DEF Retry

(***************************************************************************)
(* Steps inside process: the goroutine keeps its transaction until it is   *)
(* requeued or ended, and a worker ends only if Stop is waiting for it.    *)
(***************************************************************************)
LEMMA ProcessControl ==
  ASSUME IInv, NEW p \in Handlers, NEW from \in Busy, NEW to,
         Goto(p, from, to),
         UNCHANGED <<created, submitting, highPrio, cancelled, stopVars>>,
         \/ to \in Busy /\ held' = held
         \/ Processed(p, from)
  PROVE  ControlTypeOK' /\ Handling' /\ Purging'
  <1> USE ForwarderAssumption DEF ForwarderAssumption, IInv, TypeOK
  <1>1. /\ to \in Busy \cup {"purge", "ended", "poll"}
        /\ (to \in Busy /\ held' = held) \/ to \notin Busy
        /\ held' \in {held, [held EXCEPT ![p] = 0]}
        /\ to = "ended" => p \in cancelled
        /\ p \in cancelled => to \in Busy \cup {"ended"}
        /\ p = "stop" => to \in Busy \cup {"purge"}
    BY DEF Processed, Goto, Busy, ControlTypeOK, Goroutines, Handlers
  <1>2. pc' = [pc EXCEPT ![p] = to] /\ pc[p] = from
    BY DEF Goto
  <1>3. p \in Goroutines
    BY DEF Goroutines
  <1>4. ControlTypeOK'
    BY <1>1, <1>2, <1>3 DEF ControlTypeOK, stopVars
  <1>5. p \in cancelled => pc["stop"] = "join" /\ ending = p
    BY <1>2 DEF Handling, Busy
  <1>6. \A q \in Goroutines : pc'[q] = IF q = p THEN to ELSE pc[q]
    BY <1>2, <1>3 DEF ControlTypeOK
  <1>7. "stop" \in Goroutines /\ Workers \subseteq Goroutines /\ Handlers \subseteq Goroutines
    BY DEF Goroutines, Handlers
  <1>8. Handling'
    <2>1. \A q \in Handlers : pc'[q] \in Busy => held'[q] \in Transactions
      BY <1>1, <1>2, <1>6, <1>7 DEF Handling, ControlTypeOK, Handlers
    <2>2. pc'["stop"] \in {"offer", "join"} => ending' \in Workers
      BY <1>1, <1>2, <1>6, <1>7 DEF Handling, Busy, stopVars
    <2>3. pc'["stop"] \in {"running", "stopRetry"} => \A w \in Workers : pc'[w] # "ended"
      BY <1>1, <1>2, <1>5, <1>6, <1>7 DEF Handling, Busy
    <2>4. \A w \in cancelled' : pc'[w] = "ended" \/ (pc'["stop"] = "join" /\ ending' = w)
      BY <1>1, <1>2, <1>5, <1>6, <1>7 DEF Handling, Busy, ControlTypeOK, stopVars
    <2>5. pc'["stop"] = "stopped" => \A w \in Workers : pc'[w] = "ended"
      BY <1>1, <1>2, <1>6, <1>7 DEF Handling, Busy
    <2> QED BY <2>1, <2>2, <2>3, <2>4, <2>5 DEF Handling
  <1>9. Purging'
    <2>1. PurgeHighPrio /\ pc'["stop"] \in {"next", "offer", "stopped"} =>
            \/ \A w \in Workers : pc'[w] # "ended"
            \/ early' \cap Elements(highPrio') = {}
      BY <1>1, <1>2, <1>5, <1>6, <1>7 DEF Purging, Busy, Elements, stopVars
    <2> QED BY <2>1 DEF Purging, Elements, stopVars
  <1> QED BY <1>4, <1>8, <1>9

\* The circuit breaker counts within its limits and blocks only on errors.
LEMMA BreakerFacts ==
  ASSUME BreakerTypeOK, BlockedOnError, NEW e \in Endpoints,
         CloseEndpoint(e) \/ RecoverEndpoint(e)
  PROVE  /\ nbError' \in [Endpoints -> 0..MaxErrors]
         /\ blocked' \subseteq Endpoints
         /\ BlockedOnError'
  <1> USE ForwarderAssumption DEF ForwarderAssumption, BreakerTypeOK
  <1>1. CASE CloseEndpoint(e)
    BY <1>1 DEF CloseEndpoint, BlockAsCounted, BlockedOnError
  <1>2. CASE RecoverEndpoint(e)
    <2>1. Lowered(nbError[e]) \in 0..MaxErrors
      BY DEF Lowered
    <2> QED BY <1>2, <2>1 DEF RecoverEndpoint, BlockAsCounted, BlockedOnError
  <1> QED BY <1>1, <1>2

\* Every step of process keeps the inductive invariant.
LEMMA ProcessIInv ==
  ASSUME IInv, NEW p \in Handlers, Process(p)
  PROVE  IInv'
  <1> USE ForwarderAssumption DEF ForwarderAssumption, IInv, TypeOK
  <1>1. CASE Check(p)
    <2> DEFINE to == IF Target[held[p]] \in blocked THEN "requeue" ELSE "send"
    <2>1. "check" \in Busy /\ to \in Busy
      BY DEF Busy
    <2>2. /\ Goto(p, "check", to) /\ held' = held
          /\ UNCHANGED <<created, submitting, queueVars, retryVars, cancelled,
                         stopVars, breakVars, outcome>>
      BY <1>1 DEF Check
    <2> HIDE DEF to
    <2>3. ControlTypeOK' /\ Handling' /\ Purging'
      <3>1. UNCHANGED <<created, submitting, highPrio, cancelled, stopVars>>
        BY <2>2 DEF queueVars
      <3> QED BY <2>1, <2>2, <3>1, ProcessControl
    <2>4. QueueTypeOK' /\ RetryTypeOK' /\ BreakerTypeOK' /\ BlockedOnError'
      BY <2>2 DEF QueueTypeOK, RetryTypeOK, BreakerTypeOK, BlockedOnError,
           queueVars, retryVars, breakVars, stopVars
    <2> QED BY <2>3, <2>4
  <1>2. ASSUME NEW how \in {"delivered", "dropped", "cancelled"}, Return(p, how)
        PROVE  IInv'
    <2>1. "send" \in Busy
      BY DEF Busy
    <2>2. /\ Processed(p, "send") /\ outcome' = [outcome EXCEPT ![held[p]] = how]
          /\ RecoverEndpoint(Target[held[p]])
          /\ UNCHANGED <<created, submitting, queueVars, retryVars, cancelled, stopVars>>
      BY <1>2 DEF Return, Ends
    <2>3. PICK to : Goto(p, "send", to)
      BY <2>2 DEF Processed
    <2>4. ControlTypeOK' /\ Handling' /\ Purging'
      <3>1. UNCHANGED <<created, submitting, highPrio, cancelled, stopVars>>
        BY <2>2 DEF queueVars
      <3> QED BY <2>1, <2>2, <2>3, <3>1, ProcessControl
    <2>5. held[p] \in Transactions /\ Target[held[p]] \in Endpoints
      BY <2>3 DEF Goto, Handling, Busy
    <2>6. nbError' \in [Endpoints -> 0..MaxErrors] /\ blocked' \subseteq Endpoints /\ BlockedOnError'
      BY <2>2, <2>5, BreakerFacts
    <2>7. QueueTypeOK' /\ RetryTypeOK' /\ BreakerTypeOK'
      BY <2>2, <2>5, <2>6 DEF QueueTypeOK, RetryTypeOK, BreakerTypeOK,
           Outcomes, queueVars, retryVars, stopVars
    <2> QED BY <2>4, <2>6, <2>7
  <1>3. CASE Fail(p)
    <2>1. "send" \in Busy /\ "requeue" \in Busy
      BY DEF Busy
    <2>2. /\ Goto(p, "send", "requeue") /\ held' = held
          /\ CloseEndpoint(Target[held[p]])
          /\ UNCHANGED <<created, submitting, queueVars, retryVars, cancelled,
                         stopVars, outcome>>
      BY <1>3 DEF Fail
    <2>3. ControlTypeOK' /\ Handling' /\ Purging'
      <3>1. UNCHANGED <<created, submitting, highPrio, cancelled, stopVars>>
        BY <2>2 DEF queueVars
      <3> QED BY <2>1, <2>2, <3>1, ProcessControl
    <2>4. held[p] \in Transactions /\ Target[held[p]] \in Endpoints
      BY <2>2 DEF Goto, Handling, Busy
    <2>5. nbError' \in [Endpoints -> 0..MaxErrors] /\ blocked' \subseteq Endpoints /\ BlockedOnError'
      BY <2>2, <2>4, BreakerFacts
    <2>6. QueueTypeOK' /\ RetryTypeOK' /\ BreakerTypeOK'
      BY <2>2, <2>5 DEF QueueTypeOK, RetryTypeOK, BreakerTypeOK,
           queueVars, retryVars, stopVars
    <2> QED BY <2>3, <2>5, <2>6
  <1>4. CASE Requeue(p)
    <2>1. "requeue" \in Busy
      BY DEF Busy
    <2>2. /\ Processed(p, "requeue")
          /\ UNCHANGED <<created, submitting, highPrio, lowPrio, retryVars,
                         cancelled, stopVars, breakVars>>
          /\ outcome' \in {outcome, [outcome EXCEPT ![held[p]] = "lost"]}
          /\ requeued' = requeued \/
               (requeued' = Append(requeued, held[p]) /\ Len(requeued) < ChanBufferSize)
      BY <1>4 DEF Requeue, Ends, HasRoom
    <2>3. PICK to : Goto(p, "requeue", to)
      BY <2>2 DEF Processed
    <2>4. ControlTypeOK' /\ Handling' /\ Purging'
      BY <2>1, <2>2, <2>3, ProcessControl
    <2>5. held[p] \in Transactions
      BY <2>3 DEF Goto, Handling, Busy
    <2>6. requeued' \in Seq(Transactions) /\ Len(requeued') <= ChanBufferSize
      <3>1. requeued \in Seq(Transactions) /\ Len(requeued) <= ChanBufferSize
        BY DEF QueueTypeOK
      <3>2. /\ Append(requeued, held[p]) \in Seq(Transactions)
            /\ Len(Append(requeued, held[p])) = Len(requeued) + 1
        BY <2>5, <3>1, AppendFacts
      <3> QED BY <2>2, <3>1, <3>2
    <2>7. QueueTypeOK' /\ RetryTypeOK'
      BY <2>2, <2>6 DEF QueueTypeOK, RetryTypeOK, retryVars
    <2>8. BreakerTypeOK' /\ BlockedOnError'
      BY <2>2, <2>5 DEF BreakerTypeOK, BlockedOnError, Outcomes, breakVars, stopVars
    <2> QED BY <2>4, <2>7, <2>8
  <1> QED BY <1>1, <1>2, <1>3, <1>4 DEF Process, Succeed, Refuse, Cancel

(***************************************************************************)
(* Taking a transaction from a channel: highPrio only loses elements.      *)
(***************************************************************************)
LEMMA ReceiveIInv ==
  ASSUME IInv, NEW p \in Handlers,
         \/ p \in Workers /\ TakeHighPrio(p, "poll")
         \/ p \in Workers /\ TakeHighPrio(p, "wait")
         \/ p \in Workers /\ TakeLowPrio(p)
         \/ p = "stop" /\ TakeHighPrio(p, "purge")
  PROVE  IInv'
  <1> USE ForwarderAssumption DEF ForwarderAssumption, IInv, TypeOK
  <1>1. PICK from \in {"poll", "wait", "purge"} :
          /\ Goto(p, from, "check")
          /\ p = "stop" <=> from = "purge"
    BY DEF TakeHighPrio, ReceiveNew, TakeLowPrio
  <1>2. /\ UNCHANGED <<created, submitting, requeued, retryVars, cancelled,
                       stopVars, breakVars, outcome>>
        /\ \/ /\ highPrio # <<>> /\ highPrio' = Tail(highPrio) /\ lowPrio' = lowPrio
              /\ held' = [held EXCEPT ![p] = Head(highPrio)]
           \/ /\ lowPrio # <<>> /\ lowPrio' = Tail(lowPrio) /\ highPrio' = highPrio
              /\ held' = [held EXCEPT ![p] = Head(lowPrio)]
    BY DEF TakeHighPrio, ReceiveNew, TakeLowPrio
  <1>3. /\ highPrio' \in Seq(Transactions) /\ Len(highPrio') <= ChanBufferSize
        /\ lowPrio' \in Seq(Transactions) /\ Len(lowPrio') <= ChanBufferSize
        /\ Elements(highPrio') \subseteq Elements(highPrio)
        /\ \E t \in Transactions : held' = [held EXCEPT ![p] = t]
    <2>1. /\ highPrio \in Seq(Transactions) /\ Len(highPrio) <= ChanBufferSize
          /\ lowPrio \in Seq(Transactions) /\ Len(lowPrio) <= ChanBufferSize
      BY DEF QueueTypeOK
    <2>2. CASE highPrio # <<>> /\ highPrio' = Tail(highPrio) /\ lowPrio' = lowPrio
                 /\ held' = [held EXCEPT ![p] = Head(highPrio)]
      <3>1. /\ Head(highPrio) \in Transactions
            /\ Tail(highPrio) \in Seq(Transactions)
            /\ Len(Tail(highPrio)) = Len(highPrio) - 1
            /\ Elements(Tail(highPrio)) \subseteq Elements(highPrio)
        BY <2>1, <2>2, TailFacts
      <3>2. \E t \in Transactions : held' = [held EXCEPT ![p] = t]
        BY <2>2, <3>1
      <3>3. Len(highPrio') <= ChanBufferSize
        BY <2>1, <2>2, <3>1
      <3>4. Elements(highPrio') \subseteq Elements(highPrio)
        BY <2>2, <3>1
      <3> QED BY <2>1, <2>2, <3>1, <3>2, <3>3, <3>4
    <2>3. CASE lowPrio # <<>> /\ lowPrio' = Tail(lowPrio) /\ highPrio' = highPrio
                 /\ held' = [held EXCEPT ![p] = Head(lowPrio)]
      <3>1. /\ Head(lowPrio) \in Transactions
            /\ Tail(lowPrio) \in Seq(Transactions)
            /\ Len(Tail(lowPrio)) = Len(lowPrio) - 1
        BY <2>1, <2>3, TailFacts
      <3>2. \E t \in Transactions : held' = [held EXCEPT ![p] = t]
        BY <2>3, <3>1
      <3>3. Len(lowPrio') <= ChanBufferSize
        BY <2>1, <2>3, <3>1
      <3>4. Elements(highPrio') \subseteq Elements(highPrio)
        BY <2>3
      <3> QED BY <2>1, <2>3, <3>1, <3>2, <3>3, <3>4
    <2> QED BY <1>2, <2>2, <2>3
  <1>4. QueueTypeOK' /\ RetryTypeOK' /\ BreakerTypeOK' /\ BlockedOnError'
    BY <1>2, <1>3 DEF QueueTypeOK, RetryTypeOK, BreakerTypeOK, BlockedOnError,
         retryVars, breakVars, stopVars
  <1>5. PICK t \in Transactions : held' = [held EXCEPT ![p] = t]
    BY <1>3
  <1>6. t \in 0..TransactionLimit
    BY DEF Transactions
  <1>7. p \in Goroutines /\ "stop" \in Goroutines /\ Workers \subseteq Goroutines
          /\ Handlers \subseteq Goroutines
    BY DEF Goroutines, Handlers
  <1>8. ControlTypeOK'
    BY <1>1, <1>2, <1>5, <1>6, <1>7 DEF Goto, ControlTypeOK, Busy, stopVars
  <1>9. pc[p] = from /\ \A q \in Goroutines : pc'[q] = IF q = p THEN "check" ELSE pc[q]
    BY <1>1, <1>7 DEF Goto, ControlTypeOK
  <1>10. Handling'
    <2>1. \A q \in Handlers : pc'[q] \in Busy => held'[q] \in Transactions
      BY <1>5, <1>7, <1>9 DEF Handling, ControlTypeOK
    <2>2. pc'["stop"] \in {"offer", "join"} => ending' \in Workers
      BY <1>2, <1>7, <1>9 DEF Handling, stopVars
    <2>3. pc'["stop"] \in {"running", "stopRetry"} => \A w \in Workers : pc'[w] # "ended"
      BY <1>1, <1>7, <1>9 DEF Handling
    <2>4. \A w \in cancelled' : pc'[w] = "ended" \/ (pc'["stop"] = "join" /\ ending' = w)
      BY <1>1, <1>2, <1>7, <1>9 DEF Handling, ControlTypeOK, stopVars
    <2>5. pc'["stop"] = "stopped" => \A w \in Workers : pc'[w] = "ended"
      BY <1>1, <1>7, <1>9 DEF Handling
    <2> QED BY <2>1, <2>2, <2>3, <2>4, <2>5 DEF Handling
  <1>11. Purging'
    BY <1>1, <1>2, <1>3, <1>7, <1>9 DEF Purging, stopVars
  <1> QED BY <1>4, <1>8, <1>10, <1>11

\* A worker that finds nothing new, and a block that runs out.
LEMMA IdleIInv ==
  ASSUME IInv,
         \/ \E w \in Workers : NothingNew(w)
         \/ \E e \in Endpoints : BlockExpires(e)
  PROVE  IInv'
  <1> USE ForwarderAssumption DEF ForwarderAssumption, IInv, TypeOK
  <1>1. CASE \E w \in Workers : NothingNew(w)
    <2>1. PICK w \in Workers : NothingNew(w)
      BY <1>1
    <2>2. /\ pc[w] = "poll" /\ pc' = [pc EXCEPT ![w] = "wait"]
          /\ UNCHANGED <<created, submitting, queueVars, retryVars, held,
                         cancelled, stopVars, breakVars, outcome>>
      BY <2>1 DEF NothingNew, Goto
    <2>3. w \in Goroutines /\ "stop" \in Goroutines /\ Workers \subseteq Goroutines
            /\ Handlers \subseteq Goroutines /\ w # "stop"
      BY DEF Goroutines, Handlers
    <2>4. \A q \in Goroutines : pc'[q] = IF q = w THEN "wait" ELSE pc[q]
      BY <2>2, <2>3 DEF ControlTypeOK
    <2>5. QueueTypeOK' /\ RetryTypeOK' /\ BreakerTypeOK' /\ BlockedOnError'
      BY <2>2 DEF QueueTypeOK, RetryTypeOK, BreakerTypeOK, BlockedOnError,
           queueVars, retryVars, breakVars, stopVars
    <2>6. ControlTypeOK'
      BY <2>2, <2>3 DEF ControlTypeOK, stopVars
    <2>7. Handling'
      BY <2>2, <2>3, <2>4 DEF Handling, Busy, ControlTypeOK, stopVars
    <2>8. Purging'
      BY <2>2, <2>3, <2>4 DEF Purging, Elements, queueVars, stopVars
    <2> QED BY <2>5, <2>6, <2>7, <2>8
  <1>2. CASE \E e \in Endpoints : BlockExpires(e)
    <2>1. QueueTypeOK' /\ RetryTypeOK' /\ ControlTypeOK'
      BY <1>2 DEF BlockExpires, QueueTypeOK, RetryTypeOK, ControlTypeOK,
           queueVars, retryVars, stopVars
    <2>2. BreakerTypeOK' /\ BlockedOnError'
      BY <1>2 DEF BlockExpires, BreakerTypeOK, BlockedOnError, stopVars
    <2>3. Handling' /\ Purging'
      BY <1>2 DEF BlockExpires, Handling, Purging, Elements, queueVars, stopVars
    <2> QED BY <2>1, <2>2, <2>3
  <1> QED BY <1>1, <1>2

(***************************************************************************)
(* The steps of Stop.  Only Stop itself sets early, from highPrio, and     *)
(* only a purge that found highPrio empty lets it go on after a worker.    *)
(***************************************************************************)
LEMMA StopIInv ==
  ASSUME IInv,
         \/ Stop \/ StopRetry \/ (\E w \in Workers : StopWorker(w))
         \/ ReceiveStop \/ Join \/ PurgeEnds \/ CloseChannels \/ StopTimeout
  PROVE  IInv'
  <1> USE ForwarderAssumption DEF ForwarderAssumption, IInv, TypeOK
  <1>1. "stop" \in Goroutines /\ "retry" \in Goroutines
          /\ Workers \subseteq Goroutines /\ Handlers \subseteq Goroutines
          /\ "stop" \notin Workers /\ "retry" \notin Handlers
    BY DEF Goroutines, Handlers
  <1>2. CASE Stop
    <2>1. QueueTypeOK' /\ RetryTypeOK'
      BY <1>2 DEF Stop, QueueTypeOK, RetryTypeOK, queueVars, retryVars
    <2>2. ControlTypeOK'
      BY <1>1, <1>2 DEF Stop, Goto, ControlTypeOK
    <2>3. Elements(highPrio) \subseteq Transactions
      BY DEF Elements, QueueTypeOK
    <2>4. BreakerTypeOK' /\ BlockedOnError'
      BY <1>2, <2>3 DEF Stop, BreakerTypeOK, BlockedOnError, breakVars
    <2>5. pc["stop"] = "running"
            /\ \A q \in Goroutines : pc'[q] = IF q = "stop" THEN "stopRetry" ELSE pc[q]
      BY <1>1, <1>2 DEF Stop, Goto, ControlTypeOK
    <2>6. Handling'
      BY <1>1, <1>2, <2>5 DEF Stop, Handling, Busy, ControlTypeOK
    <2>7. Purging'
      BY <1>1, <1>2, <2>5 DEF Stop, Purging, Elements, queueVars
    <2> QED BY <2>1, <2>2, <2>4, <2>6, <2>7
  <1>3. CASE StopRetry \/ (\E w \in Workers : StopWorker(w)) \/ ReceiveStop \/ Join
               \/ PurgeEnds
    <2>1. UNCHANGED <<created, submitting, queueVars, retryVars, held,
                      internalState, channels, early, breakVars, outcome>>
      BY <1>3 DEF StopRetry, StopWorker, ReceiveStop, Join, PurgeEnds,
           LeavePurge, stopVars
    <2>2. QueueTypeOK' /\ RetryTypeOK' /\ BreakerTypeOK' /\ BlockedOnError'
      BY <2>1 DEF QueueTypeOK, RetryTypeOK, BreakerTypeOK, BlockedOnError,
           queueVars, retryVars, breakVars
    <2>3. highPrio' = highPrio /\ Elements(highPrio') = Elements(highPrio)
      BY <2>1 DEF queueVars, Elements
    <2>4. CASE StopRetry
      <3>1. ControlTypeOK'
        BY <1>1, <2>4 DEF StopRetry, ControlTypeOK, stopVars
      <3>2. pc["stop"] = "stopRetry" /\ pc'["stop"] = "next"
              /\ \A w \in Workers : pc'[w] = pc[w]
        BY <1>1, <2>4 DEF StopRetry, ControlTypeOK, Handlers
      <3>3. Handling'
        BY <1>1, <2>4, <3>2 DEF StopRetry, Handling, Handlers, Busy,
             ControlTypeOK, stopVars
      <3>4. Purging'
        BY <1>1, <2>1, <2>3, <3>2 DEF Purging, Handling
      <3> QED BY <2>2, <3>1, <3>3, <3>4
    <2>5. CASE \E w \in Workers : StopWorker(w)
      <3>1. PICK w \in Workers : StopWorker(w)
        BY <2>5
      <3>2. pc["stop"] = "next" /\ pc' = [pc EXCEPT !["stop"] = "offer"]
              /\ ending' = w /\ cancelled' = cancelled
        BY <3>1 DEF StopWorker, Goto
      <3>3. ControlTypeOK'
        BY <1>1, <2>1, <3>2 DEF ControlTypeOK
      <3>4. \A q \in Goroutines : pc'[q] = IF q = "stop" THEN "offer" ELSE pc[q]
        BY <1>1, <3>2 DEF ControlTypeOK
      <3>5. Handling'
        BY <1>1, <2>1, <3>2, <3>4 DEF Handling, Busy, ControlTypeOK
      <3>6. Purging'
        BY <1>1, <2>1, <2>3, <3>2, <3>4 DEF Purging
      <3> QED BY <2>2, <3>3, <3>5, <3>6
    <2>6. CASE ReceiveStop
      <3>1. pc["stop"] = "offer" /\ ending \in Workers /\ ending' = ending
              /\ cancelled' \in {cancelled, cancelled \cup {ending}}
        BY <2>6 DEF ReceiveStop, Handling, stopVars
      <3>2. pc' \in {[pc EXCEPT !["stop"] = "join", ![ending] = "ended"],
                     [pc EXCEPT !["stop"] = "join"]}
        BY <2>6 DEF ReceiveStop
      <3>3. ControlTypeOK'
        BY <1>1, <2>1, <3>1, <3>2 DEF ControlTypeOK
      <3>4. pc'["stop"] = "join"
              /\ \A w \in Workers : pc'[w] = pc[w] \/ (w = ending /\ pc'[w] = "ended")
        BY <1>1, <3>1, <3>2 DEF ControlTypeOK
      <3>5. Handling'
        BY <1>1, <2>1, <3>1, <3>4 DEF Handling, Handlers, Busy, ControlTypeOK
      <3>6. Purging'
        BY <2>1, <2>3, <3>4 DEF Purging
      <3> QED BY <2>2, <3>3, <3>5, <3>6
    <2>7. CASE Join \/ PurgeEnds
      <3>1. PICK to \in {"purge", "next"} :
              /\ pc' = [pc EXCEPT !["stop"] = to]
              /\ pc["stop"] \in {"join", "purge"}
              /\ pc["stop"] = "join" => pc[ending] = "ended"
              /\ PurgeHighPrio /\ to = "next" => highPrio = <<>>
              /\ ending' = ending /\ cancelled' = cancelled
        BY <2>7 DEF Join, PurgeEnds, LeavePurge, Goto, stopVars
      <3>2. ControlTypeOK'
        BY <1>1, <2>1, <3>1 DEF ControlTypeOK
      <3>3. \A q \in Goroutines : pc'[q] = IF q = "stop" THEN to ELSE pc[q]
        BY <1>1, <3>1 DEF ControlTypeOK
      <3>4. Handling'
        BY <1>1, <2>1, <3>1, <3>3 DEF Handling, Busy, ControlTypeOK
      <3>5. highPrio = <<>> => Elements(highPrio) = {}
        BY DEF Elements
      <3>6. Purging'
        BY <1>1, <2>1, <2>3, <3>1, <3>3, <3>5 DEF Purging
      <3> QED BY <2>2, <3>2, <3>4, <3>6
    <2> QED BY <1>3, <2>4, <2>5, <2>6, <2>7
  <1>4. CASE CloseChannels
    <2>1. QueueTypeOK'
      BY <1>4 DEF CloseChannels, QueueTypeOK, queueVars
    <2>2. <<>> \in Seq(Transactions)
      OBVIOUS
    <2>3. RetryTypeOK'
      BY <1>4, <2>2 DEF CloseChannels, RetryTypeOK
    <2>4. ControlTypeOK'
      BY <1>1, <1>4 DEF CloseChannels, Goto, ControlTypeOK
    <2>5. BreakerTypeOK' /\ BlockedOnError'
      BY <1>4 DEF CloseChannels, BreakerTypeOK, BlockedOnError, Outcomes, breakVars
    <2>6. pc["stop"] = "next" /\ (\A w \in Workers : pc[w] = "ended")
            /\ \A q \in Goroutines : pc'[q] = IF q = "stop" THEN "stopped" ELSE pc[q]
      BY <1>1, <1>4 DEF CloseChannels, Goto, ControlTypeOK
    <2>7. Handling'
      BY <1>1, <1>4, <2>6 DEF CloseChannels, Handling, Busy, ControlTypeOK
    <2>8. Purging'
      BY <1>1, <1>4, <2>6 DEF CloseChannels, Purging, Elements, queueVars
    <2> QED BY <2>1, <2>3, <2>4, <2>5, <2>7, <2>8
  <1>5. CASE StopTimeout
    <2>1. QueueTypeOK' /\ RetryTypeOK' /\ ControlTypeOK'
      BY <1>5 DEF StopTimeout, QueueTypeOK, RetryTypeOK, ControlTypeOK,
           queueVars, retryVars
    <2>2. BreakerTypeOK' /\ BlockedOnError'
      BY <1>5 DEF StopTimeout, BreakerTypeOK, BlockedOnError, breakVars
    <2>3. Handling' /\ Purging'
      BY <1>5 DEF StopTimeout, Handling, Purging, Elements, queueVars
    <2> QED BY <2>1, <2>2, <2>3
  <1> QED BY <1>2, <1>3, <1>4, <1>5

\* Every step keeps the inductive invariant.
LEMMA NextIInv == IInv /\ [Next]_vars => IInv'
  <1> SUFFICES ASSUME IInv, [Next]_vars PROVE IInv'
    OBVIOUS
  <1>1. CASE UNCHANGED vars
    BY <1>1 DEF IInv, TypeOK, QueueTypeOK, RetryTypeOK, ControlTypeOK,
         BreakerTypeOK, BlockedOnError, Handling, Purging, Elements, vars,
         queueVars, retryVars, breakVars, stopVars
  <1>2. ASSUME NEW w \in Workers, Worker(w) PROVE IInv'
    <2>1. w \in Handlers
      BY DEF Handlers
    <2>2. CASE NothingNew(w)
      BY <2>2, IdleIInv
    <2>3. CASE Process(w)
      BY <2>1, <2>3, ProcessIInv
    <2>4. CASE TakeHighPrio(w, "poll") \/ TakeHighPrio(w, "wait") \/ TakeLowPrio(w)
      BY <2>1, <2>4, ReceiveIInv
    <2> QED BY <1>2, <2>2, <2>3, <2>4 DEF Worker
  <1>3. CASE Stopping
    <2>1. "stop" \in Handlers
      BY DEF Handlers
    <2>2. CASE Process("stop")
      BY <2>1, <2>2, ProcessIInv
    <2>3. CASE TakeHighPrio("stop", "purge")
      BY <2>1, <2>3, ReceiveIInv
    <2> QED BY <1>3, <2>2, <2>3, StopIInv DEF Stopping
  <1> QED BY <1>1, <1>2, <1>3, SubmitIInv, RetryIInv, StopIInv, IdleIInv DEF Next

\* The inductive invariant holds in every reachable state.
LEMMA Invariance == Spec => []IInv
  BY InitIInv, NextIInv, PTL DEF Spec

(***************************************************************************)
(* TypeCorrect: every variable keeps its type; no step, with Stop and the  *)
(* workers racing, overfills a channel or counts beyond maxErrors.         *)
(***************************************************************************)
THEOREM TypeCorrect == Spec => []TypeOK
  <1>1. IInv => TypeOK
    BY DEF IInv
  <1> QED BY <1>1, Invariance, PTL

(***************************************************************************)
(* BreakerSound: whatever the workers report, in whatever order, an        *)
(* endpoint is blocked only while errors are counted against it.           *)
(***************************************************************************)
THEOREM BreakerSound == Spec => []BlockedOnError
  <1>1. IInv => BlockedOnError
    BY DEF IInv
  <1> QED BY <1>1, Invariance, PTL

(***************************************************************************)
(* PurgeComplete: a Stop that purges leaves none of the transactions in    *)
(* highPrio that were there when it was called.                            *)
(***************************************************************************)
THEOREM PurgeComplete == Spec => []PurgeServesEarly
  <1>1. IInv => PurgeServesEarly
    BY ForwarderAssumption DEF ForwarderAssumption, IInv, Handling, Purging,
         PurgeServesEarly
  <1> QED BY <1>1, Invariance, PTL

-----------------------------------------------------------------------------
(***************************************************************************)
(* Counting a transaction in the channels, the queues and the hands.       *)
(***************************************************************************)
Is(x, t) == IF x = t THEN 1 ELSE 0

\* A queue has a transaction a finite number of times, and has those that
\* it has more than zero times.
LEMMA CountType ==
  ASSUME NEW s \in Seq(Transactions), NEW t
  PROVE  /\ IsFiniteSet({i \in 1..Len(s) : s[i] = t})
         /\ Count(s, t) \in Nat
         /\ t \in Elements(s) <=> Count(s, t) > 0
  <1> DEFINE S == {i \in 1..Len(s) : s[i] = t}
  <1>1. IsFiniteSet(1..Len(s))
    BY FS_Interval
  <1>2. IsFiniteSet(S)
    BY <1>1, FS_Subset
  <1>3. Cardinality(S) \in Nat /\ (Cardinality(S) = 0 <=> S = {})
    BY <1>2, FS_CardinalityType, FS_EmptySet
  <1>4. t \in Elements(s) <=> S # {}
    BY DEF Elements
  <1> QED BY <1>2, <1>3, <1>4 DEF Count

\* An empty queue has none.
LEMMA CountEmpty == \A t : Count(<<>>, t) = 0
  <1> SUFFICES ASSUME NEW t PROVE Count(<<>>, t) = 0
    OBVIOUS
  <1>1. {i \in 1..Len(<<>>) : (<<>>)[i] = t} = {}
    OBVIOUS
  <1> QED BY <1>1, FS_EmptySet DEF Count

\* Appending a transaction adds one of it.
LEMMA CountAppend ==
  ASSUME NEW s \in Seq(Transactions), NEW e \in Transactions, NEW t
  PROVE  Count(Append(s, e), t) = Count(s, t) + Is(e, t)
  <1> DEFINE S == {i \in 1..Len(s) : s[i] = t}
             T == {i \in 1..Len(Append(s, e)) : Append(s, e)[i] = t}
  <1>1. IsFiniteSet(S) /\ Cardinality(S) \in Nat
    BY CountType DEF Count
  <1>2. /\ Len(Append(s, e)) = Len(s) + 1 /\ Len(s) \in Nat
        /\ \A i \in 1..Len(s) : Append(s, e)[i] = s[i]
        /\ Append(s, e)[Len(s) + 1] = e
    OBVIOUS
  <1>3. Len(s) + 1 \notin S
    BY <1>2
  <1>4. Cardinality(T) = Cardinality(S) + Is(e, t)
    <2>1. CASE e = t
      <3>1. T = S \cup {Len(s) + 1}
        BY <1>2, <2>1
      <3>2. Cardinality(T) = Cardinality(S) + 1
        BY <1>1, <1>3, <3>1, FS_AddElement
      <3> QED BY <2>1, <3>2 DEF Is
    <2>2. CASE e # t
      <3>1. T = S
        BY <1>2, <2>2
      <3> HIDE DEF S, T
      <3> QED BY <1>1, <2>2, <3>1 DEF Is
    <2> QED BY <2>1, <2>2
  <1> QED BY <1>4 DEF Count

\* Taking out the one at place i takes one of it.
LEMMA CountLess ==
  ASSUME NEW s \in Seq(Transactions), NEW i \in 1..Len(s), NEW r \in Seq(Transactions),
         Len(r) = Len(s) - 1,
         \A j \in 1..Len(r) : r[j] = IF j < i THEN s[j] ELSE s[j + 1],
         NEW t
  PROVE  Count(s, t) = Count(r, t) + Is(s[i], t)
  <1> DEFINE S == {j \in 1..Len(s) : s[j] = t}
             R == {j \in 1..Len(r) : r[j] = t}
             f == [j \in R |-> IF j < i THEN j ELSE j + 1]
  <1>1. IsFiniteSet(S) /\ Cardinality(S) \in Nat /\ IsFiniteSet(R) /\ Cardinality(R) \in Nat
    BY CountType DEF Count
  <1>2. f \in [R -> S \ {i}]
    OBVIOUS
  <1>3. \A j, k \in R : f[j] = f[k] => j = k
    OBVIOUS
  <1>4. \A k \in S \ {i} : \E j \in R : f[j] = k
    <2> SUFFICES ASSUME NEW k \in S \ {i} PROVE \E j \in R : f[j] = k
      OBVIOUS
    <2>3. k \in Nat /\ i \in Nat /\ k # i
      OBVIOUS
    <2>1. CASE k < i
      <3>1. k \in R /\ f[k] = k
        BY <2>1
      <3> QED BY <3>1
    <2>2. CASE k > i
      <3>1. k - 1 \in R /\ f[k - 1] = k
        BY <2>2
      <3> QED BY <3>1
    <2>4. k < i \/ k > i
      BY <2>3
    <2> QED BY <2>1, <2>2, <2>4
  <1> HIDE DEF f
  <1>5. ExistsBijection(R, S \ {i})
    <2>1. f \in Bijection(R, S \ {i})
      BY <1>2, <1>3, <1>4 DEF Bijection, Injection, Surjection, IsInjective
    <2> QED BY <2>1 DEF ExistsBijection
  <1>6. Cardinality(S \ {i}) = Cardinality(R)
    BY <1>1, <1>5, FS_Bijection
  <1>7. Cardinality(S \ {i}) = IF i \in S THEN Cardinality(S) - 1 ELSE Cardinality(S)
    BY <1>1, FS_RemoveElement
  <1>8. i \in S <=> s[i] = t
    OBVIOUS
  <1> HIDE DEF S, R
  <1>9. Cardinality(S) = Cardinality(R) + Is(s[i], t)
    BY <1>1, <1>6, <1>7, <1>8 DEF Is
  <1> QED BY <1>9 DEF Count, S, R

\* Receiving takes the head.
LEMMA CountTail ==
  ASSUME NEW s \in Seq(Transactions), s # <<>>, NEW t
  PROVE  Count(s, t) = Count(Tail(s), t) + Is(Head(s), t)
  <1>1. /\ Tail(s) \in Seq(Transactions) /\ Len(Tail(s)) = Len(s) - 1
        /\ 1 \in 1..Len(s) /\ Head(s) = s[1]
        /\ \A j \in 1..Len(Tail(s)) : Tail(s)[j] = IF j < 1 THEN s[j] ELSE s[j + 1]
    OBVIOUS
  <1>2. Count(s, t) = Count(Tail(s), t) + Is(s[1], t)
    BY <1>1, CountLess
  <1> QED BY <1>1, <1>2

\* A queue without one of its transactions, place by place.
LEMMA WithoutParts ==
  ASSUME NEW s \in Seq(Transactions), NEW i \in 1..Len(s)
  PROVE  /\ Len(Without(s, i)) = Len(s) - 1
         /\ \A j \in 1..(Len(s) - 1) : Without(s, i)[j] = IF j < i THEN s[j] ELSE s[j + 1]
  <1> DEFINE a == SubSeq(s, 1, i - 1)
             b == SubSeq(s, i + 1, Len(s))
  <1>1. a \in Seq(Transactions) /\ Len(a) = i - 1 /\ \A j \in 1..(i - 1) : a[j] = s[j]
    OBVIOUS
  <1>2. /\ b \in Seq(Transactions) /\ Len(b) = Len(s) - i
        /\ \A j \in 1..(Len(s) - i) : b[j] = s[i + j]
    OBVIOUS
  <1>3. Without(s, i) = a \o b
    BY DEF Without
  <1> HIDE DEF a, b
  <1>4. /\ Len(a \o b) = Len(a) + Len(b)
        /\ \A j \in 1..(Len(a) + Len(b)) :
             (a \o b)[j] = IF j <= Len(a) THEN a[j] ELSE b[j - Len(a)]
    BY <1>1, <1>2, ConcatProperties
  <1>5. Len(a) + Len(b) = Len(s) - 1
    BY <1>1, <1>2
  <1>6. ASSUME NEW j \in 1..(Len(s) - 1)
        PROVE  (a \o b)[j] = IF j < i THEN s[j] ELSE s[j + 1]
    <2>1. CASE j < i
      BY <1>1, <1>4, <1>5, <2>1
    <2>2. CASE j >= i
      <3>1. j - Len(a) \in 1..(Len(s) - i) /\ i + (j - Len(a)) = j + 1 /\ ~(j <= Len(a))
        BY <1>1, <2>2
      <3> QED BY <1>2, <1>4, <1>5, <2>2, <3>1
    <2>3. j \in Nat /\ i \in Nat
      OBVIOUS
    <2>4. j < i \/ j >= i
      BY <2>3
    <2> QED BY <2>1, <2>2, <2>4
  <1> QED BY <1>3, <1>4, <1>5, <1>6

\* Taking one out of the queue that is being retried.
LEMMA CountWithout ==
  ASSUME NEW s \in Seq(Transactions), NEW i \in 1..Len(s), NEW t
  PROVE  Count(s, t) = Count(Without(s, i), t) + Is(s[i], t)
  <1>1. Without(s, i) \in Seq(Transactions)
    BY WithoutType
  <1>2. PICK r : r = Without(s, i)
    OBVIOUS
  <1>3. /\ r \in Seq(Transactions) /\ Len(r) = Len(s) - 1
        /\ \A j \in 1..(Len(s) - 1) : r[j] = IF j < i THEN s[j] ELSE s[j + 1]
    BY <1>1, <1>2, WithoutParts
  <1>4. \A j \in 1..Len(r) : r[j] = IF j < i THEN s[j] ELSE s[j + 1]
    BY <1>3
  <1>5. Count(s, t) = Count(r, t) + Is(s[i], t)
    BY <1>3, <1>4, CountLess
  <1> QED BY <1>2, <1>5

\* Finitely many goroutines have a transaction in hand.
LEMMA HandsType ==
  ASSUME IInv, NEW t
  PROVE  /\ IsFiniteSet(HeldBy(t)) /\ Cardinality(HeldBy(t)) \in Nat
         /\ \A p \in HeldBy(t) : Cardinality(HeldBy(t)) > 0
  <1>1. IsFiniteSet(Handlers)
    BY ForwarderAssumption, FS_AddElement DEF ForwarderAssumption, Handlers
  <1>2. IsFiniteSet(HeldBy(t))
    BY <1>1, FS_Subset DEF HeldBy
  <1>3. Cardinality(HeldBy(t)) \in Nat /\ (Cardinality(HeldBy(t)) = 0 <=> HeldBy(t) = {})
    BY <1>2, FS_CardinalityType, FS_EmptySet
  <1> QED BY <1>2, <1>3

\* A goroutine that has nothing takes a transaction.
LEMMA HandsTake ==
  ASSUME IInv, NEW p \in Handlers, held[p] = 0, NEW u \in Transactions,
         held' = [held EXCEPT ![p] = u], NEW t \in Transactions
  PROVE  Cardinality(HeldBy(t)') = Cardinality(HeldBy(t)) + Is(u, t)
  <1>1. held \in [Handlers -> 0..TransactionLimit] /\ t # 0
    BY DEF IInv, TypeOK, ControlTypeOK, Transactions
  <1>2. HeldBy(t)' = IF u = t THEN HeldBy(t) \cup {p} ELSE HeldBy(t)
    BY <1>1 DEF HeldBy
  <1>3. p \notin HeldBy(t)
    BY <1>1 DEF HeldBy
  <1>4. IsFiniteSet(HeldBy(t)) /\ Cardinality(HeldBy(t)) \in Nat
    BY HandsType
  <1>5. Cardinality(HeldBy(t) \cup {p}) = Cardinality(HeldBy(t)) + 1
    BY <1>3, <1>4, FS_AddElement
  <1> QED BY <1>2, <1>4, <1>5 DEF Is

\* A goroutine gives away what it has.
LEMMA HandsGive ==
  ASSUME IInv, NEW p \in Handlers, held[p] \in Transactions,
         held' = [held EXCEPT ![p] = 0], NEW t \in Transactions
  PROVE  Cardinality(HeldBy(t)) = Cardinality(HeldBy(t)') + Is(held[p], t)
  <1>1. held \in [Handlers -> 0..TransactionLimit] /\ t # 0
    BY DEF IInv, TypeOK, ControlTypeOK, Transactions
  <1>2. HeldBy(t)' = HeldBy(t) \ {p}
    BY <1>1 DEF HeldBy
  <1>3. p \in HeldBy(t) <=> held[p] = t
    BY <1>1 DEF HeldBy
  <1>4. IsFiniteSet(HeldBy(t)) /\ Cardinality(HeldBy(t)) \in Nat
    BY HandsType
  <1>5. Cardinality(HeldBy(t) \ {p})
          = IF p \in HeldBy(t) THEN Cardinality(HeldBy(t)) - 1 ELSE Cardinality(HeldBy(t))
    BY <1>4, FS_RemoveElement
  <1> QED BY <1>2, <1>3, <1>4, <1>5 DEF Is

-----------------------------------------------------------------------------
(***************************************************************************)
(* Every transaction has one place.                                        *)
(***************************************************************************)
Submits(t) == IF t \in submitting THEN 1 ELSE 0
Ended(t)   == IF outcome[t] = "none" THEN 0 ELSE 1

\* The terms of the sum are numbers, and the sum is 0 or 1.
LEMMA PlaceParts ==
  ASSUME IInv, OnePlace, NEW t \in Transactions
  PROVE  /\ Submits(t) \in Nat /\ Ended(t) \in Nat /\ Cardinality(HeldBy(t)) \in Nat
         /\ Count(highPrio, t) \in Nat /\ Count(lowPrio, t) \in Nat
         /\ Count(requeued, t) \in Nat /\ Count(retryQueue, t) \in Nat
         /\ Count(retrying, t) \in Nat /\ Count(newQueue, t) \in Nat
         /\ Submits(t) + Count(highPrio, t) + Count(lowPrio, t) + Count(requeued, t)
              + Count(retryQueue, t) + Count(retrying, t) + Count(newQueue, t)
              + Cardinality(HeldBy(t)) + Ended(t) = IF t <= created THEN 1 ELSE 0
  <1>1. Submits(t) \in Nat /\ Ended(t) \in Nat
    BY DEF Submits, Ended
  <1>2. Cardinality(HeldBy(t)) \in Nat
    BY HandsType
  <1>3. /\ highPrio \in Seq(Transactions) /\ lowPrio \in Seq(Transactions)
        /\ requeued \in Seq(Transactions) /\ retryQueue \in Seq(Transactions)
        /\ retrying \in Seq(Transactions) /\ newQueue \in Seq(Transactions)
    BY DEF IInv, TypeOK, QueueTypeOK, RetryTypeOK
  <1>4. /\ Count(highPrio, t) \in Nat /\ Count(lowPrio, t) \in Nat
        /\ Count(requeued, t) \in Nat /\ Count(retryQueue, t) \in Nat
        /\ Count(retrying, t) \in Nat /\ Count(newQueue, t) \in Nat
    BY <1>3, CountType
  <1> QED BY <1>1, <1>2, <1>4 DEF OnePlace, Places, Submits, Ended

\* A transaction that is in one place is in no other.
LEMMA Elsewhere ==
  ASSUME IInv, OnePlace, NEW t \in Transactions
  PROVE  /\ ~(t <= created) => Submits(t) = 0 /\ Ended(t) = 0
         /\ \/ Submits(t) > 0 \/ Count(retryQueue, t) > 0 \/ Count(retrying, t) > 0
            \/ Cardinality(HeldBy(t)) > 0
            => Ended(t) = 0
         /\ Count(retryQueue, t) <= 1 /\ Count(retrying, t) <= 1
         /\ Count(retrying, t) > 0 => Count(newQueue, t) = 0
  <1> DEFINE n == IF t <= created THEN 1 ELSE 0
  <1>1. n \in {0, 1} /\ (~(t <= created) => n = 0)
    OBVIOUS
  <1>2. /\ Submits(t) \in Nat /\ Ended(t) \in Nat /\ Cardinality(HeldBy(t)) \in Nat
        /\ Count(highPrio, t) \in Nat /\ Count(lowPrio, t) \in Nat
        /\ Count(requeued, t) \in Nat /\ Count(retryQueue, t) \in Nat
        /\ Count(retrying, t) \in Nat /\ Count(newQueue, t) \in Nat
        /\ Submits(t) + Count(highPrio, t) + Count(lowPrio, t) + Count(requeued, t)
             + Count(retryQueue, t) + Count(retrying, t) + Count(newQueue, t)
             + Cardinality(HeldBy(t)) + Ended(t) = n
    BY PlaceParts
  <1> DEFINE a == Submits(t)
             b == Count(highPrio, t)
             c == Count(lowPrio, t)
             d == Count(requeued, t)
             e == Count(retryQueue, t)
             f == Count(retrying, t)
             g == Count(newQueue, t)
             h == Cardinality(HeldBy(t))
             i == Ended(t)
  <1>3. /\ a \in Nat /\ b \in Nat /\ c \in Nat /\ d \in Nat /\ e \in Nat
        /\ f \in Nat /\ g \in Nat /\ h \in Nat /\ i \in Nat
        /\ a + b + c + d + e + f + g + h + i = n
    BY <1>2
  <1> HIDE DEF a, b, c, d, e, f, g, h, i, n
  <1>4. /\ n = 0 => a = 0 /\ i = 0
        /\ a > 0 \/ e > 0 \/ f > 0 \/ h > 0 => i = 0
        /\ e <= 1 /\ f <= 1 /\ (f > 0 => g = 0)
    BY <1>1, <1>3
  <1> QED BY <1>1, <1>4 DEF a, e, f, g, h, i

\* What has to be shown of a step: the sum stays, or one more exists.
LEMMA PlacesNext ==
  ASSUME \A t \in Transactions :
           Submits(t)' + Count(highPrio', t) + Count(lowPrio', t) + Count(requeued', t)
             + Count(retryQueue', t) + Count(retrying', t) + Count(newQueue', t)
             + Cardinality(HeldBy(t)') + Ended(t)' = IF t <= created' THEN 1 ELSE 0
  PROVE  OnePlace'
  BY DEF OnePlace, Places, Submits, Ended

\* A transaction that is somewhere has not ended, so that it ends once.
LEMMA EndsOnce ==
  ASSUME IInv, OnePlace, NEW u \in Transactions, Ended(u) = 0,
         NEW how, how # "none", outcome' = [outcome EXCEPT ![u] = how],
         NEW t \in Transactions
  PROVE  Ended(t)' = Ended(t) + Is(u, t)
  <1>1. outcome \in [Transactions -> Outcomes] /\ outcome[u] = "none"
    BY DEF IInv, TypeOK, BreakerTypeOK, Ended
  <1> QED BY <1>1 DEF Ended, Is

\* The initial state.
LEMMA InitAccounted == Init => Accounted
  <1> SUFFICES ASSUME Init PROVE Accounted
    OBVIOUS
  <1> USE ForwarderAssumption DEF ForwarderAssumption
  <1>1. \A t \in Transactions : HeldBy(t) = {} /\ ~(t <= 0)
    BY DEF Init, HeldBy, Transactions
  <1>2. \A t \in Transactions : Places(t) = 0
    <2> SUFFICES ASSUME NEW t \in Transactions PROVE Places(t) = 0
      OBVIOUS
    <2>1. Count(<<>>, t) = 0
      BY CountEmpty
    <2>2. Cardinality(HeldBy(t)) = 0
      BY <1>1, FS_EmptySet
    <2>3. outcome[t] = "none" /\ t \notin submitting
      BY DEF Init
    <2> QED BY <2>1, <2>2, <2>3 DEF Init, Places
  <1>3. OnePlace
    BY <1>1, <1>2 DEF OnePlace, Init
  <1>4. EmptyHands /\ RetryPhases
    BY DEF Init, EmptyHands, RetryPhases
  <1>5. NewestFirst /\ LimitDropsOldest
    BY DEF Init, NewestFirst, LimitDropsOldest, Elements
  <1> QED BY <1>3, <1>4, <1>5 DEF Accounted

\* The retry goroutine does nothing.
LEMMA RetryIdle ==
  ASSUME Accounted, UNCHANGED retryVars, pc'["retry"] = "retry" <=> pc["retry"] = "retry"
  PROVE  RetryPhases' /\ NewestFirst' /\ LimitDropsOldest'
  BY DEF Accounted, RetryPhases, NewestFirst, LimitDropsOldest, retryVars, Elements

\* A goroutine that handles goes to another place in its code.
LEMMA HandsNext ==
  ASSUME IInv, Accounted, NEW p \in Handlers, NEW from, NEW to, Goto(p, from, to),
         NEW x, held' = [held EXCEPT ![p] = x],
         to \notin Busy => x = 0
  PROVE  /\ EmptyHands'
         /\ pc'["retry"] = "retry" <=> pc["retry"] = "retry"
  <1>1. /\ held \in [Handlers -> 0..TransactionLimit] /\ DOMAIN pc = Goroutines
        /\ p \in Goroutines /\ p # "retry"
    BY ForwarderAssumption DEF ForwarderAssumption, IInv, TypeOK, ControlTypeOK,
       Goroutines, Handlers
  <1>2. \A q \in Handlers : q \in Goroutines /\ pc'[q] = (IF q = p THEN to ELSE pc[q])
    BY <1>1 DEF Goto, Goroutines, IInv, TypeOK, ControlTypeOK
  <1>3. EmptyHands'
    BY <1>1, <1>2 DEF Accounted, EmptyHands
  <1>4. pc'["retry"] = pc["retry"]
    BY <1>1 DEF Goto, Goroutines, IInv, TypeOK, ControlTypeOK
  <1> QED BY <1>3, <1>4

\* Submissions.
LEMMA SubmitAccounted ==
  ASSUME IInv, Accounted, Submit \/ \E t \in submitting : SendHTTPTransaction(t)
  PROVE  Accounted'
  <1> USE ForwarderAssumption DEF ForwarderAssumption
  <1>1. UNCHANGED <<lowPrio, requeued, retryVars, held, pc>>
    BY DEF Submit, SendHTTPTransaction, queueVars
  <1>2. EmptyHands' /\ RetryPhases' /\ NewestFirst' /\ LimitDropsOldest'
    BY <1>1, RetryIdle DEF Accounted, EmptyHands
  <1>3. OnePlace
    BY DEF Accounted
  <1>4. \A t \in Transactions : HeldBy(t)' = HeldBy(t)
    BY <1>1 DEF HeldBy
  <1>5. CASE Submit
    <2>1. created' \in Transactions /\ created' = created + 1 /\ created \in Nat
      BY <1>5 DEF Submit, IInv, TypeOK, QueueTypeOK, Transactions
    <2>2. Submits(created') = 0 /\ Ended(created') = 0
      <3>1. ~(created' <= created)
        BY <2>1
      <3> QED BY <1>3, <2>1, <3>1, Elsewhere
    <2>3. \A t \in Transactions :
            Submits(t)' + Ended(t)' = Submits(t) + Ended(t) + Is(created', t)
      <3> SUFFICES ASSUME NEW t \in Transactions
                   PROVE  Submits(t)' + Ended(t)' = Submits(t) + Ended(t) + Is(created', t)
        OBVIOUS
      <3>1. Submits(t) \in Nat /\ Ended(t) \in Nat
        BY DEF Submits, Ended
      <3>2. CASE submitting' = submitting \cup {created'} /\ UNCHANGED outcome
        <4>1. Ended(t)' = Ended(t)
          BY <3>2 DEF Ended
        <4>2. Submits(t)' = Submits(t) + Is(created', t)
          BY <2>2, <3>2 DEF Submits, Is
        <4> QED BY <3>1, <4>1, <4>2 DEF Is
      <3>3. CASE outcome' = [outcome EXCEPT ![created'] = "rejected"] /\ UNCHANGED submitting
        <4>1. Submits(t)' = Submits(t)
          BY <3>3 DEF Submits
        <4>2. Ended(t)' = Ended(t) + Is(created', t)
          BY <1>3, <2>1, <2>2, <3>3, EndsOnce
        <4> QED BY <3>1, <4>1, <4>2 DEF Is
      <3> QED BY <1>5, <3>2, <3>3 DEF Submit, Ends
    <2>4. \A t \in Transactions : t \in Nat
      BY DEF Transactions
    <2>5. UNCHANGED highPrio
      BY <1>5 DEF Submit, queueVars
    <2>6. OnePlace'
      <3> SUFFICES ASSUME NEW t \in Transactions
                   PROVE  Submits(t)' + Count(highPrio', t) + Count(lowPrio', t)
                            + Count(requeued', t) + Count(retryQueue', t) + Count(retrying', t)
                            + Count(newQueue', t) + Cardinality(HeldBy(t)') + Ended(t)'
                            = IF t <= created' THEN 1 ELSE 0
        BY PlacesNext
      <3>1. Submits(t)' \in Nat /\ Ended(t)' \in Nat
        BY DEF Submits, Ended
      <3>2. (t <= created' <=> t <= created \/ t = created') /\ (t = created' => ~(t <= created))
        BY <2>1, <2>4
      <3> QED BY <1>1, <1>3, <1>4, <2>3, <2>5, <3>1, <3>2, PlaceParts DEF retryVars, Is
    <2> QED BY <1>2, <2>6 DEF Accounted
  <1>6. CASE \E u \in submitting : SendHTTPTransaction(u)
    <2>1. PICK u \in submitting : SendHTTPTransaction(u)
      BY <1>6
    <2>2. u \in Transactions /\ UNCHANGED created /\ submitting' = submitting \ {u}
      BY <2>1 DEF SendHTTPTransaction, IInv, TypeOK, QueueTypeOK
    <2>3. Submits(u) = 1
      BY DEF Submits
    <2>4. Ended(u) = 0
      BY <1>3, <2>2, <2>3, Elsewhere
    <2>5. \A t \in Transactions :
            Count(highPrio', t) + Ended(t)' = Count(highPrio, t) + Ended(t) + Is(u, t)
      <3> SUFFICES ASSUME NEW t \in Transactions
                   PROVE  Count(highPrio', t) + Ended(t)' = Count(highPrio, t) + Ended(t) + Is(u, t)
        OBVIOUS
      <3>1. Count(highPrio, t) \in Nat /\ Ended(t) \in Nat
        BY <1>3, PlaceParts
      <3>2. CASE highPrio' = Append(highPrio, u) /\ UNCHANGED outcome
        <4>1. Ended(t)' = Ended(t)
          BY <3>2 DEF Ended
        <4>2. highPrio \in Seq(Transactions)
          BY DEF IInv, TypeOK, QueueTypeOK
        <4>3. Count(highPrio', t) = Count(highPrio, t) + Is(u, t)
          BY <2>2, <3>2, <4>2, CountAppend
        <4> QED BY <3>1, <4>1, <4>3 DEF Is
      <3>3. CASE /\ UNCHANGED highPrio
                 /\ \E how \in {"droppedOnInput", "panicked"} :
                      outcome' = [outcome EXCEPT ![u] = how]
        <4>1. Ended(t)' = Ended(t) + Is(u, t)
          BY <1>3, <2>2, <2>4, <3>3, EndsOnce
        <4> QED BY <3>1, <3>3, <4>1 DEF Is
      <3> QED BY <2>1, <3>2, <3>3 DEF SendHTTPTransaction, Ends
    <2>6. \A t \in Transactions : Submits(t) = Submits(t)' + Is(u, t)
      BY <2>2, <2>3 DEF Submits, Is
    <2>7. OnePlace'
      <3> SUFFICES ASSUME NEW t \in Transactions
                   PROVE  Submits(t)' + Count(highPrio', t) + Count(lowPrio', t)
                            + Count(requeued', t) + Count(retryQueue', t) + Count(retrying', t)
                            + Count(newQueue', t) + Cardinality(HeldBy(t)') + Ended(t)'
                            = IF t <= created' THEN 1 ELSE 0
        BY PlacesNext
      <3>1. Submits(t)' \in Nat /\ Ended(t)' \in Nat
        BY DEF Submits, Ended
      <3>2. Count(highPrio', t) = Count(highPrio, t) + Ended(t) + Is(u, t) - Ended(t)'
            /\ Is(u, t) \in Nat
        <4>1. Count(highPrio', t) \in Nat
          <5>1. highPrio \in Seq(Transactions)
            BY DEF IInv, TypeOK, QueueTypeOK
          <5>2. highPrio' \in Seq(Transactions)
            BY <2>1, <2>2, <5>1, AppendFacts DEF SendHTTPTransaction
          <5> QED BY <5>2, CountType
        <4>2. Count(highPrio, t) \in Nat /\ Ended(t) \in Nat
          BY <1>3, PlaceParts
        <4>3. Is(u, t) \in Nat
          BY DEF Is
        <4> QED BY <2>5, <3>1, <4>1, <4>2, <4>3
      <3> QED BY <1>1, <1>3, <1>4, <2>2, <2>6, <3>1, <3>2, PlaceParts DEF retryVars
    <2> QED BY <1>2, <2>7 DEF Accounted
  <1> QED BY <1>5, <1>6

\* After a step, too, the terms of the sum are numbers.
LEMMA NextParts ==
  ASSUME IInv', NEW t \in Transactions
  PROVE  /\ Submits(t)' \in Nat /\ Ended(t)' \in Nat /\ Cardinality(HeldBy(t)') \in Nat
         /\ Count(highPrio', t) \in Nat /\ Count(lowPrio', t) \in Nat
         /\ Count(requeued', t) \in Nat /\ Count(retryQueue', t) \in Nat
         /\ Count(retrying', t) \in Nat /\ Count(newQueue', t) \in Nat
  <1>1. Submits(t)' \in Nat /\ Ended(t)' \in Nat
    BY DEF Submits, Ended
  <1>2. Cardinality(HeldBy(t)') \in Nat
    <2>1. IsFiniteSet(Handlers)
      BY ForwarderAssumption, FS_AddElement DEF ForwarderAssumption, Handlers
    <2>2. IsFiniteSet(HeldBy(t)')
      BY <2>1, FS_Subset DEF HeldBy
    <2> QED BY <2>2, FS_CardinalityType
  <1>3. /\ highPrio' \in Seq(Transactions) /\ lowPrio' \in Seq(Transactions)
        /\ requeued' \in Seq(Transactions) /\ retryQueue' \in Seq(Transactions)
        /\ retrying' \in Seq(Transactions) /\ newQueue' \in Seq(Transactions)
    BY DEF IInv, TypeOK, QueueTypeOK, RetryTypeOK
  <1>4. /\ Count(highPrio', t) \in Nat /\ Count(lowPrio', t) \in Nat
        /\ Count(requeued', t) \in Nat /\ Count(retryQueue', t) \in Nat
        /\ Count(retrying', t) \in Nat /\ Count(newQueue', t) \in Nat
    BY <1>3, CountType
  <1> QED BY <1>1, <1>2, <1>4

(***************************************************************************)
(* A step that creates nothing and moves u from some places to others: the *)
(* channels and queues with the hands and the outcomes lose and gain u as  *)
(* often, in the part of the system the step is about.                     *)
(***************************************************************************)
Channelled(t) == Submits(t) + Count(highPrio, t) + Count(lowPrio, t)
Retried(t)    == Count(retryQueue, t) + Count(retrying, t) + Count(newQueue, t)
Handled(t)    == Count(requeued, t) + Cardinality(HeldBy(t)) + Ended(t)

LEMMA PlacesKept ==
  ASSUME IInv, IInv', OnePlace, UNCHANGED created,
         \A t \in Transactions :
           Channelled(t)' + Retried(t)' + Handled(t)' = Channelled(t) + Retried(t) + Handled(t)
  PROVE  OnePlace'
  <1> SUFFICES ASSUME NEW t \in Transactions
               PROVE  Submits(t)' + Count(highPrio', t) + Count(lowPrio', t)
                        + Count(requeued', t) + Count(retryQueue', t) + Count(retrying', t)
                        + Count(newQueue', t) + Cardinality(HeldBy(t)') + Ended(t)'
                        = IF t <= created' THEN 1 ELSE 0
    BY PlacesNext
  <1>1. Channelled(t)' + Retried(t)' + Handled(t)' = Channelled(t) + Retried(t) + Handled(t)
    OBVIOUS
  <1> QED BY <1>1, PlaceParts, NextParts DEF Channelled, Retried, Handled

\* Steps of process.
LEMMA ProcessAccounted ==
  ASSUME IInv, IInv', Accounted, NEW p \in Handlers, Process(p)
  PROVE  Accounted'
  <1>1. OnePlace
    BY DEF Accounted
  <1>2. UNCHANGED <<created, submitting, highPrio, lowPrio, retryVars>>
    BY DEF Process, Check, Succeed, Refuse, Cancel, Return, Fail, Requeue, queueVars
  <1>3. \A t \in Transactions : Channelled(t)' = Channelled(t) /\ Retried(t)' = Retried(t)
    BY <1>2 DEF Channelled, Retried, Submits, retryVars
  <1>4. held \in [Handlers -> 0..TransactionLimit]
    BY DEF IInv, TypeOK, ControlTypeOK
  <1>5. CASE Check(p) \/ Fail(p)
    <2>1. PICK from, to \in Busy : Goto(p, from, to)
      BY <1>5 DEF Check, Fail, Busy
    <2>2. held' = [held EXCEPT ![p] = held[p]] /\ UNCHANGED <<requeued, held, outcome>>
      BY <1>4, <1>5 DEF Check, Fail, queueVars
    <2>3. EmptyHands' /\ (pc'["retry"] = "retry" <=> pc["retry"] = "retry")
      BY <2>1, <2>2, HandsNext
    <2>4. \A t \in Transactions : Handled(t)' = Handled(t)
      BY <2>2 DEF Handled, HeldBy, Ended
    <2>5. OnePlace'
      BY <1>1, <1>2, <1>3, <2>4, PlacesKept
    <2> QED BY <1>2, <2>3, <2>5, RetryIdle DEF Accounted
  <1>6. CASE \/ \E how \in {"delivered", "dropped", "cancelled"} : Return(p, how)
             \/ Requeue(p)
    <2>1. PICK from \in Busy : /\ \E to : Goto(p, from, to)
                              /\ held' = [held EXCEPT ![p] = 0]
      BY <1>6 DEF Return, Requeue, Processed, Busy
    <2>2. EmptyHands' /\ (pc'["retry"] = "retry" <=> pc["retry"] = "retry")
      BY <2>1, HandsNext
    <2>3. held[p] \in Transactions
      BY <2>1 DEF Goto, IInv, Handling
    <2>4. PICK u \in Transactions : u = held[p]
      BY <2>3
    <2>5. Ended(u) = 0
      <3>1. p \in HeldBy(u)
        BY <2>4 DEF HeldBy
      <3> QED BY <1>1, <3>1, HandsType, Elsewhere
    <2>6. \/ /\ UNCHANGED requeued
             /\ \E how \in {"delivered", "dropped", "cancelled", "lost"} :
                  outcome' = [outcome EXCEPT ![u] = how]
          \/ requeued' = Append(requeued, u) /\ UNCHANGED outcome
      BY <1>6, <2>4 DEF Return, Requeue, Ends, queueVars
    <2>7. \A t \in Transactions : Handled(t)' = Handled(t)
      <3> SUFFICES ASSUME NEW t \in Transactions PROVE Handled(t)' = Handled(t)
        OBVIOUS
      <3>1. Cardinality(HeldBy(t)) = Cardinality(HeldBy(t)') + Is(u, t)
        BY <2>1, <2>3, <2>4, HandsGive
      <3>2. Count(requeued', t) + Ended(t)' = Count(requeued, t) + Ended(t) + Is(u, t)
        <4>1. CASE requeued' = Append(requeued, u) /\ UNCHANGED outcome
          <5>1. requeued \in Seq(Transactions)
            BY DEF IInv, TypeOK, QueueTypeOK
          <5>2. Count(requeued', t) = Count(requeued, t) + Is(u, t)
            BY <4>1, <5>1, CountAppend
          <5>3. Ended(t)' = Ended(t)
            BY <4>1 DEF Ended
          <5>4. Is(u, t) \in Nat
            BY DEF Is
          <5> QED BY <1>1, <5>2, <5>3, <5>4, PlaceParts
        <4>2. CASE UNCHANGED requeued /\ \E how \in {"delivered", "dropped", "cancelled", "lost"} :
                                           outcome' = [outcome EXCEPT ![u] = how]
          <5>1. Ended(t)' = Ended(t) + Is(u, t)
            BY <1>1, <2>5, <4>2, EndsOnce
          <5>2. Is(u, t) \in Nat
            BY DEF Is
          <5>3. Count(requeued, t) \in Nat /\ Ended(t) \in Nat
            BY <1>1, PlaceParts
          <5>4. Count(requeued', t) = Count(requeued, t)
            BY <4>2
          <5> QED BY <5>1, <5>2, <5>3, <5>4
        <4> QED BY <2>6, <4>1, <4>2
      <3>3. Is(u, t) \in Nat
        BY DEF Is
      <3>4. /\ Count(requeued, t) \in Nat /\ Ended(t) \in Nat
            /\ Cardinality(HeldBy(t)') \in Nat /\ Count(requeued', t) \in Nat
            /\ Ended(t)' \in Nat
        BY <1>1, PlaceParts, NextParts
      <3>5. Count(requeued', t) + Cardinality(HeldBy(t)') + Ended(t)'
              = Count(requeued, t) + Cardinality(HeldBy(t)) + Ended(t)
        BY <3>1, <3>2, <3>3, <3>4
      <3> QED BY <3>5 DEF Handled
    <2>8. OnePlace'
      BY <1>1, <1>2, <1>3, <2>7, PlacesKept
    <2> QED BY <1>2, <2>2, <2>8, RetryIdle DEF Accounted
  <1> QED BY <1>5, <1>6 DEF Process, Succeed, Refuse, Cancel

\* Taking a transaction from a channel.
LEMMA ReceiveAccounted ==
  ASSUME IInv, IInv', Accounted, NEW p \in Handlers,
         \/ TakeHighPrio(p, "poll") \/ TakeHighPrio(p, "wait")
         \/ TakeHighPrio(p, "purge") \/ TakeLowPrio(p)
  PROVE  Accounted'
  <1>1. OnePlace
    BY DEF Accounted
  <1>2. UNCHANGED <<created, submitting, requeued, retryVars, outcome>>
    BY DEF TakeHighPrio, ReceiveNew, TakeLowPrio
  <1>3. PICK from \in {"poll", "wait", "purge"} : Goto(p, from, "check")
    BY DEF TakeHighPrio, ReceiveNew, TakeLowPrio
  <1>4. held[p] = 0
    BY <1>3 DEF Goto, Accounted, EmptyHands, Busy
  <1>5. highPrio \in Seq(Transactions) /\ lowPrio \in Seq(Transactions)
    BY DEF IInv, TypeOK, QueueTypeOK
  <1>6. PICK u \in Transactions :
          /\ held' = [held EXCEPT ![p] = u]
          /\ \/ /\ highPrio # <<>> /\ highPrio' = Tail(highPrio) /\ lowPrio' = lowPrio
                /\ u = Head(highPrio)
             \/ /\ lowPrio # <<>> /\ lowPrio' = Tail(lowPrio) /\ highPrio' = highPrio
                /\ u = Head(lowPrio)
    <2>1. CASE TakeLowPrio(p)
      BY <1>5, <2>1, TailFacts DEF TakeLowPrio
    <2>2. CASE TakeHighPrio(p, "poll") \/ TakeHighPrio(p, "wait") \/ TakeHighPrio(p, "purge")
      BY <1>5, <2>2, TailFacts DEF TakeHighPrio, ReceiveNew
    <2> QED BY <2>1, <2>2
  <1>7. EmptyHands' /\ (pc'["retry"] = "retry" <=> pc["retry"] = "retry")
    <2>1. "check" \in Busy
      BY DEF Busy
    <2> QED BY <1>3, <1>6, <2>1, HandsNext
  <1>8. ASSUME NEW t \in Transactions
        PROVE  Channelled(t)' + Retried(t)' + Handled(t)' = Channelled(t) + Retried(t) + Handled(t)
    <2>1. Cardinality(HeldBy(t)') = Cardinality(HeldBy(t)) + Is(u, t)
      BY <1>4, <1>6, HandsTake
    <2>2. Count(highPrio, t) + Count(lowPrio, t) = Count(highPrio', t) + Count(lowPrio', t) + Is(u, t)
      <3>1. CASE highPrio # <<>> /\ highPrio' = Tail(highPrio) /\ lowPrio' = lowPrio
                   /\ u = Head(highPrio)
        <4>1. Count(highPrio, t) = Count(highPrio', t) + Is(u, t)
          BY <1>5, <3>1, CountTail
        <4>2. Count(highPrio', t) \in Nat /\ Count(lowPrio, t) \in Nat /\ Is(u, t) \in Nat
          BY <1>1, PlaceParts, NextParts DEF Is
        <4>3. Count(lowPrio', t) = Count(lowPrio, t)
          BY <3>1
        <4> QED BY <4>1, <4>2, <4>3
      <3>2. CASE lowPrio # <<>> /\ lowPrio' = Tail(lowPrio) /\ highPrio' = highPrio
                   /\ u = Head(lowPrio)
        <4>1. Count(lowPrio, t) = Count(lowPrio', t) + Is(u, t)
          BY <1>5, <3>2, CountTail
        <4>2. Count(highPrio, t) \in Nat /\ Count(lowPrio', t) \in Nat /\ Is(u, t) \in Nat
          BY <1>1, PlaceParts, NextParts DEF Is
        <4>3. Count(highPrio', t) = Count(highPrio, t)
          BY <3>2
        <4> QED BY <4>1, <4>2, <4>3
      <3> QED BY <1>6, <3>1, <3>2
    <2>3. Submits(t)' = Submits(t) /\ Ended(t)' = Ended(t)
      BY <1>2 DEF Submits, Ended
    <2>4. Is(u, t) \in Nat
      BY DEF Is
    <2> QED BY <1>1, <1>2, <2>1, <2>2, <2>3, <2>4, PlaceParts, NextParts
            DEF Channelled, Retried, Handled, retryVars
  <1>9. OnePlace'
    BY <1>1, <1>2, <1>8, PlacesKept
  <1> QED BY <1>2, <1>7, <1>9, RetryIdle DEF Accounted

\* Every element of a queue without one of its places is an element of it.
LEMMA WithoutElements ==
  ASSUME NEW s \in Seq(Transactions), NEW i \in 1..Len(s)
  PROVE  Elements(Without(s, i)) \subseteq Elements(s)
  <1> SUFFICES ASSUME NEW j \in 1..Len(Without(s, i))
               PROVE  \E k \in 1..Len(s) : Without(s, i)[j] = s[k]
    BY DEF Elements
  <1>1. j \in 1..(Len(s) - 1) /\ Len(s) \in Nat /\ i \in Nat
    BY WithoutParts
  <1>2. Without(s, i)[j] = IF j < i THEN s[j] ELSE s[j + 1]
    BY <1>1, WithoutParts
  <1>3. j \in 1..Len(s) /\ j + 1 \in 1..Len(s)
    BY <1>1
  <1>4. CASE j < i
    BY <1>2, <1>3, <1>4
  <1>5. CASE ~(j < i)
    BY <1>2, <1>3, <1>5
  <1> QED BY <1>4, <1>5

\* The retry goroutine receives a failed transaction, starts or ends a retry.
LEMMA RequeueAccounted ==
  ASSUME IInv, IInv', Accounted, RequeueTransaction
  PROVE  Accounted'
  <1>1. OnePlace /\ requeued \in Seq(Transactions) /\ retryQueue \in Seq(Transactions)
    BY DEF Accounted, IInv, TypeOK, QueueTypeOK, RetryTypeOK
  <1>2. /\ UNCHANGED <<created, submitting, highPrio, lowPrio, retrying, newQueue,
                       overLimit, held, pc, outcome>>
        /\ pc["retry"] = "select" /\ requeued # <<>>
    BY DEF RequeueTransaction
  <1>3. PICK u \in Transactions :
          /\ u = Head(requeued) /\ requeued' = Tail(requeued)
          /\ retryQueue' = Append(retryQueue, u)
    BY <1>1, TailFacts DEF RequeueTransaction
  <1>4. ASSUME NEW t \in Transactions
        PROVE  Channelled(t)' + Retried(t)' + Handled(t)' = Channelled(t) + Retried(t) + Handled(t)
    <2>1. Count(requeued, t) = Count(requeued', t) + Is(u, t)
      BY <1>1, <1>2, <1>3, CountTail
    <2>2. Count(retryQueue', t) = Count(retryQueue, t) + Is(u, t)
      BY <1>1, <1>3, CountAppend
    <2>3. Submits(t)' = Submits(t) /\ Ended(t)' = Ended(t) /\ HeldBy(t)' = HeldBy(t)
      BY <1>2 DEF Submits, Ended, HeldBy
    <2>4. Is(u, t) \in Nat
      BY DEF Is
    <2>5. /\ Count(requeued', t) \in Nat /\ Count(retryQueue, t) \in Nat
          /\ Count(retrying, t) \in Nat /\ Count(newQueue, t) \in Nat
          /\ Cardinality(HeldBy(t)) \in Nat /\ Ended(t) \in Nat
      BY <1>1, PlaceParts, NextParts
    <2>6. Retried(t)' = Retried(t) + Is(u, t) /\ Retried(t) \in Nat
      BY <1>2, <2>2, <2>4, <2>5 DEF Retried
    <2>7. Handled(t) = Handled(t)' + Is(u, t) /\ Handled(t)' \in Nat
      BY <2>1, <2>3, <2>4, <2>5 DEF Handled
    <2>8. Channelled(t)' = Channelled(t) /\ Channelled(t) \in Nat
      <3>1. Submits(t) \in Nat /\ Count(highPrio, t) \in Nat /\ Count(lowPrio, t) \in Nat
        BY <1>1, PlaceParts
      <3> QED BY <1>2, <2>3, <3>1 DEF Channelled
    <2> QED BY <2>4, <2>6, <2>7, <2>8
  <1>5. OnePlace'
    BY <1>1, <1>2, <1>4, PlacesKept
  <1>6. EmptyHands' /\ RetryPhases'
    BY <1>2 DEF Accounted, EmptyHands, RetryPhases
  <1>7. NewestFirst' /\ LimitDropsOldest'
    BY <1>2 DEF Accounted, NewestFirst, LimitDropsOldest, Elements
  <1> QED BY <1>5, <1>6, <1>7 DEF Accounted

\* The hands of the others are as they were when the retry goroutine moves on.
LEMMA RetryGoes ==
  ASSUME IInv, Accounted, NEW from, NEW to, Goto("retry", from, to), UNCHANGED held
  PROVE  /\ pc["retry"] = from /\ pc'["retry"] = to
         /\ EmptyHands'
  <1>1. "retry" \in Goroutines /\ Handlers \subseteq Goroutines /\ "retry" \notin Handlers
    BY ForwarderAssumption DEF ForwarderAssumption, Goroutines, Handlers
  <1>2. DOMAIN pc = Goroutines
    BY DEF IInv, TypeOK, ControlTypeOK
  <1>3. \A p \in Handlers : pc'[p] = pc[p]
    BY <1>1, <1>2 DEF Goto, IInv, TypeOK, ControlTypeOK
  <1>4. pc["retry"] = from /\ pc'["retry"] = to
    BY <1>1, <1>2 DEF Goto, IInv, TypeOK, ControlTypeOK
  <1> QED BY <1>3, <1>4 DEF Accounted, EmptyHands

\* A retry begins with the whole retry queue and ends with what it kept.
LEMMA PassAccounted ==
  ASSUME IInv, IInv', Accounted, StartRetry \/ FinishRetry
  PROVE  Accounted'
  <1>1. OnePlace
    BY DEF Accounted
  <1>2. UNCHANGED <<created, submitting, queueVars, held, outcome>>
    BY DEF StartRetry, FinishRetry
  <1>3. \A t \in Transactions : Channelled(t)' = Channelled(t) /\ Handled(t)' = Handled(t)
    BY <1>2 DEF Channelled, Handled, Submits, Ended, HeldBy, queueVars
  <1>4. \A t : Count(<<>>, t) = 0
    BY CountEmpty
  <1>5. Elements(<<>>) = {} /\ Len(<<>>) = 0 /\ RetryQueueLimit \in Nat
    BY ForwarderAssumption DEF ForwarderAssumption, Elements
  <1>6. CASE StartRetry
    <2>1. Goto("retry", "select", "retry")
      BY <1>6 DEF StartRetry
    <2>2. EmptyHands' /\ pc["retry"] = "select" /\ pc'["retry"] = "retry"
      BY <1>2, <2>1, RetryGoes
    <2>3. retrying = <<>> /\ newQueue = <<>> /\ overLimit = {}
      BY <2>2 DEF Accounted, RetryPhases
    <2>4. retrying' = retryQueue /\ retryQueue' = <<>> /\ newQueue' = <<>> /\ overLimit' = {}
      BY <1>6, <2>3 DEF StartRetry
    <2>5. \A t \in Transactions : Retried(t)' = Retried(t)
      <3> SUFFICES ASSUME NEW t \in Transactions PROVE Retried(t)' = Retried(t)
        OBVIOUS
      <3>1. Count(retryQueue, t) \in Nat
        BY <1>1, PlaceParts
      <3>2. /\ Count(retryQueue', t) = 0 /\ Count(retrying', t) = Count(retryQueue, t)
            /\ Count(newQueue', t) = 0 /\ Count(retrying, t) = 0 /\ Count(newQueue, t) = 0
        BY <1>4, <2>3, <2>4
      <3> QED BY <3>1, <3>2 DEF Retried
    <2>6. RetryPhases' /\ NewestFirst' /\ LimitDropsOldest'
      BY <1>5, <2>2, <2>4 DEF RetryPhases, NewestFirst, LimitDropsOldest
    <2>7. OnePlace'
      BY <1>1, <1>2, <1>3, <2>5, PlacesKept
    <2> QED BY <2>2, <2>6, <2>7 DEF Accounted
  <1>7. CASE FinishRetry
    <2>1. Goto("retry", "retry", "select") /\ retrying = <<>>
      BY <1>7 DEF FinishRetry
    <2>2. EmptyHands' /\ pc["retry"] = "retry" /\ pc'["retry"] = "select"
      BY <1>2, <2>1, RetryGoes
    <2>3. retryQueue = <<>>
      BY <2>2 DEF Accounted, RetryPhases
    <2>4. retrying' = <<>> /\ retryQueue' = newQueue /\ newQueue' = <<>> /\ overLimit' = {}
      BY <1>7 DEF FinishRetry
    <2>5. \A t \in Transactions : Retried(t)' = Retried(t)
      <3> SUFFICES ASSUME NEW t \in Transactions PROVE Retried(t)' = Retried(t)
        OBVIOUS
      <3>1. Count(newQueue, t) \in Nat
        BY <1>1, PlaceParts
      <3>2. /\ Count(retryQueue', t) = Count(newQueue, t) /\ Count(retrying', t) = 0
            /\ Count(newQueue', t) = 0 /\ Count(retrying, t) = 0 /\ Count(retryQueue, t) = 0
        BY <1>4, <2>1, <2>3, <2>4
      <3> QED BY <3>1, <3>2 DEF Retried
    <2>6. RetryPhases' /\ NewestFirst' /\ LimitDropsOldest'
      BY <1>5, <2>2, <2>4 DEF RetryPhases, NewestFirst, LimitDropsOldest
    <2>7. OnePlace'
      BY <1>1, <1>2, <1>3, <2>5, PlacesKept
    <2> QED BY <2>2, <2>6, <2>7 DEF Accounted
  <1> QED BY <1>6, <1>7

(***************************************************************************)
(* A retry looks at the newest of the transactions that are left.  It is   *)
(* in no other place, so that all that are left are older: what the queue  *)
(* has no room for any more is older than what it keeps.                   *)
(***************************************************************************)
LEMMA RetryAccounted ==
  ASSUME IInv, IInv', Accounted, NEW i \in 1..Len(retrying), RetryTransaction(i)
  PROVE  Accounted'
  <1>1. /\ OnePlace /\ retrying \in Seq(Transactions) /\ newQueue \in Seq(Transactions)
        /\ lowPrio \in Seq(Transactions) /\ RetryQueueLimit \in Nat
    BY ForwarderAssumption
       DEF ForwarderAssumption, Accounted, IInv, TypeOK, QueueTypeOK, RetryTypeOK
  <1>2. PICK u \in Transactions : u = retrying[i]
    BY <1>1
  <1>3. /\ UNCHANGED <<created, submitting, highPrio, requeued, retryQueue, held, pc>>
        /\ pc["retry"] = "retry"
        /\ retrying' = Without(retrying, i)
        /\ \A j \in 1..Len(retrying) : u >= retrying[j]
    BY <1>2 DEF RetryTransaction, NewestAt
  <1>4. \/ lowPrio' = Append(lowPrio, u) /\ UNCHANGED <<newQueue, overLimit, outcome>>
        \/ /\ outcome' = [outcome EXCEPT ![u] = "dropped"]
           /\ UNCHANGED <<lowPrio, newQueue, overLimit>>
        \/ /\ newQueue' = Append(newQueue, u) /\ Len(newQueue) < RetryQueueLimit
           /\ UNCHANGED <<lowPrio, overLimit, outcome>>
        \/ /\ overLimit' = overLimit \cup {u} /\ Len(newQueue) >= RetryQueueLimit
           /\ outcome' = [outcome EXCEPT ![u] = "dropped"]
           /\ UNCHANGED <<lowPrio, newQueue>>
    BY <1>2 DEF RetryTransaction, Ends
  <1>5. u \in Elements(retrying) /\ Count(retrying, u) > 0
    <2>1. u \in Elements(retrying)
      BY <1>2 DEF Elements
    <2> QED BY <1>1, <2>1, CountType
  <1>6. Ended(u) = 0 /\ Count(retrying, u) <= 1
    BY <1>1, <1>5, Elsewhere
  <1>7. \A t \in Transactions : Count(retrying, t) = Count(retrying', t) + Is(u, t)
    BY <1>1, <1>2, <1>3, CountWithout
  <1>8. ASSUME NEW t \in Transactions
        PROVE  Count(lowPrio', t) + Count(newQueue', t) + Ended(t)'
                 = Count(lowPrio, t) + Count(newQueue, t) + Ended(t) + Is(u, t)
    <2>1. /\ Count(lowPrio, t) \in Nat /\ Count(newQueue, t) \in Nat /\ Ended(t) \in Nat
          /\ Is(u, t) \in Nat
      BY <1>1, PlaceParts DEF Is
    <2>2. CASE lowPrio' = Append(lowPrio, u) /\ UNCHANGED <<newQueue, outcome>>
      <3>1. Count(lowPrio', t) = Count(lowPrio, t) + Is(u, t)
        BY <1>1, <2>2, CountAppend
      <3>2. Count(newQueue', t) = Count(newQueue, t) /\ Ended(t)' = Ended(t)
        BY <2>2 DEF Ended
      <3> QED BY <2>1, <3>1, <3>2
    <2>3. CASE newQueue' = Append(newQueue, u) /\ UNCHANGED <<lowPrio, outcome>>
      <3>1. Count(newQueue', t) = Count(newQueue, t) + Is(u, t)
        BY <1>1, <2>3, CountAppend
      <3>2. Count(lowPrio', t) = Count(lowPrio, t) /\ Ended(t)' = Ended(t)
        BY <2>3 DEF Ended
      <3> QED BY <2>1, <3>1, <3>2
    <2>4. CASE outcome' = [outcome EXCEPT ![u] = "dropped"] /\ UNCHANGED <<lowPrio, newQueue>>
      <3>1. Ended(t)' = Ended(t) + Is(u, t)
        BY <1>1, <1>6, <2>4, EndsOnce
      <3>2. Count(lowPrio', t) = Count(lowPrio, t) /\ Count(newQueue', t) = Count(newQueue, t)
        BY <2>4
      <3> QED BY <2>1, <3>1, <3>2
    <2> QED BY <1>4, <2>2, <2>3, <2>4
  <1>9. ASSUME NEW t \in Transactions
        PROVE  Channelled(t)' + Retried(t)' + Handled(t)' = Channelled(t) + Retried(t) + Handled(t)
    <2>1. Count(retrying, t) = Count(retrying', t) + Is(u, t) /\ Is(u, t) \in Nat
      BY <1>7 DEF Is
    <2>2. Submits(t)' = Submits(t) /\ HeldBy(t)' = HeldBy(t)
      BY <1>3 DEF Submits, HeldBy
    <2>3. /\ Count(highPrio', t) = Count(highPrio, t) /\ Count(requeued', t) = Count(requeued, t)
          /\ Count(retryQueue', t) = Count(retryQueue, t)
      BY <1>3
    <2>4. /\ Submits(t) \in Nat /\ Count(highPrio, t) \in Nat /\ Count(lowPrio, t) \in Nat
          /\ Count(requeued, t) \in Nat /\ Count(retryQueue, t) \in Nat
          /\ Count(newQueue, t) \in Nat /\ Cardinality(HeldBy(t)) \in Nat /\ Ended(t) \in Nat
      BY <1>1, PlaceParts
    <2>5. /\ Count(retrying', t) \in Nat /\ Count(lowPrio', t) \in Nat
          /\ Count(newQueue', t) \in Nat /\ Ended(t)' \in Nat
      BY NextParts
    <2>6. Submits(t) + Count(highPrio, t) + Count(lowPrio', t)
            + (Count(retryQueue, t) + Count(retrying', t) + Count(newQueue', t))
            + (Count(requeued, t) + Cardinality(HeldBy(t)) + Ended(t)')
          = Submits(t) + Count(highPrio, t) + Count(lowPrio, t)
            + (Count(retryQueue, t) + Count(retrying, t) + Count(newQueue, t))
            + (Count(requeued, t) + Cardinality(HeldBy(t)) + Ended(t))
      <3>1. Count(lowPrio', t) + Count(newQueue', t) + Ended(t)'
              = Count(lowPrio, t) + Count(newQueue, t) + Ended(t) + Is(u, t)
        BY <1>8
      <3> DEFINE a == Submits(t) + Count(highPrio, t)
                 b == Count(retryQueue, t)
                 c == Count(requeued, t) + Cardinality(HeldBy(t))
                 l == Count(lowPrio, t)
                 m == Count(lowPrio', t)
                 n == Count(newQueue, t)
                 o == Count(newQueue', t)
                 d == Ended(t)
                 e == Ended(t)'
                 r == Count(retrying', t)
                 x == Is(u, t)
      <3>2. /\ a \in Nat /\ b \in Nat /\ c \in Nat /\ l \in Nat /\ m \in Nat /\ n \in Nat
            /\ o \in Nat /\ d \in Nat /\ e \in Nat /\ r \in Nat /\ x \in Nat
            /\ m + o + e = l + n + d + x
        <4>1. a \in Nat /\ b \in Nat /\ c \in Nat
          BY <2>4
        <4>2. l \in Nat /\ n \in Nat /\ d \in Nat
          BY <2>4
        <4>3. m \in Nat /\ o \in Nat /\ e \in Nat /\ r \in Nat
          BY <2>5
        <4> QED BY <2>1, <3>1, <4>1, <4>2, <4>3
      <3> HIDE DEF a, b, c, l, m, n, o, d, e, r, x
      <3>3. a + m + (b + r + o) + (c + e) = a + l + (b + (r + x) + n) + (c + d)
        BY <3>2
      <3> QED BY <2>1, <3>3 DEF a, b, c, l, m, n, o, d, e, r, x
    <2> QED BY <2>2, <2>3, <2>6 DEF Channelled, Retried, Handled
  <1>10. OnePlace'
    BY <1>1, <1>3, <1>9, PlacesKept
  <1>11. EmptyHands' /\ RetryPhases'
    BY <1>3 DEF Accounted, EmptyHands, RetryPhases
  <1>12. Elements(retrying') \subseteq Elements(retrying) /\ u \notin Elements(retrying')
    <2>1. retrying' \in Seq(Transactions)
      BY <1>1, <1>3, WithoutType
    <2>5. Is(u, u) = 1
      BY DEF Is
    <2>6. Count(retrying, u) = Count(retrying', u) + 1
      BY <1>7, <2>5
    <2>2. Count(retrying', u) \in Nat /\ Count(retrying, u) = Count(retrying', u) + 1
      BY <2>1, <2>6, CountType
    <2>3. Count(retrying', u) = 0
      BY <1>6, <2>2
    <2>4. u \notin Elements(retrying')
      <3>1. PICK r \in Seq(Transactions) : r = retrying'
        BY <2>1
      <3>2. Count(r, u) = 0
        BY <2>3, <3>1
      <3>3. u \in Elements(r) <=> Count(r, u) > 0
        BY CountType
      <3>4. u \notin Elements(r)
        BY <3>2, <3>3
      <3> QED BY <3>1, <3>4
    <2> QED BY <1>1, <1>3, <2>4, WithoutElements
  <1>13. \A t \in Elements(retrying') : t \in Nat /\ t < u
    <2> SUFFICES ASSUME NEW t \in Elements(retrying') PROVE t \in Nat /\ t < u
      OBVIOUS
    <2>1. t \in Elements(retrying) /\ t # u
      BY <1>12
    <2>2. t \in Transactions /\ u >= t
      BY <1>1, <1>3, <2>1 DEF Elements
    <2> QED BY <2>1, <2>2 DEF Transactions
  <1>14. Elements(newQueue') \subseteq Elements(newQueue) \cup {u}
    BY <1>1, <1>4, AppendFacts
  <1>15. \A k \in Elements(newQueue) : u < k
    BY <1>5 DEF Accounted, NewestFirst
  <1>16. NewestFirst'
    BY <1>12, <1>13, <1>14 DEF Accounted, NewestFirst
  <1>17. LimitDropsOldest'
    <2>1. /\ Len(newQueue) \in Nat /\ Len(newQueue) <= RetryQueueLimit
          /\ overLimit # {} => Len(newQueue) = RetryQueueLimit
          /\ \A t \in overLimit, k \in Elements(newQueue) : t < k
      BY <1>1 DEF Accounted, LimitDropsOldest
    <2>2. CASE UNCHANGED <<newQueue, overLimit>>
      BY <2>1, <2>2 DEF LimitDropsOldest, Elements
    <2>3. CASE newQueue' = Append(newQueue, u) /\ Len(newQueue) < RetryQueueLimit
                 /\ UNCHANGED overLimit
      <3>1. Len(newQueue') = Len(newQueue) + 1
        BY <1>1, <2>3
      <3>2. Len(newQueue') <= RetryQueueLimit /\ overLimit = {}
        BY <1>1, <2>1, <2>3, <3>1
      <3> QED BY <2>3, <3>2 DEF LimitDropsOldest
    <2>4. CASE overLimit' = overLimit \cup {u} /\ Len(newQueue) >= RetryQueueLimit
                 /\ UNCHANGED newQueue
      <3>1. Len(newQueue) = RetryQueueLimit
        BY <1>1, <2>1, <2>4
      <3> QED BY <1>15, <2>1, <2>4, <3>1 DEF LimitDropsOldest, Elements
    <2> QED BY <1>4, <2>2, <2>3, <2>4
  <1> QED BY <1>10, <1>11, <1>16, <1>17 DEF Accounted

\* When Stop has closed the channels, what was in the retry queue has ended.
LEMMA CloseAccounted ==
  ASSUME IInv, IInv', Accounted, CloseChannels
  PROVE  Accounted'
  <1>1. OnePlace /\ retryQueue \in Seq(Transactions) /\ outcome \in [Transactions -> Outcomes]
    BY DEF Accounted, IInv, TypeOK, RetryTypeOK, BreakerTypeOK
  <1>2. /\ UNCHANGED <<created, submitting, queueVars, retrying, newQueue, overLimit, held>>
        /\ retryQueue' = <<>> /\ Goto("stop", "next", "stopped")
        /\ outcome' = [t \in Transactions |->
                         IF t \in Elements(retryQueue) THEN "lost" ELSE outcome[t]]
    BY DEF CloseChannels
  <1>3. ASSUME NEW t \in Transactions
        PROVE  Ended(t)' = Ended(t) + Count(retryQueue, t)
    <2>1. Count(retryQueue, t) \in Nat /\ Count(retryQueue, t) <= 1
      BY <1>1, CountType, Elsewhere
    <2>2. Ended(t) \in Nat
      BY DEF Ended
    <2>3. CASE t \in Elements(retryQueue)
      <3>1. Count(retryQueue, t) > 0
        BY <1>1, <2>3, CountType
      <3>2. Count(retryQueue, t) = 1 /\ Ended(t) = 0
        BY <1>1, <2>1, <3>1, Elsewhere
      <3>3. Ended(t)' = 1
        BY <1>2, <2>3 DEF Ended
      <3> QED BY <3>2, <3>3
    <2>4. CASE t \notin Elements(retryQueue)
      <3>1. ~(Count(retryQueue, t) > 0)
        BY <1>1, <2>4, CountType
      <3>2. Count(retryQueue, t) = 0
        BY <2>1, <3>1
      <3>3. Ended(t)' = Ended(t)
        BY <1>2, <2>4 DEF Ended
      <3> QED BY <2>2, <3>2, <3>3
    <2> QED BY <2>3, <2>4
  <1>4. ASSUME NEW t \in Transactions
        PROVE  Channelled(t)' + Retried(t)' + Handled(t)' = Channelled(t) + Retried(t) + Handled(t)
    <2>1. Channelled(t)' = Channelled(t) /\ HeldBy(t)' = HeldBy(t)
      BY <1>2 DEF Channelled, Submits, HeldBy, queueVars
    <2>2. /\ Count(retryQueue', t) = 0 /\ Count(retrying', t) = Count(retrying, t)
          /\ Count(newQueue', t) = Count(newQueue, t)
          /\ Count(requeued', t) = Count(requeued, t)
      BY <1>2, CountEmpty DEF queueVars
    <2>3. /\ Count(retryQueue, t) \in Nat /\ Count(retrying, t) \in Nat
          /\ Count(newQueue, t) \in Nat /\ Count(requeued, t) \in Nat
          /\ Cardinality(HeldBy(t)) \in Nat /\ Ended(t) \in Nat
      BY <1>1, PlaceParts
    <2>4. Channelled(t) \in Nat
      <3>1. Submits(t) \in Nat /\ Count(highPrio, t) \in Nat /\ Count(lowPrio, t) \in Nat
        BY <1>1, PlaceParts
      <3> QED BY <3>1 DEF Channelled
    <2>5. Retried(t) = Retried(t)' + Count(retryQueue, t) /\ Retried(t)' \in Nat
      BY <2>2, <2>3 DEF Retried
    <2>6. Handled(t)' = Handled(t) + Count(retryQueue, t) /\ Handled(t) \in Nat
      <3>1. Ended(t)' = Ended(t) + Count(retryQueue, t)
        BY <1>3
      <3> QED BY <2>1, <2>2, <2>3, <3>1 DEF Handled
    <2> QED BY <2>1, <2>3, <2>4, <2>5, <2>6
  <1>5. OnePlace'
    BY <1>1, <1>2, <1>4, PlacesKept
  <1>6. "stop" \in Handlers /\ held' = [held EXCEPT !["stop"] = 0]
    <2>1. "stop" \in Handlers /\ held \in [Handlers -> 0..TransactionLimit]
      BY DEF Handlers, IInv, TypeOK, ControlTypeOK
    <2>2. held["stop"] = 0
      BY <1>2, <2>1 DEF Accounted, EmptyHands, Goto, Busy
    <2> QED BY <1>2, <2>1, <2>2
  <1>7. EmptyHands' /\ (pc'["retry"] = "retry" <=> pc["retry"] = "retry")
    BY <1>2, <1>6, HandsNext
  <1>8. RetryPhases' /\ NewestFirst' /\ LimitDropsOldest'
    BY <1>2, <1>7 DEF Accounted, RetryPhases, NewestFirst, LimitDropsOldest, Elements
  <1> QED BY <1>5, <1>7, <1>8 DEF Accounted

\* Steps that move no transaction and let nobody lay one down.
LEMMA QuietAccounted ==
  ASSUME IInv, IInv', Accounted,
         UNCHANGED <<created, submitting, queueVars, retryVars, held, outcome>>,
         pc'["retry"] = "retry" <=> pc["retry"] = "retry",
         \A p \in Handlers : pc[p] \in Busy => pc'[p] \in Busy
  PROVE  Accounted'
  <1>1. OnePlace'
    BY DEF Accounted, OnePlace, Places, Count, HeldBy, queueVars, retryVars
  <1>2. EmptyHands'
    BY DEF Accounted, EmptyHands
  <1> QED BY <1>1, <1>2, RetryIdle DEF Accounted

\* The steps of Stop and of the worker that finds nothing, and time.
LEMMA IdleAccounted ==
  ASSUME IInv, IInv', Accounted,
         \/ \E w \in Workers : NothingNew(w)
         \/ \E e \in Endpoints : BlockExpires(e)
         \/ Stop \/ StopRetry \/ (\E w \in Workers : StopWorker(w))
         \/ ReceiveStop \/ Join \/ PurgeEnds \/ StopTimeout
  PROVE  Accounted'
  <1>1. UNCHANGED <<created, submitting, queueVars, retryVars, held, outcome>>
    BY DEF NothingNew, BlockExpires, Stop, StopRetry, StopWorker, ReceiveStop, Join,
       PurgeEnds, LeavePurge, StopTimeout
  <1>2. /\ "stop" \in Goroutines /\ "retry" \in Goroutines /\ "stop" # "retry"
        /\ Workers \subseteq Goroutines /\ Handlers \subseteq Goroutines
        /\ "retry" \notin Handlers /\ "stop" \notin Workers
        /\ DOMAIN pc = Goroutines
    BY ForwarderAssumption DEF ForwarderAssumption, Goroutines, Handlers, IInv, TypeOK,
       ControlTypeOK
  <1>3. CASE UNCHANGED pc
    BY <1>1, <1>3, QuietAccounted
  <1>4. ASSUME NEW p \in Handlers, NEW from, NEW to, from \notin Busy, Goto(p, from, to)
        PROVE  Accounted'
    <2>1. \A q \in Goroutines : pc'[q] = IF q = p THEN to ELSE pc[q]
      BY <1>2, <1>4 DEF Goto, IInv, TypeOK, ControlTypeOK
    <2>2. pc[p] = from
      BY <1>4 DEF Goto
    <2>3. \A q \in Handlers : pc[q] \in Busy => pc'[q] \in Busy
      BY <1>2, <1>4, <2>1, <2>2
    <2>4. pc'["retry"] = pc["retry"]
      BY <1>2, <2>1
    <2> QED BY <1>1, <2>3, <2>4, QuietAccounted
  <1>5. CASE StopRetry
    <2>1. /\ pc["stop"] = "stopRetry" /\ pc["retry"] = "select"
          /\ \A q \in Goroutines : pc'[q] = CASE q = "stop"  -> "next"
                                              [] q = "retry" -> "ended"
                                              [] OTHER       -> pc[q]
      BY <1>2, <1>5 DEF StopRetry, IInv, TypeOK, ControlTypeOK
    <2>2. \A q \in Handlers : pc[q] \in Busy => pc'[q] \in Busy
      BY <1>2, <2>1 DEF Busy
    <2>3. ~(pc["retry"] = "retry") /\ ~(pc'["retry"] = "retry")
      BY <1>2, <2>1
    <2> QED BY <1>1, <2>2, <2>3, QuietAccounted
  <1>6. CASE ReceiveStop
    <2>1. pc["stop"] = "offer" /\ ending \in Workers
      BY <1>6 DEF ReceiveStop, IInv, Handling
    <2>2. /\ pc'["retry"] = pc["retry"]
          /\ \A q \in Handlers : pc'[q] # pc[q] =>
               q = "stop" \/ (q = ending /\ pc[q] \in {"poll", "wait"})
      <3>1. \/ /\ pc' = [pc EXCEPT !["stop"] = "join", ![ending] = "ended"]
               /\ pc[ending] \in {"poll", "wait"}
            \/ pc' = [pc EXCEPT !["stop"] = "join"]
        BY <1>6 DEF ReceiveStop
      <3>2. ending # "retry" /\ ending \in Goroutines
        BY <1>2, <2>1, ForwarderAssumption DEF ForwarderAssumption
      <3>3. pc'["retry"] = pc["retry"]
        BY <1>2, <3>1, <3>2 DEF IInv, TypeOK, ControlTypeOK
      <3>4. \A q \in Goroutines : pc'[q] # pc[q] =>
               q = "stop" \/ (q = ending /\ pc[q] \in {"poll", "wait"})
        <4>1. pc \in [Goroutines -> {pc[q] : q \in Goroutines}]
          BY <1>2 DEF IInv, TypeOK, ControlTypeOK
        <4> QED BY <3>1, <4>1
      <3> QED BY <1>2, <3>3, <3>4
    <2>3. \A q \in Handlers : pc[q] \in Busy => pc'[q] \in Busy
      BY <2>1, <2>2 DEF Busy
    <2> QED BY <1>1, <2>2, <2>3, QuietAccounted
  <1>7. "stop" \in Handlers /\ Workers \subseteq Handlers
    BY DEF Handlers
  <1>8. CASE \E w \in Workers : NothingNew(w)
    BY <1>4, <1>7, <1>8 DEF NothingNew, Busy
  <1>9. CASE Stop \/ (\E w \in Workers : StopWorker(w)) \/ Join \/ PurgeEnds
    BY <1>4, <1>7, <1>9 DEF Stop, StopWorker, Join, PurgeEnds, LeavePurge, Busy
  <1>10. CASE (\E e \in Endpoints : BlockExpires(e)) \/ StopTimeout
    BY <1>3, <1>10 DEF BlockExpires, StopTimeout
  <1> QED BY <1>5, <1>6, <1>8, <1>9, <1>10

\* Every step.
LEMMA NextAccounted == IInv /\ IInv' /\ Accounted /\ [Next]_vars => Accounted'
  <1> SUFFICES ASSUME IInv, IInv', Accounted, [Next]_vars PROVE Accounted'
    OBVIOUS
  <1>1. CASE UNCHANGED vars
    BY <1>1, QuietAccounted DEF vars
  <1>2. ASSUME NEW w \in Workers, Worker(w) PROVE Accounted'
    <2>1. w \in Handlers
      BY DEF Handlers
    <2> QED BY <1>2, <2>1, IdleAccounted, ProcessAccounted, ReceiveAccounted DEF Worker
  <1>3. CASE Stopping
    <2>1. "stop" \in Handlers
      BY DEF Handlers
    <2> QED BY <1>3, <2>1, IdleAccounted, ProcessAccounted, ReceiveAccounted, CloseAccounted
            DEF Stopping
  <1>4. CASE RequeueTransaction \/ StartRetry \/ Retry
    BY <1>4, RequeueAccounted, PassAccounted, RetryAccounted DEF Retry
  <1> QED BY <1>1, <1>2, <1>3, <1>4, SubmitAccounted, IdleAccounted DEF Next

\* The accounts hold in every reachable state.
LEMMA AccountedAlways == Spec => []Accounted
  BY InitAccounted, NextAccounted, Invariance, PTL DEF Spec

(***************************************************************************)
(* NoneLostOrDoubled: at every time, a transaction that was created is in  *)
(* exactly one place or has ended in exactly one way, whatever the         *)
(* workers, the retries, the circuit breaker and Stop do to it.            *)
(***************************************************************************)
THEOREM NoneLostOrDoubled == Spec => []OnePlace
  <1>1. Accounted => OnePlace
    BY DEF Accounted
  <1> QED BY <1>1, AccountedAlways, PTL

(***************************************************************************)
(* OldestDropped: a retry that runs out of room in the retry queue drops   *)
(* what is older than everything it keeps, and keeps as many as it may.    *)
(***************************************************************************)
THEOREM OldestDropped == Spec => []LimitDropsOldest
  <1>1. Accounted => LimitDropsOldest
    BY DEF Accounted
  <1> QED BY <1>1, AccountedAlways, PTL

=============================================================================
